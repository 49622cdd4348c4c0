----------------------- MODULE WorkspaceSync_proofs ------------------------
(***************************************************************************)
(* The workspace for any number of devices, tabs, settings and syncs: once *)
(* everything has been handled the metadata agree and each restore point   *)
(* is current, and tabs change by the user's hand alone.                   *)
(*                                                                         *)
(* The inductive invariant follows a setting and a restore point on their  *)
(* way: what a device holds has reached the hub, is on the socket, or is   *)
(* marked to be published; what the hub holds has reached a connected      *)
(* device or waits in its queue.  It needs that a stamp names one register *)
(* and that a device has seen every register it stamped itself.            *)
(***************************************************************************)
EXTENDS WorkspaceSync, FiniteSetTheorems, WellFoundedInduction, TLAPS

Stamps == Nat \X (Devices \union {0})
TabRegs == [Tabs -> Reg]
WsRow == [store : [Keys -> Reg], clock : Nat, dirty : SUBSET Keys, snapDirty : BOOLEAN,
          timer : BOOLEAN, ready : BOOLEAN, seen : BOOLEAN, remote : TabRegs,
          snaps : [Devices -> Snap], inherit : BOOLEAN, initialized : BOOLEAN, queue : Seq(Task)]
WireRow == [up : BOOLEAN, out : Seq(Bundle)]

(* The stamps of one key are totally ordered.                              *)
LEMMA LaterOrder ==
  ASSUME NEW a \in Stamps, NEW b \in Stamps, NEW c \in Stamps
  PROVE  /\ ~Later(a, a)
         /\ Later(a, b) => ~Later(b, a)
         /\ Later(a, b) \/ Later(b, a) \/ a = b
         /\ Later(a, b) /\ Later(b, c) => Later(a, c)
<1>1. \A h \in Stamps : h[1] \in Nat /\ h[2] \in Nat /\ h = <<h[1], h[2]>>
  <2>1. Devices \union {0} \subseteq Nat
    BY WsAssumption
  <2> QED BY <2>1 DEF Stamps
<1>2. /\ a[1] \in Nat /\ a[2] \in Nat /\ a = <<a[1], a[2]>>
      /\ b[1] \in Nat /\ b[2] \in Nat /\ b = <<b[1], b[2]>>
      /\ c[1] \in Nat /\ c[2] \in Nat /\ c = <<c[1], c[2]>>
  BY <1>1
<1> QED BY <1>2 DEF Later

(* A finite set of numbers has a largest one: the one with fewest above it. *)
LEMMA MaxOfFinite ==
  ASSUME NEW S \in SUBSET Nat, IsFiniteSet(S), S # {}
  PROVE  Max(S) \in S /\ \A n \in S : Max(S) >= n
<1> DEFINE Above(n) == {m \in S : m > n}
           T == {Above(n) : n \in S}
<1>1. T \subseteq FiniteSubsetsOf(S) /\ T # {}
  <2>1. \A n \in S : Above(n) \in SUBSET S
    OBVIOUS
  <2>2. \A U \in SUBSET S : IsFiniteSet(U)
    BY FS_Subset
  <2> QED BY <2>1, <2>2 DEF FiniteSubsetsOf
<1>2. IsWellFoundedOn(StrictSubsetOrdering(S), FiniteSubsetsOf(S))
  BY FS_StrictSubsetOrderingWellFounded
<1>3. PICK x \in T : \A y \in T : <<y, x>> \notin StrictSubsetOrdering(S)
  <2> HIDE DEF T
  <2> QED BY <1>1, <1>2, WFMin
<1>4. PICK n \in S : x = Above(n)
  OBVIOUS
<1>5. ASSUME NEW m \in S, m > n PROVE FALSE
  <2>1. Above(m) \subseteq Above(n) /\ m \in Above(n) /\ m \notin Above(m)
    <3>1. m \in Nat /\ n \in Nat /\ \A i \in S : i \in Nat
      OBVIOUS
    <3>2. \A i \in S : i > m => i > n
      BY <1>5, <3>1
    <3>3. ~(m > m)
      BY <3>1
    <3> QED BY <1>5, <3>2, <3>3
  <2>2. <<Above(m), Above(n)>> \in StrictSubsetOrdering(S)
    BY <2>1 DEF StrictSubsetOrdering
  <2> QED BY <1>3, <1>4, <2>2
<1>6. \A m \in S : n >= m
  BY <1>5
<1> HIDE DEF T
<1> QED BY <1>6 DEF Max

(* The numbers of a bundle are finitely many, so the clock can pass them.  *)
LEMMA ClockPasses ==
  ASSUME NEW docs \in Bundle, NEW n \in Nat
  PROVE  LET m == Max({n} \union Numbers(docs)) IN
           /\ m \in Nat /\ m >= n
           /\ \A k \in Keys : m >= docs.regs[k].hlc[1]
           /\ \A d \in Devices : m >= docs.snaps[d].hlc[1]
<1> DEFINE R == {docs.regs[k].hlc[1] : k \in Keys}
           N == {docs.snaps[d].hlc[1] : d \in Devices}
           S == {n} \union Numbers(docs)
<1>1. /\ \A k \in Keys : docs.regs[k].hlc[1] \in Nat
      /\ \A d \in Devices : docs.snaps[d].hlc[1] \in Nat
  BY DEF Bundle, Reg, Snap
<1>2. IsFiniteSet(R)
  <2>1. [k \in Keys |-> docs.regs[k].hlc[1]] \in Surjection(Keys, R)
    BY DEF Surjection
  <2> HIDE DEF R
  <2> QED BY <2>1, FS_Surjection, WsAssumption DEF Keys
<1>3. IsFiniteSet(N)
  <2>1. [d \in Devices |-> docs.snaps[d].hlc[1]] \in Surjection(Devices, N)
    BY DEF Surjection
  <2> HIDE DEF N
  <2> QED BY <2>1, FS_Surjection, WsAssumption
<1>4. IsFiniteSet(S) /\ S \subseteq Nat /\ S # {}
  <2>1. S = (R \union N) \union {n}
    BY DEF Numbers
  <2>2. IsFiniteSet(R \union N)
    BY <1>2, <1>3, FS_Union
  <2>3. IsFiniteSet(S)
    BY <2>1, <2>2, FS_AddElement
  <2> QED BY <2>1, <2>3, <1>1
<1>5. Max(S) \in S /\ \A m \in S : Max(S) >= m
  <2> HIDE DEF S
  <2> QED BY <1>4, MaxOfFinite
<1>6. \A k \in Keys : docs.regs[k].hlc[1] \in S
  BY DEF Numbers
<1>7. \A d \in Devices : docs.snaps[d].hlc[1] \in S
  BY DEF Numbers
<1> HIDE DEF S
<1>8. n \in S
  BY DEF S
<1>9. Max(S) \in Nat /\ Max(S) >= n
  BY <1>4, <1>5, <1>8
<1> QED BY <1>5, <1>6, <1>7, <1>9 DEF S

----------------------------------------------------------------------------
(* What the helpers of the store do to a row, field by field.              *)

(* The fields that only a connection, a hydration or a relaunch changes.   *)
SameSession(s, r) ==
  /\ r.ready = s.ready /\ r.seen = s.seen /\ r.snaps = s.snaps
  /\ r.inherit = s.inherit /\ r.initialized = s.initialized

(* The values a register, a restore point and a bundle start with.         *)
LEMMA NoRegType ==
  /\ NoReg \in Reg /\ NoHlc \in Stamps /\ NoSnap \in Snap
  /\ NoRegs \in [Keys -> Reg] /\ NoTabs \in TabRegs /\ NoSnaps \in [Devices -> Snap]
<1>1. NoHlc \in Stamps
  BY DEF NoHlc, Stamps
<1>2. NoReg \in Reg
  BY <1>1 DEF NoReg, Reg, Stamps
<1>3. NoTabs \in TabRegs /\ NoRegs \in [Keys -> Reg]
  BY <1>2 DEF NoTabs, NoRegs, TabRegs
<1>4. NoSnap \in Snap
  BY <1>1, <1>3 DEF NoSnap, Snap, Stamps, TabRegs
<1> QED BY <1>1, <1>2, <1>3, <1>4 DEF NoSnaps

(* What each helper of the store and the service does to a device's row:   *)
(* one lemma for each, NotifiedRow to RebornRow.                           *)
LEMMA NotifiedRow ==
  ASSUME NEW s \in WsRow, NEW keys \in SUBSET Keys
  PROVE  LET r == Notified(s, keys) IN
           /\ r \in WsRow /\ SameSession(s, r)
           /\ r.store = s.store /\ r.clock = s.clock /\ r.queue = s.queue /\ r.remote = s.remote
           /\ r.dirty = s.dirty \union (keys \cap Globals)
           /\ r.snapDirty = (s.snapDirty \/ keys \cap Tabs # {})
  BY DEF Notified, WsRow, SameSession, Keys

LEMMA RecordDocRow ==
  ASSUME NEW s \in WsRow, NEW d \in Devices, NEW k \in Keys, NEW doc \in Docs \union {"gone"}
  PROVE  LET r == RecordDoc(s, d, k, doc) IN
           /\ r \in WsRow /\ SameSession(s, r)
           /\ r.store = [s.store EXCEPT ![k] = [doc |-> doc, hlc |-> <<s.clock + 1, d>>]]
           /\ r.clock = s.clock + 1 /\ r.queue = s.queue /\ r.remote = s.remote
           /\ r.dirty = s.dirty \union ({k} \cap Globals)
           /\ r.snapDirty = (s.snapDirty \/ k \in Tabs)
<1>1. PICK new : new = [doc |-> doc, hlc |-> <<s.clock + 1, d>>]
  OBVIOUS
<1>2. new \in Reg /\ s.store \in [Keys -> Reg] /\ s.clock + 1 \in Nat
  BY <1>1 DEF Reg, WsRow
<1>3. PICK store : store = [s.store EXCEPT ![k] = new]
  OBVIOUS
<1>4. store \in [Keys -> Reg]
  BY <1>2, <1>3
<1>5. PICK p : p = [s EXCEPT !.store = store, !.clock = s.clock + 1]
  OBVIOUS
<1>6. /\ p \in WsRow /\ SameSession(s, p) /\ p.store = store
      /\ p.clock = s.clock + 1 /\ p.queue = s.queue /\ p.remote = s.remote /\ p.dirty = s.dirty
      /\ p.snapDirty = s.snapDirty
  BY <1>2, <1>4, <1>5 DEF WsRow, SameSession
<1>7. RecordDoc(s, d, k, doc) = Notified(p, {k})
  BY <1>1, <1>3, <1>5 DEF RecordDoc, Stamp, WsRow
<1>8. PICK r : r = Notified(p, {k})
  OBVIOUS
<1>9. /\ r \in WsRow /\ SameSession(p, r)
      /\ r.store = p.store /\ r.clock = p.clock /\ r.queue = p.queue /\ r.remote = p.remote
      /\ r.dirty = p.dirty \union ({k} \cap Globals)
      /\ r.snapDirty = (p.snapDirty \/ {k} \cap Tabs # {})
  BY <1>6, <1>8, NotifiedRow
<1>10. SameSession(s, r)
  BY <1>6, <1>9 DEF SameSession
<1>11. {k} \cap Tabs # {} <=> k \in Tabs
  OBVIOUS
<1>12. /\ r \in WsRow /\ SameSession(s, r)
       /\ r.store = [s.store EXCEPT ![k] = [doc |-> doc, hlc |-> <<s.clock + 1, d>>]]
       /\ r.clock = s.clock + 1 /\ r.queue = s.queue /\ r.remote = s.remote
       /\ r.dirty = s.dirty \union ({k} \cap Globals)
       /\ r.snapDirty = (s.snapDirty \/ k \in Tabs)
  BY <1>1, <1>3, <1>6, <1>9, <1>10, <1>11
<1> QED BY <1>7, <1>8, <1>12

LEMMA ReplacedRow ==
  ASSUME NEW s \in WsRow, NEW tabs \in TabRegs
  PROVE  LET r == ReplaceAttachmentRegisters(s, tabs) IN
           /\ r \in WsRow /\ SameSession(s, r)
           /\ \A k \in Keys : r.store[k] = IF k \in Tabs THEN tabs[k] ELSE s.store[k]
           /\ r.clock = s.clock /\ r.queue = s.queue /\ r.remote = s.remote /\ r.dirty = s.dirty
           /\ r.snapDirty = s.snapDirty
  BY DEF ReplaceAttachmentRegisters, WsRow, SameSession, TabRegs

LEMMA PublishedRow ==
  ASSUME NEW s \in WsRow, NEW d \in Devices, NEW keys \in SUBSET Tabs
  PROVE  LET r == PublishAttachmentRegisters(s, d, keys) IN
           /\ r \in WsRow /\ SameSession(s, r)
           /\ \A k \in Globals : r.store[k] = s.store[k]
           /\ \A t \in Tabs : r.store[t].doc = s.store[t].doc
           /\ r.clock = s.clock + 1 /\ r.queue = s.queue /\ r.remote = s.remote /\ r.dirty = s.dirty
           /\ r.snapDirty = (s.snapDirty \/ \E t \in keys : s.store[t] # NoReg)
<1>1. PICK changed : changed = {k \in keys : s.store[k] # NoReg}
  OBVIOUS
<1>2. /\ changed \in SUBSET Keys /\ changed \cap Globals = {}
      /\ changed \cap Tabs # {} <=> \E t \in keys : s.store[t] # NoReg
  BY <1>1, WsAssumption DEF Keys
<1>3. s.store \in [Keys -> Reg] /\ s.clock + 1 \in Nat
  BY DEF WsRow
<1>4. PICK store : store = [k \in Keys |-> IF k \in changed THEN [s.store[k] EXCEPT !.hlc = <<s.clock + 1, d>>]
                                           ELSE s.store[k]]
  OBVIOUS
<1>5. ASSUME NEW k \in Keys PROVE store[k] \in Reg /\ store[k].doc = s.store[k].doc
  BY <1>3, <1>4 DEF Reg
<1>6. store \in [Keys -> Reg]
  BY <1>4, <1>5
<1>7. \A k \in Globals : store[k] = s.store[k]
  BY <1>2, <1>4 DEF Keys
<1>8. PICK p : p = [s EXCEPT !.store = store, !.clock = s.clock + 1]
  OBVIOUS
<1>9. /\ p \in WsRow /\ SameSession(s, p) /\ p.store = store
      /\ p.clock = s.clock + 1 /\ p.queue = s.queue /\ p.remote = s.remote /\ p.dirty = s.dirty
      /\ p.snapDirty = s.snapDirty
  BY <1>3, <1>6, <1>8 DEF WsRow, SameSession
<1>10. PublishAttachmentRegisters(s, d, keys) = Notified(p, changed)
  <2>1. p = [s EXCEPT !.clock = @ + 1,
                      !.store = [k \in Keys |-> IF k \in changed THEN [@[k] EXCEPT !.hlc = Stamp(s, d)] ELSE @[k]]]
    BY <1>4, <1>8 DEF Stamp, WsRow
  <2> QED BY <1>1, <2>1 DEF PublishAttachmentRegisters
<1>11. PICK r : r = Notified(p, changed)
  OBVIOUS
<1>12. /\ r \in WsRow /\ SameSession(p, r)
       /\ r.store = p.store /\ r.clock = p.clock /\ r.queue = p.queue /\ r.remote = p.remote
       /\ r.dirty = p.dirty \union (changed \cap Globals)
       /\ r.snapDirty = (p.snapDirty \/ changed \cap Tabs # {})
  BY <1>2, <1>9, <1>11, NotifiedRow
<1>13. SameSession(s, r)
  BY <1>9, <1>12 DEF SameSession
<1>14. \A t \in Tabs : t \in Keys
  BY DEF Keys
<1>15. /\ r \in WsRow /\ SameSession(s, r)
       /\ \A k \in Globals : r.store[k] = s.store[k]
       /\ \A t \in Tabs : r.store[t].doc = s.store[t].doc
       /\ r.clock = s.clock + 1 /\ r.queue = s.queue /\ r.remote = s.remote /\ r.dirty = s.dirty
       /\ r.snapDirty = (s.snapDirty \/ \E t \in keys : s.store[t] # NoReg)
  BY <1>2, <1>5, <1>7, <1>9, <1>12, <1>13, <1>14
<1> QED BY <1>10, <1>11, <1>15

LEMMA FlushedRow ==
  ASSUME NEW s \in WsRow
  PROVE  LET r == Flushed(s) IN
           /\ r \in WsRow /\ SameSession(s, r)
           /\ r.store = s.store /\ r.queue = s.queue /\ r.remote = s.remote /\ r.dirty = {}
           /\ r.clock = (IF TakesSnap(s) THEN s.clock + 1 ELSE s.clock)
           /\ r.snapDirty = (s.snapDirty /\ ~TakesSnap(s))
<1>1. TakesSnap(s) \in BOOLEAN
  BY DEF TakesSnap, WsRow
<1>2. s.snapDirty \in BOOLEAN /\ s.clock \in Nat /\ s.clock + 1 \in Nat
  BY DEF WsRow
<1>3. PICK dirty : dirty = (s.snapDirty /\ ~TakesSnap(s))
  OBVIOUS
<1>4. PICK clock : clock = IF TakesSnap(s) THEN s.clock + 1 ELSE s.clock
  OBVIOUS
<1>5. dirty \in BOOLEAN /\ clock \in Nat
  BY <1>1, <1>2, <1>3, <1>4
<1>6. PICK r : r = [s EXCEPT !.dirty = {}, !.snapDirty = dirty, !.clock = clock]
  OBVIOUS
<1>7. Flushed(s) = r
  BY <1>3, <1>4, <1>6 DEF Flushed, WsRow
<1>8. /\ r \in WsRow /\ SameSession(s, r)
      /\ r.store = s.store /\ r.queue = s.queue /\ r.remote = s.remote /\ r.dirty = {}
      /\ r.clock = clock /\ r.snapDirty = dirty
  BY <1>5, <1>6 DEF WsRow, SameSession
<1> QED BY <1>3, <1>4, <1>7, <1>8

LEMMA FlushedBundleType ==
  ASSUME NEW s \in WsRow, NEW d \in Devices
  PROVE  LET b == FlushedBundle(s, d) IN
           /\ b \in Bundle
           /\ \A k \in Keys : b.regs[k] = IF k \in s.dirty THEN s.store[k] ELSE NoReg
           /\ \A e \in Devices \ {d} : b.snaps[e] = NoSnap
           /\ TakesSnap(s) => /\ b.snaps[d].regs = AttachmentRegisters(s.store)
                              /\ b.snaps[d].hlc = <<s.clock + 1, d>>
           /\ ~TakesSnap(s) => b.snaps[d] = NoSnap
<1>1. PICK regs : regs = [k \in Keys |-> IF k \in s.dirty THEN s.store[k] ELSE NoReg]
  OBVIOUS
<1>2. regs \in [Keys -> Reg]
  BY <1>1, NoRegType DEF WsRow
<1>3. PICK point : point = [regs |-> AttachmentRegisters(s.store), hlc |-> <<s.clock + 1, d>>]
  OBVIOUS
<1>4. AttachmentRegisters(s.store) \in TabRegs
  BY DEF AttachmentRegisters, WsRow, TabRegs, Keys
<1>5. s.clock + 1 \in Nat
  BY DEF WsRow
<1>6. point \in Snap
  BY <1>3, <1>4, <1>5 DEF Snap, TabRegs
<1>7. PICK x : x = IF TakesSnap(s) THEN point ELSE NoSnap
  OBVIOUS
<1>8. x \in Snap
  BY <1>6, <1>7, NoRegType
<1>9. PICK snaps : snaps = [NoSnaps EXCEPT ![d] = x]
  OBVIOUS
<1>10. snaps \in [Devices -> Snap] /\ snaps[d] = x /\ \A e \in Devices \ {d} : snaps[e] = NoSnap
  BY <1>8, <1>9, NoRegType DEF NoSnaps
<1>11. FlushedBundle(s, d) = [regs |-> regs, snaps |-> snaps]
  BY <1>1, <1>3, <1>7, <1>9 DEF FlushedBundle, Stamp
<1>12. PICK b : b = [regs |-> regs, snaps |-> snaps]
  OBVIOUS
<1>13. b \in Bundle /\ b.regs = regs /\ b.snaps = snaps
  BY <1>2, <1>10, <1>12 DEF Bundle
<1>14. /\ \A k \in Keys : b.regs[k] = IF k \in s.dirty THEN s.store[k] ELSE NoReg
       /\ \A e \in Devices \ {d} : b.snaps[e] = NoSnap
       /\ TakesSnap(s) => /\ b.snaps[d].regs = AttachmentRegisters(s.store)
                          /\ b.snaps[d].hlc = <<s.clock + 1, d>>
       /\ ~TakesSnap(s) => b.snaps[d] = NoSnap
  BY <1>1, <1>3, <1>7, <1>10, <1>13
<1> QED BY <1>11, <1>12, <1>13, <1>14

LEMMA MergedType ==
  ASSUME NEW K, NEW a \in [K -> Reg], NEW b \in [K -> Reg]
  PROVE  /\ Merged(a, b) \in [K -> Reg]
         /\ \A k \in K : Merged(a, b)[k] = IF Wins(b[k], a[k]) THEN b[k] ELSE a[k]
  BY DEF Merged

LEMMA NewerSnapsType ==
  ASSUME NEW a \in [Devices -> Snap], NEW b \in [Devices -> Snap]
  PROVE  /\ NewerSnaps(a, b) \in [Devices -> Snap]
         /\ \A d \in Devices : NewerSnaps(a, b)[d] = IF Later(b[d].hlc, a[d].hlc) THEN b[d] ELSE a[d]
  BY DEF NewerSnaps

LEMMA HandledRow ==
  ASSUME NEW s \in WsRow, NEW d \in Devices, NEW docs \in Bundle
  PROVE  LET r == HandleRemoteDocs(s, d, docs) IN
           /\ r \in WsRow /\ r.queue = s.queue /\ r.dirty = s.dirty /\ r.snapDirty = s.snapDirty
           /\ r.ready = s.ready /\ r.inherit = s.inherit /\ r.initialized = s.initialized
           /\ r.clock >= s.clock
           /\ \A k \in Keys : r.clock >= docs.regs[k].hlc[1]
           /\ \A e \in Devices : r.clock >= docs.snaps[e].hlc[1]
           /\ \A t \in Tabs : r.store[t] = s.store[t]
           /\ \A k \in Globals : r.store[k] = IF docs.regs[k].hlc[2] # d /\ Wins(docs.regs[k], s.store[k])
                                             THEN docs.regs[k] ELSE s.store[k]
           /\ \A e \in Devices : r.snaps[e] = IF Later(docs.snaps[e].hlc, s.snaps[e].hlc)
                                              THEN docs.snaps[e] ELSE s.snaps[e]
<1>1. /\ docs.regs \in [Keys -> Reg] /\ docs.snaps \in [Devices -> Snap]
      /\ s.store \in [Keys -> Reg] /\ s.snaps \in [Devices -> Snap] /\ s.clock \in Nat
      /\ s.remote \in TabRegs /\ s.seen \in BOOLEAN
  BY DEF Bundle, WsRow
<1>2. PICK foreign : foreign = [k \in Keys |-> IF k \in Globals /\ docs.regs[k].hlc[2] # d
                                               THEN docs.regs[k] ELSE NoReg]
  OBVIOUS
<1>3. foreign \in [Keys -> Reg]
  BY <1>1, <1>2, NoRegType
<1>4. PICK store : store = Merged(s.store, foreign)
  OBVIOUS
<1>5. store \in [Keys -> Reg] /\ \A k \in Keys : store[k] = IF Wins(foreign[k], s.store[k]) THEN foreign[k] ELSE s.store[k]
  BY <1>1, <1>3, <1>4, MergedType
<1>6. \A r : ~Wins(NoReg, r)
  BY DEF Wins
<1>7. /\ \A t \in Tabs : store[t] = s.store[t]
      /\ \A k \in Globals : store[k] = IF docs.regs[k].hlc[2] # d /\ Wins(docs.regs[k], s.store[k])
                                       THEN docs.regs[k] ELSE s.store[k]
  BY <1>2, <1>5, <1>6, WsAssumption DEF Keys
<1>8. PICK clock : clock = Max({s.clock} \union Numbers(docs))
  OBVIOUS
<1>9. /\ clock \in Nat /\ clock >= s.clock
      /\ \A k \in Keys : clock >= docs.regs[k].hlc[1]
      /\ \A e \in Devices : clock >= docs.snaps[e].hlc[1]
  BY <1>1, <1>8, ClockPasses
<1>10. PICK snaps : snaps = NewerSnaps(s.snaps, docs.snaps)
  OBVIOUS
<1>11. /\ snaps \in [Devices -> Snap]
       /\ \A e \in Devices : snaps[e] = IF Later(docs.snaps[e].hlc, s.snaps[e].hlc) THEN docs.snaps[e] ELSE s.snaps[e]
  BY <1>1, <1>10, NewerSnapsType
<1>12. PICK remote : remote = Merged(s.remote, AttachmentRegisters(docs.regs))
  OBVIOUS
<1>13. remote \in TabRegs
  <2>1. AttachmentRegisters(docs.regs) \in [Tabs -> Reg]
    BY <1>1 DEF AttachmentRegisters, Keys
  <2> QED BY <1>1, <1>12, <2>1, MergedType DEF TabRegs
<1>14. PICK seen : seen = (s.seen \/ \E t \in Tabs : docs.regs[t] # NoReg)
  OBVIOUS
<1>15. seen \in BOOLEAN
  BY <1>14
<1>16. PICK r : r = [s EXCEPT !.clock = clock, !.seen = seen, !.remote = remote, !.snaps = snaps, !.store = store]
  OBVIOUS
<1>17. HandleRemoteDocs(s, d, docs) = r
  <2>1. r = [s EXCEPT !.clock = Max({@} \union Numbers(docs)),
                !.seen = @ \/ \E t \in Tabs : docs.regs[t] # NoReg,
                !.remote = Merged(@, AttachmentRegisters(docs.regs)),
                !.snaps = NewerSnaps(@, docs.snaps),
                !.store = Merged(@, foreign)]
    BY <1>4, <1>8, <1>10, <1>12, <1>14, <1>16 DEF WsRow
  <2> QED BY <1>2, <2>1 DEF HandleRemoteDocs
<1>18. /\ r \in WsRow /\ r.queue = s.queue /\ r.dirty = s.dirty /\ r.snapDirty = s.snapDirty
       /\ r.ready = s.ready /\ r.inherit = s.inherit /\ r.initialized = s.initialized
       /\ r.clock = clock /\ r.store = store /\ r.snaps = snaps
  BY <1>5, <1>9, <1>11, <1>13, <1>15, <1>16 DEF WsRow
<1> QED BY <1>7, <1>9, <1>11, <1>17, <1>18

(* Everything but the queue and the timer.                                 *)
SameButQueue(s, r) ==
  /\ SameSession(s, r) /\ r.store = s.store /\ r.clock = s.clock /\ r.remote = s.remote
  /\ r.dirty = s.dirty /\ r.snapDirty = s.snapDirty

LEMMA DoneRow ==
  ASSUME NEW s \in WsRow, s.queue # <<>>
  PROVE  LET r == Done(s) IN r \in WsRow /\ SameButQueue(s, r) /\ r.queue = Tail(s.queue)
<1>1. Tail(s.queue) \in Seq(Task)
  BY DEF WsRow
<1>2. PICK q : q = Tail(s.queue)
  OBVIOUS
<1>3. PICK r : r = [s EXCEPT !.queue = q]
  OBVIOUS
<1>4. Done(s) = r
  BY <1>2, <1>3 DEF Done, WsRow
<1>5. r \in WsRow /\ r.queue = q
  BY <1>1, <1>2, <1>3 DEF WsRow
<1>6. SameButQueue(s, r)
  BY <1>3 DEF WsRow, SameButQueue, SameSession
<1> QED BY <1>2, <1>4, <1>5, <1>6

LEMMA HeadBecomesRow ==
  ASSUME NEW s \in WsRow, s.queue # <<>>, NEW task \in Task
  PROVE  LET r == HeadBecomes(s, task) IN
           r \in WsRow /\ SameButQueue(s, r) /\ r.queue = <<task>> \o Tail(s.queue)
<1>1. Tail(s.queue) \in Seq(Task) /\ <<task>> \in Seq(Task)
  BY DEF WsRow
<1>2. PICK q : q = <<task>> \o Tail(s.queue)
  OBVIOUS
<1>3. q \in Seq(Task)
  BY <1>1, <1>2
<1>4. PICK r : r = [s EXCEPT !.queue = q]
  OBVIOUS
<1>5. HeadBecomes(s, task) = r
  BY <1>2, <1>4 DEF HeadBecomes, WsRow
<1>6. r \in WsRow /\ r.queue = q
  BY <1>3, <1>4 DEF WsRow
<1>7. SameButQueue(s, r)
  BY <1>4 DEF WsRow, SameButQueue, SameSession
<1> QED BY <1>2, <1>5, <1>6, <1>7

LEMMA HydratedRow ==
  ASSUME NEW s \in WsRow, s.queue # <<>>
  PROVE  LET r == Hydrated(s) IN
           /\ r \in WsRow /\ r.queue = Tail(s.queue) /\ r.store = s.store /\ r.clock = s.clock
           /\ r.snaps = s.snaps /\ ~r.inherit /\ r.snapDirty
           /\ \A k \in Globals : s.store[k] # NoReg => k \in r.dirty
<1>1. PICK dirty : dirty = s.dirty \union {k \in Globals : s.store[k] # NoReg}
  OBVIOUS
<1>2. dirty \in SUBSET Keys
  BY <1>1 DEF WsRow, Keys
<1>3. PICK p : p = [s EXCEPT !.inherit = FALSE, !.initialized = TRUE, !.snapDirty = TRUE, !.timer = TRUE,
                             !.dirty = dirty]
  OBVIOUS
<1>4. /\ p \in WsRow /\ p.queue = s.queue /\ p.store = s.store /\ p.clock = s.clock
      /\ p.snaps = s.snaps /\ ~p.inherit /\ p.snapDirty /\ p.dirty = dirty
  BY <1>2, <1>3 DEF WsRow
<1>5. Hydrated(s) = Done(p)
  BY <1>1, <1>3 DEF Hydrated, WsRow
<1>6. PICK r : r = Done(p)
  OBVIOUS
<1>7. r \in WsRow /\ SameButQueue(p, r) /\ r.queue = Tail(p.queue)
  BY <1>4, <1>6, DoneRow
<1> QED BY <1>1, <1>4, <1>5, <1>6, <1>7 DEF SameButQueue, SameSession

LEMMA FinishedRow ==
  ASSUME NEW s \in WsRow, s.queue # <<>>
  PROVE  LET r == Finished(s) IN
           /\ r \in WsRow /\ SameSession(s, r) /\ r.queue = Tail(s.queue) /\ r.store = s.store
           /\ r.clock = s.clock /\ r.dirty = s.dirty /\ r.snapDirty
<1>1. PICK p : p = [s EXCEPT !.snapDirty = TRUE, !.timer = TRUE]
  OBVIOUS
<1>2. /\ p \in WsRow /\ SameSession(s, p) /\ p.queue = s.queue /\ p.store = s.store /\ p.clock = s.clock
      /\ p.dirty = s.dirty /\ p.snapDirty
  BY <1>1 DEF WsRow, SameSession
<1>3. Finished(s) = Done(p)
  BY <1>1 DEF Finished
<1>4. PICK r : r = Done(p)
  OBVIOUS
<1>5. r \in WsRow /\ SameButQueue(p, r) /\ r.queue = Tail(p.queue)
  BY <1>2, <1>4, DoneRow
<1> QED BY <1>2, <1>3, <1>4, <1>5 DEF SameButQueue, SameSession

LEMMA InheritedRow ==
  ASSUME NEW s \in WsRow, NEW d \in Devices
  PROVE  LET r == Inherited(s, d) IN
           /\ r \in WsRow /\ SameSession(s, r)
           /\ \A k \in Globals : r.store[k] = s.store[k]
           /\ r.clock = s.clock /\ r.queue = s.queue /\ r.dirty = s.dirty /\ r.snapDirty = s.snapDirty
           /\ ~s.inherit => r = s
<1>1. CASE s.inherit /\ Source(s, d) # {}
  <2>1. PICK tabs : tabs = CHOOSE r \in Source(s, d) : TRUE
    OBVIOUS
  <2>2. tabs \in Source(s, d)
    BY <1>1, <2>1
  <2>3. s.remote \in TabRegs /\ \A e \in Devices : s.snaps[e].regs \in TabRegs
    BY DEF WsRow, Snap, TabRegs
  <2>4. tabs \in TabRegs
    BY <2>2, <2>3 DEF Source, Others
  <2>5. Inherited(s, d) = ReplaceAttachmentRegisters(s, tabs)
    BY <1>1, <2>1 DEF Inherited
  <2>6. PICK r : r = ReplaceAttachmentRegisters(s, tabs)
    OBVIOUS
  <2>7. /\ r \in WsRow /\ SameSession(s, r)
        /\ \A k \in Keys : r.store[k] = IF k \in Tabs THEN tabs[k] ELSE s.store[k]
        /\ r.clock = s.clock /\ r.queue = s.queue /\ r.dirty = s.dirty
        /\ r.snapDirty = s.snapDirty
    BY <2>4, <2>6, ReplacedRow
  <2>8. \A k \in Globals : r.store[k] = s.store[k]
    BY <2>7, WsAssumption DEF Keys
  <2> QED BY <1>1, <2>5, <2>6, <2>7, <2>8
<1>2. CASE ~(s.inherit /\ Source(s, d) # {})
  BY <1>2 DEF Inherited, SameSession
<1> QED BY <1>1, <1>2

LEMMA TargetType ==
  ASSUME NEW mode \in {"pull", "push", "merge"}, NEW local \in TabRegs, NEW remote \in TabRegs
  PROVE  /\ Target(mode, local, remote) \in TabRegs
         /\ PublishKeys(mode, local, remote) \in SUBSET Tabs
         /\ mode = "pull" => PublishKeys(mode, local, remote) = {}
         /\ \A t \in PublishKeys(mode, local, remote) : Target(mode, local, remote)[t] # NoReg
<1>1. \A t \in Tabs : local[t] \in Reg /\ remote[t] \in Reg
  BY DEF TabRegs
<1>2. CASE mode = "pull"
  BY <1>2 DEF Target, PublishKeys
<1>3. CASE mode = "push"
  <2>1. \A t \in Tabs : /\ [remote[t] EXCEPT !.doc = "gone"] \in Reg
                        /\ [remote[t] EXCEPT !.doc = "gone"] # NoReg
    BY <1>1 DEF Reg, NoReg
  <2>2. PICK target : target = [t \in Tabs |-> IF local[t] = NoReg /\ remote[t] # NoReg
                                              THEN [remote[t] EXCEPT !.doc = "gone"] ELSE local[t]]
    OBVIOUS
  <2>3. Target(mode, local, remote) = target
    BY <1>3, <2>2 DEF Target
  <2>4. PublishKeys(mode, local, remote) = {t \in Tabs : local[t] # NoReg \/ remote[t] # NoReg}
    BY <1>3 DEF PublishKeys
  <2>5. target \in TabRegs /\ \A t \in Tabs : local[t] # NoReg \/ remote[t] # NoReg => target[t] # NoReg
    BY <1>1, <2>1, <2>2 DEF TabRegs
  <2> QED BY <1>3, <2>3, <2>4, <2>5
<1>4. CASE mode = "merge"
  <2>1. Target(mode, local, remote) = [t \in Tabs |-> IF t \in LocalOnly(local, remote) THEN local[t] ELSE remote[t]]
    BY <1>4 DEF Target
  <2>2. PublishKeys(mode, local, remote) = LocalOnly(local, remote)
    BY <1>4 DEF PublishKeys
  <2>3. \A t \in LocalOnly(local, remote) : t \in Tabs /\ local[t] # NoReg
    BY DEF LocalOnly, Live, NoReg
  <2> QED BY <1>1, <1>4, <2>1, <2>2, <2>3 DEF TabRegs
<1> QED BY <1>2, <1>3, <1>4

LEMMA InstalledRow ==
  ASSUME NEW s \in WsRow, NEW mode, NEW target \in TabRegs
  PROVE  LET r == Installed(s, mode, target) IN
           /\ r \in WsRow /\ SameSession(s, r)
           /\ \A k \in Globals : r.store[k] = s.store[k]
           /\ \A t \in Tabs : r.store[t] = target[t]
           /\ r.clock = s.clock /\ r.queue = s.queue /\ r.dirty = s.dirty /\ r.snapDirty = s.snapDirty
<1>1. PICK p : p = ReplaceAttachmentRegisters(s, target)
  OBVIOUS
<1>2. /\ p \in WsRow /\ SameSession(s, p)
      /\ \A k \in Keys : p.store[k] = IF k \in Tabs THEN target[k] ELSE s.store[k]
      /\ p.clock = s.clock /\ p.queue = s.queue /\ p.dirty = s.dirty /\ p.snapDirty = s.snapDirty
  BY <1>1, ReplacedRow
<1>3. PICK remote : remote = IF mode = "pull" THEN p.remote ELSE target
  OBVIOUS
<1>4. remote \in TabRegs
  BY <1>2, <1>3 DEF WsRow
<1>5. PICK r : r = [p EXCEPT !.remote = remote]
  OBVIOUS
<1>6. Installed(s, mode, target) = r
  BY <1>1, <1>2, <1>3, <1>5 DEF Installed, WsRow
<1>7. /\ r \in WsRow /\ SameSession(p, r) /\ r.store = p.store /\ r.clock = p.clock /\ r.queue = p.queue
      /\ r.dirty = p.dirty /\ r.snapDirty = p.snapDirty
  BY <1>2, <1>4, <1>5 DEF WsRow, SameSession
<1>8. SameSession(s, r)
  BY <1>2, <1>7 DEF SameSession
<1>9. /\ \A k \in Globals : r.store[k] = s.store[k]
      /\ \A t \in Tabs : r.store[t] = target[t]
  BY <1>2, <1>7, WsAssumption DEF Keys
<1> QED BY <1>2, <1>6, <1>7, <1>8, <1>9

LEMMA RebornRow ==
  ASSUME NEW s \in WsRow
  PROVE  LET r == Reborn(s) IN
           /\ r \in WsRow /\ r.store = s.store /\ r.clock = s.clock /\ r.queue = <<>>
           /\ r.snaps = NoSnaps /\ r.dirty = {} /\ ~r.snapDirty
           /\ r.initialized = s.initialized /\ r.inherit = ~s.initialized
<1>1. PICK inherit : inherit = ~s.initialized
  OBVIOUS
<1>2. inherit \in BOOLEAN /\ <<>> \in Seq(Task)
  BY <1>1
<1>3. PICK r : r = [s EXCEPT !.dirty = {}, !.snapDirty = FALSE, !.timer = FALSE, !.ready = FALSE, !.seen = FALSE,
                             !.remote = NoTabs, !.snaps = NoSnaps, !.inherit = inherit, !.queue = <<>>]
  OBVIOUS
<1>4. Reborn(s) = r
  BY <1>1, <1>3 DEF Reborn
<1>5. /\ r \in WsRow /\ r.store = s.store /\ r.clock = s.clock /\ r.queue = <<>>
      /\ r.snaps = NoSnaps /\ r.dirty = {} /\ ~r.snapDirty
      /\ r.initialized = s.initialized /\ r.inherit = inherit
  BY <1>2, <1>3, NoRegType DEF WsRow
<1> QED BY <1>1, <1>4, <1>5

----------------------------------------------------------------------------
(* The invariant.                                                          *)

Upto(x, y) == x = y \/ Later(y.hlc, x.hlc)

(* The bundles and the fences of a queue, and the bundles of a socket.     *)
DocsIn(q) == {q[i].docs : i \in {j \in DOMAIN q : q[j].t = "docs"}}
Fences(q) == {q[i] : i \in {j \in DOMAIN q : q[j].t = "syncFence"}}
Hydrating(q) == \E i \in DOMAIN q : q[i].t \in {"hydrated", "bootFence"}
Sent(o) == {o[i] : i \in DOMAIN o}

(* A setting on a device: nothing it has published is newer than what it    *)
(* holds, nothing under way to it is newer than the hub's; while connected  *)
(* it holds the hub's or is about to get it, and once hydrated its own has  *)
(* reached the hub, is on the way there or is to be published.             *)
MetaAt(k, s, w, h) ==
  /\ s.store[k].hlc[1] <= s.clock
  /\ s.store[k] = NoReg \/ s.store[k].hlc[2] # 0
  /\ \A b \in Sent(w.out) : Upto(b.regs[k], s.store[k])
  /\ \A b \in DocsIn(s.queue) : Upto(b.regs[k], h.regs[k])
  /\ w.up => Upto(h.regs[k], s.store[k]) \/ \E b \in DocsIn(s.queue) : b.regs[k] = h.regs[k]
  /\ w.up /\ ~Hydrating(s.queue) =>
       \/ s.store[k] = NoReg \/ k \in s.dirty \/ Upto(s.store[k], h.regs[k])
       \/ \E b \in Sent(w.out) : Upto(s.store[k], b.regs[k])

(* A device publishes its own restore point only, each one later than the   *)
(* one before.                                                             *)
PointsSent(d, s, w, h) ==
  /\ h.snaps[d].hlc[1] <= s.clock
  /\ \A b \in Sent(w.out) : \A e \in Devices \ {d} : b.snaps[e] = NoSnap
  /\ \A b \in Sent(w.out) : b.snaps[d] # NoSnap =>
       /\ Later(b.snaps[d].hlc, h.snaps[d].hlc)
       /\ b.snaps[d].hlc[1] <= s.clock /\ b.snaps[d].hlc[2] = d
  /\ \A i, j \in DOMAIN w.out : i < j /\ w.out[i].snaps[d] # NoSnap /\ w.out[j].snaps[d] # NoSnap
       => Later(w.out[j].snaps[d].hlc, w.out[i].snaps[d].hlc)

(* While connected it has the restore points of its peers, or gets them.   *)
PointsSeen(d, s, w, h) ==
  /\ \A e \in Devices : Upto(s.snaps[e], h.snaps[e])
  /\ \A e \in Devices : \A b \in DocsIn(s.queue) : Upto(b.snaps[e], h.snaps[e])
  /\ w.up => \A e \in Devices \ {d} :
       s.snaps[e] = h.snaps[e] \/ \E b \in DocsIn(s.queue) : b.snaps[e] = h.snaps[e]

(* Once hydrated, the last restore point on its way to the hub, or else the *)
(* hub's, shows the open tabs, unless it is to be published again.         *)
Shown(d, s, w, h) ==
  \/ \E i \in DOMAIN w.out : /\ w.out[i].snaps[d] # NoSnap /\ Content(w.out[i].snaps[d].regs) = Content(s.store)
                             /\ \A j \in DOMAIN w.out : j > i => w.out[j].snaps[d] = NoSnap
  \/ (\A i \in DOMAIN w.out : w.out[i].snaps[d] = NoSnap) /\ Content(h.snaps[d].regs) = Content(s.store)
PointShown(d, s, w, h) == w.up /\ ~Hydrating(s.queue) /\ ~s.snapDirty => Shown(d, s, w, h)

(* A sync that waits for its fence has something to publish.               *)
FencesReady(q) == \A f \in Fences(q) : f.keys # {} /\ \A t \in f.keys : f.target[t] # NoReg

DeviceInv(d, s, w, h) ==
  /\ s \in WsRow /\ w \in WireRow
  /\ s.initialized => ~s.inherit
  /\ \A k \in Globals : MetaAt(k, s, w, h)
  /\ PointsSent(d, s, w, h)
  /\ PointsSeen(d, s, w, h)
  /\ PointShown(d, s, w, h)
  /\ FencesReady(s.queue)

(* A register that is somewhere: in a store, on a socket or at the hub.    *)
Has(s, w, k, x) == x = s.store[k] \/ \E b \in Sent(w.out) \union DocsIn(s.queue) : x = b.regs[k]
Known(k, x) == x = hubws.regs[k] \/ \E d \in Devices : Has(ws[d], wire[d], k, x)

(* A stamp is given to one setting once, and a device's own are older than  *)
(* what it holds.                                                          *)
StampsUnique == \A k \in Globals : \A x, y \in Reg : Known(k, x) /\ Known(k, y) /\ x.hlc = y.hlc => x = y
OwnIsOlder == \A k \in Globals : \A x \in Reg : Known(k, x) =>
  /\ x = NoReg \/ x.hlc[2] # 0
  /\ \A d \in Devices : x.hlc[2] = d => Upto(x, ws[d].store[k])
PointsStamped == \A e \in Devices : hubws.snaps[e] = NoSnap \/ hubws.snaps[e].hlc[2] # 0

WsInv ==
  /\ WsTypeOK /\ StampsUnique /\ OwnIsOlder /\ PointsStamped
  /\ \A d \in Devices : DeviceInv(d, ws[d], wire[d], hubws)

----------------------------------------------------------------------------
(* Upto is an order, and goes with the order of stamps.                    *)
LEMMA UptoOrder ==
  ASSUME NEW x, NEW y, NEW z, x.hlc \in Stamps, y.hlc \in Stamps, z.hlc \in Stamps
  PROVE  /\ Upto(x, x)
         /\ Upto(x, y) /\ Upto(y, z) => Upto(x, z)
         /\ Upto(x, y) /\ Upto(y, x) => x = y
         /\ Later(y.hlc, x.hlc) /\ Upto(y, z) => Later(z.hlc, x.hlc)
         /\ Upto(x, y) /\ Later(z.hlc, y.hlc) => Later(z.hlc, x.hlc)
         /\ Upto(x, y) => ~Later(x.hlc, y.hlc)
         /\ ~Later(x.hlc, y.hlc) => Upto(x, y) \/ x.hlc = y.hlc
<1>1. PICK a, b, c : a = x.hlc /\ b = y.hlc /\ c = z.hlc
  OBVIOUS
<1>2. a \in Stamps /\ b \in Stamps /\ c \in Stamps
  BY <1>1
<1>3. /\ ~Later(a, a) /\ ~Later(b, b)
      /\ Later(a, b) => ~Later(b, a)
      /\ Later(a, b) \/ Later(b, a) \/ a = b
      /\ Later(b, a) /\ Later(c, b) => Later(c, a)
  BY <1>2, LaterOrder
<1> QED BY <1>1, <1>3 DEF Upto

(* Every register and restore point carries a stamp.                       *)
LEMMA HlcTypes ==
  /\ \A x \in Reg : x.hlc \in Stamps /\ x.hlc[1] \in Nat /\ x.hlc[2] \in Nat
  /\ \A x \in Snap : x.hlc \in Stamps /\ x.hlc[1] \in Nat /\ x.hlc[2] \in Nat
<1>1. Devices \union {0} \subseteq Nat
  BY WsAssumption
<1>2. \A h \in Stamps : h[1] \in Nat /\ h[2] \in Nat
  BY <1>1 DEF Stamps
<1>3. (\A x \in Reg : x.hlc \in Stamps) /\ (\A x \in Snap : x.hlc \in Stamps)
  BY DEF Reg, Snap, Stamps
<1> QED BY <1>2, <1>3

(* Nothing is older than no register, or no restore point.                 *)
LEMMA NothingIsLeast ==
  /\ \A x \in Reg : x = NoReg \/ x.hlc[2] # 0 => Upto(NoReg, x)
  /\ \A x \in Snap : x = NoSnap \/ x.hlc[2] # 0 => Upto(NoSnap, x)
  /\ \A h \in Stamps : ~Later(NoHlc, h)
<1>1. \A h \in Stamps : h[1] \in Nat /\ h[2] \in Nat
  <2>1. Devices \union {0} \subseteq Nat
    BY WsAssumption
  <2> QED BY <2>1 DEF Stamps
<1>2. \A h \in Stamps : ~Later(NoHlc, h) /\ (h[2] # 0 => Later(h, NoHlc))
  BY <1>1 DEF Later, NoHlc
<1>3. NoReg.hlc = NoHlc /\ NoSnap.hlc = NoHlc
  BY DEF NoReg, NoSnap
<1>4. (\A x \in Reg : x.hlc \in Stamps) /\ (\A x \in Snap : x.hlc \in Stamps)
  BY HlcTypes
<1> QED BY <1>2, <1>3, <1>4 DEF Upto

(* What a queue holds after an append, and after its head is taken.        *)
LEMMA QueueConcat ==
  ASSUME NEW p \in Seq(Task), NEW q \in Seq(Task)
  PROVE  /\ DocsIn(p \o q) = DocsIn(p) \union DocsIn(q)
         /\ Fences(p \o q) = Fences(p) \union Fences(q)
         /\ Hydrating(p \o q) <=> Hydrating(p) \/ Hydrating(q)
<1>1. PICK r : r = p \o q
  OBVIOUS
<1>2. /\ Len(p) \in Nat /\ Len(q) \in Nat /\ DOMAIN p = 1..Len(p) /\ DOMAIN q = 1..Len(q)
      /\ DOMAIN r = 1..(Len(p) + Len(q))
  BY <1>1
<1>3. /\ \A i \in DOMAIN p : i \in DOMAIN r /\ r[i] = p[i]
      /\ \A i \in DOMAIN q : i + Len(p) \in DOMAIN r /\ r[i + Len(p)] = q[i]
  BY <1>1, <1>2
<1>4. \A i \in DOMAIN r : \/ i \in DOMAIN p /\ r[i] = p[i]
                          \/ i - Len(p) \in DOMAIN q /\ r[i] = q[i - Len(p)]
  BY <1>1, <1>2
<1>5. DocsIn(r) = DocsIn(p) \union DocsIn(q)
  <2>1. \A b \in DocsIn(r) : b \in DocsIn(p) \/ b \in DocsIn(q)
    BY <1>4 DEF DocsIn
  <2>2. \A b \in DocsIn(p) : b \in DocsIn(r)
    BY <1>3 DEF DocsIn
  <2>3. \A b \in DocsIn(q) : b \in DocsIn(r)
    BY <1>3 DEF DocsIn
  <2> QED BY <2>1, <2>2, <2>3
<1>6. Fences(r) = Fences(p) \union Fences(q)
  <2>1. \A b \in Fences(r) : b \in Fences(p) \/ b \in Fences(q)
    BY <1>4 DEF Fences
  <2>2. \A b \in Fences(p) : b \in Fences(r)
    BY <1>3 DEF Fences
  <2>3. \A b \in Fences(q) : b \in Fences(r)
    BY <1>3 DEF Fences
  <2> QED BY <2>1, <2>2, <2>3
<1>7. Hydrating(r) <=> Hydrating(p) \/ Hydrating(q)
  <2>1. Hydrating(r) => Hydrating(p) \/ Hydrating(q)
    BY <1>4 DEF Hydrating
  <2>2. Hydrating(p) => Hydrating(r)
    BY <1>3 DEF Hydrating
  <2>3. Hydrating(q) => Hydrating(r)
    BY <1>3 DEF Hydrating
  <2> QED BY <2>1, <2>2, <2>3
<1> QED BY <1>1, <1>5, <1>6, <1>7

LEMMA QueueOfOne ==
  ASSUME NEW task \in Task
  PROVE  /\ <<task>> \in Seq(Task)
         /\ DocsIn(<<task>>) = (IF task.t = "docs" THEN {task.docs} ELSE {})
         /\ Fences(<<task>>) = (IF task.t = "syncFence" THEN {task} ELSE {})
         /\ Hydrating(<<task>>) <=> task.t \in {"hydrated", "bootFence"}
<1>1. DOMAIN <<task>> = {1} /\ <<task>>[1] = task
  OBVIOUS
<1>2. PICK q : q = <<task>>
  OBVIOUS
<1>3. DOMAIN q = {1} /\ q[1] = task
  BY <1>1, <1>2
<1> QED BY <1>2, <1>3 DEF DocsIn, Fences, Hydrating

LEMMA QueueTail ==
  ASSUME NEW q \in Seq(Task), q # <<>>
  PROVE  /\ Head(q) \in Task /\ Tail(q) \in Seq(Task)
         /\ DocsIn(q) = DocsIn(Tail(q)) \union (IF Head(q).t = "docs" THEN {Head(q).docs} ELSE {})
         /\ Fences(q) = Fences(Tail(q)) \union (IF Head(q).t = "syncFence" THEN {Head(q)} ELSE {})
         /\ Hydrating(q) <=> Hydrating(Tail(q)) \/ Head(q).t \in {"hydrated", "bootFence"}
<1>1. Head(q) \in Task /\ Tail(q) \in Seq(Task) /\ q = <<Head(q)>> \o Tail(q)
  OBVIOUS
<1>2. PICK x, r : x = Head(q) /\ r = Tail(q)
  OBVIOUS
<1>3. x \in Task /\ r \in Seq(Task) /\ q = <<x>> \o r /\ <<x>> \in Seq(Task)
  BY <1>1, <1>2
<1>4. /\ DocsIn(<<x>>) = (IF x.t = "docs" THEN {x.docs} ELSE {})
      /\ Fences(<<x>>) = (IF x.t = "syncFence" THEN {x} ELSE {})
      /\ Hydrating(<<x>>) <=> x.t \in {"hydrated", "bootFence"}
  BY <1>3, QueueOfOne
<1>5. /\ DocsIn(q) = DocsIn(<<x>>) \union DocsIn(r)
      /\ Fences(q) = Fences(<<x>>) \union Fences(r)
      /\ Hydrating(q) <=> Hydrating(<<x>>) \/ Hydrating(r)
  BY <1>3, QueueConcat
<1> QED BY <1>2, <1>3, <1>4, <1>5

LEMMA BundleTypes ==
  \A b \in Bundle : (\A k \in Keys : b.regs[k] \in Reg) /\ (\A d \in Devices : b.snaps[d] \in Snap)
  BY DEF Bundle

LEMMA QueueTypes ==
  ASSUME NEW q \in Seq(Task)
  PROVE  /\ \A b \in DocsIn(q) : b \in Bundle
         /\ \A f \in Fences(q) : f.mode \in {"push", "merge"} /\ f.target \in TabRegs /\ f.keys \in SUBSET Tabs
<1>1. \A i \in DOMAIN q : q[i] \in Task
  OBVIOUS
<1>2. \A task \in Task : task.t = "docs" => task.docs \in Bundle
  BY DEF Task
<1>3. \A task \in Task : task.t = "syncFence" =>
        task.mode \in {"push", "merge"} /\ task.target \in TabRegs /\ task.keys \in SUBSET Tabs
  BY DEF Task, TabRegs
<1>4. \A b \in DocsIn(q) : b \in Bundle
  BY <1>1, <1>2 DEF DocsIn
<1>5. \A f \in Fences(q) : f \in Task /\ f.t = "syncFence"
  BY <1>1 DEF Fences
<1>6. \A f \in Fences(q) : f.mode \in {"push", "merge"} /\ f.target \in TabRegs /\ f.keys \in SUBSET Tabs
  BY <1>3, <1>5
<1> QED BY <1>4, <1>6

(* The same for what a socket holds.                                       *)
LEMMA SentAppend ==
  ASSUME NEW o \in Seq(Bundle), NEW b \in Bundle
  PROVE  /\ Append(o, b) \in Seq(Bundle) /\ Sent(Append(o, b)) = Sent(o) \union {b}
         /\ Len(Append(o, b)) = Len(o) + 1 /\ Append(o, b)[Len(o) + 1] = b
         /\ \A i \in DOMAIN o : i \in DOMAIN Append(o, b) /\ Append(o, b)[i] = o[i]
         /\ \A i \in DOMAIN Append(o, b) : i \in DOMAIN o \/ i = Len(o) + 1
<1>1. PICK r : r = Append(o, b)
  OBVIOUS
<1>2. /\ r \in Seq(Bundle) /\ Len(r) = Len(o) + 1 /\ r[Len(o) + 1] = b
      /\ Len(o) \in Nat /\ DOMAIN o = 1..Len(o) /\ DOMAIN r = 1..(Len(o) + 1)
      /\ \A i \in DOMAIN o : r[i] = o[i]
  BY <1>1
<1>3. /\ \A i \in DOMAIN o : i \in DOMAIN r /\ r[i] = o[i]
      /\ \A i \in DOMAIN r : i \in DOMAIN o \/ i = Len(o) + 1
      /\ Len(o) + 1 \in DOMAIN r
  BY <1>2
<1>4. Sent(r) = Sent(o) \union {b}
  BY <1>2, <1>3 DEF Sent
<1> QED BY <1>1, <1>2, <1>3, <1>4

LEMMA SentTail ==
  ASSUME NEW o \in Seq(Bundle), o # <<>>
  PROVE  /\ Head(o) \in Bundle /\ Tail(o) \in Seq(Bundle) /\ Sent(o) = {Head(o)} \union Sent(Tail(o))
         /\ \A i \in DOMAIN Tail(o) : i + 1 \in DOMAIN o /\ Tail(o)[i] = o[i + 1] /\ i \in Nat
         /\ \A i \in DOMAIN o : i \in Nat /\ (i = 1 \/ (i - 1 \in DOMAIN Tail(o) /\ Tail(o)[i - 1] = o[i]))
         /\ 1 \in DOMAIN o /\ o[1] = Head(o)
<1>1. PICK x, r : x = Head(o) /\ r = Tail(o)
  OBVIOUS
<1>2. /\ x \in Bundle /\ r \in Seq(Bundle) /\ o[1] = x
      /\ Len(o) \in Nat /\ Len(o) > 0 /\ DOMAIN o = 1..Len(o) /\ DOMAIN r = 1..(Len(o) - 1)
      /\ \A i \in 1..(Len(o) - 1) : r[i] = o[i + 1]
  BY <1>1
<1>3. /\ \A i \in DOMAIN r : i + 1 \in DOMAIN o /\ r[i] = o[i + 1] /\ i \in Nat
      /\ \A i \in DOMAIN o : i \in Nat /\ (i = 1 \/ (i - 1 \in DOMAIN r /\ r[i - 1] = o[i]))
      /\ 1 \in DOMAIN o
  <2>1. \A i \in 1..(Len(o) - 1) : i + 1 \in 1..Len(o) /\ i \in Nat
    BY <1>2
  <2>2. \A i \in 1..Len(o) : i \in Nat /\ (i = 1 \/ (i - 1 \in 1..(Len(o) - 1) /\ (i - 1) + 1 = i))
    BY <1>2
  <2>3. 1 \in 1..Len(o)
    BY <1>2
  <2>4. ASSUME NEW i \in 1..Len(o), i # 1 PROVE i - 1 \in 1..(Len(o) - 1) /\ r[i - 1] = o[i]
    <3>1. PICK j \in 1..(Len(o) - 1) : j = i - 1 /\ j + 1 = i
      BY <2>2, <2>4
    <3> QED BY <1>2, <3>1
  <2>5. \A i \in 1..(Len(o) - 1) : i + 1 \in 1..Len(o) /\ r[i] = o[i + 1] /\ i \in Nat
    BY <1>2, <2>1, Zenon
  <2>7. \A i \in 1..Len(o) : i \in Nat /\ (i = 1 \/ (i - 1 \in 1..(Len(o) - 1) /\ r[i - 1] = o[i]))
    BY <2>2, <2>4, Zenon
  <2>6. DOMAIN o = 1..Len(o) /\ DOMAIN r = 1..(Len(o) - 1)
    BY <1>2
  <2> QED BY <2>3, <2>5, <2>6, <2>7, Zenon
<1>4. Sent(o) = {x} \union Sent(r)
  <2>1. \A b \in Sent(o) : b = x \/ b \in Sent(r)
    BY <1>2, <1>3 DEF Sent
  <2>2. x \in Sent(o)
    BY <1>2, <1>3 DEF Sent
  <2>3. ASSUME NEW b \in Sent(r) PROVE b \in Sent(o)
    <3>1. PICK i \in DOMAIN r : b = r[i]
      BY <2>3 DEF Sent
    <3>2. i + 1 \in DOMAIN o /\ b = o[i + 1]
      BY <1>3, <3>1
    <3>3. PICK j \in DOMAIN o : b = o[j]
      BY <3>2
    <3> QED BY <3>3 DEF Sent
  <2> QED BY <2>1, <2>2, <2>3
<1> QED BY <1>1, <1>2, <1>3, <1>4

LEMMA SentTypes ==
  ASSUME NEW o \in Seq(Bundle)
  PROVE  \A b \in Sent(o) : b \in Bundle
  BY DEF Sent

(* A row that keeps its metadata and its bundles, and marks its restore     *)
(* point when its tabs change or its hydration ends.                       *)
Moved(s, r) ==
  /\ \A k \in Globals : r.store[k] = s.store[k]
  /\ r.clock >= s.clock /\ r.snaps = s.snaps /\ (r.initialized => ~r.inherit)
  /\ \A k \in Globals : k \in s.dirty => k \in r.dirty
  /\ r.snapDirty \/ Hydrating(r.queue) \/ (~s.snapDirty /\ Content(r.store) = Content(s.store))
  /\ DocsIn(r.queue) = DocsIn(s.queue)
  /\ FencesReady(r.queue)
  /\ Hydrating(s.queue) => \/ Hydrating(r.queue)
                          \/ (r.snapDirty /\ \A k \in Globals : r.store[k] # NoReg => k \in r.dirty)

(* The metadata of a device are as they were, and nothing has been made up. *)
NothingNew(s, w, h, r, v) ==
  \A k \in Globals : /\ r.store[k] = s.store[k]
                     /\ \A x \in Reg : Has(r, v, k, x) => Has(s, w, k, x) \/ x = NoReg \/ x = h.regs[k]

(* Such a step keeps the invariant of its device.                          *)
LEMMA MovedKeeps ==
  ASSUME NEW d \in Devices, NEW s, NEW w, NEW h \in Bundle, DeviceInv(d, s, w, h),
         NEW r \in WsRow, Moved(s, r)
  PROVE  DeviceInv(d, r, w, h) /\ NothingNew(s, w, h, r, w)
<1>1. s \in WsRow /\ w \in WireRow /\ s.clock \in Nat /\ r.clock \in Nat /\ r.clock >= s.clock
  BY DEF DeviceInv, WsRow, Moved
<1>2. ASSUME NEW k \in Globals PROVE MetaAt(k, r, w, h)
  <2>1. MetaAt(k, s, w, h)
    BY DEF DeviceInv
  <2>2. /\ r.store[k] = s.store[k] /\ (k \in s.dirty => k \in r.dirty) /\ DocsIn(r.queue) = DocsIn(s.queue)
        /\ Hydrating(s.queue) => Hydrating(r.queue) \/ r.store[k] = NoReg \/ k \in r.dirty
    BY DEF Moved
  <2>3. s.store[k].hlc[1] \in Nat
    BY <1>1, HlcTypes DEF WsRow, Keys
  <2>4. r.store[k].hlc[1] <= r.clock
    BY <1>1, <2>1, <2>2, <2>3 DEF MetaAt
  <2> QED BY <2>1, <2>2, <2>4 DEF MetaAt
<1>3. PointsSent(d, r, w, h)
  <2>1. PointsSent(d, s, w, h)
    BY DEF DeviceInv
  <2>2. h.snaps[d].hlc[1] \in Nat /\ \A b \in Sent(w.out) : b.snaps[d].hlc[1] \in Nat
    <3>1. \A b \in Sent(w.out) : b \in Bundle
      BY <1>1, SentTypes DEF WireRow
    <3> QED BY <3>1, HlcTypes DEF Bundle
  <2>3. /\ h.snaps[d].hlc[1] <= r.clock
        /\ \A b \in Sent(w.out) : b.snaps[d] # NoSnap => b.snaps[d].hlc[1] <= r.clock
    BY <1>1, <2>1, <2>2 DEF PointsSent
  <2> QED BY <2>1, <2>3 DEF PointsSent
<1>4. PointsSeen(d, r, w, h)
  BY DEF DeviceInv, PointsSeen, Moved
<1>5. PointShown(d, r, w, h)
  BY DEF DeviceInv, PointShown, Shown, Moved
<1>6. FencesReady(r.queue) /\ (r.initialized => ~r.inherit)
  BY DEF Moved
<1>7. DeviceInv(d, r, w, h)
  BY <1>1, <1>2, <1>3, <1>4, <1>5, <1>6 DEF DeviceInv
<1>8. NothingNew(s, w, h, r, w)
  BY DEF Moved, NothingNew, Has
<1> QED BY <1>7, <1>8

(* What a device publishes when it flushes.                                *)
Emitted(s, w, d) ==
  IF w.up /\ FlushedBundle(s, d) # Nothing THEN [w EXCEPT !.out = Append(w.out, FlushedBundle(s, d))] ELSE w

(* flush: what leaves the marks is on the socket, or the socket is down.   *)
LEMMA FlushKeeps ==
  ASSUME NEW d \in Devices, NEW s, NEW w, NEW h \in Bundle, DeviceInv(d, s, w, h)
  PROVE  /\ DeviceInv(d, Flushed(s), Emitted(s, w, d), h)
         /\ NothingNew(s, w, h, Flushed(s), Emitted(s, w, d))
<1>1. /\ s \in WsRow /\ w \in WireRow /\ s.clock \in Nat /\ s.snapDirty \in BOOLEAN /\ w.up \in BOOLEAN
      /\ w.out \in Seq(Bundle)
  BY DEF DeviceInv, WsRow, WireRow
<1>2. PICK r : r = Flushed(s)
  OBVIOUS
<1>3. /\ r \in WsRow /\ SameSession(s, r)
      /\ r.store = s.store /\ r.queue = s.queue /\ r.remote = s.remote /\ r.dirty = {}
      /\ r.clock = (IF TakesSnap(s) THEN s.clock + 1 ELSE s.clock)
      /\ r.snapDirty = (s.snapDirty /\ ~TakesSnap(s))
  BY <1>1, <1>2, FlushedRow
<1>4. PICK b : b = FlushedBundle(s, d)
  OBVIOUS
<1>5. /\ b \in Bundle
      /\ \A k \in Keys : b.regs[k] = IF k \in s.dirty THEN s.store[k] ELSE NoReg
      /\ \A e \in Devices \ {d} : b.snaps[e] = NoSnap
      /\ TakesSnap(s) => b.snaps[d].regs = AttachmentRegisters(s.store) /\ b.snaps[d].hlc = <<s.clock + 1, d>>
      /\ ~TakesSnap(s) => b.snaps[d] = NoSnap
  BY <1>1, <1>4, FlushedBundleType
<1>6. PICK v : v = Emitted(s, w, d)
  OBVIOUS
<1>7. r.clock \in Nat /\ r.clock >= s.clock
  BY <1>1, <1>3
<1>8. d \in Nat /\ d # 0
  BY WsAssumption
<1>9. TakesSnap(s) => b.snaps[d] # NoSnap /\ Content(b.snaps[d].regs) = Content(s.store)
  BY <1>1, <1>5, <1>8 DEF NoSnap, NoHlc, Content, AttachmentRegisters
<1>10. /\ v \in WireRow /\ v.up = w.up
       /\ v.out = w.out \/ v.out = Append(w.out, b)
       /\ v.out # w.out => w.up
       /\ w.up /\ b # Nothing => v.out = Append(w.out, b)
  <2>1. CASE w.up /\ b # Nothing
    <3>1. Append(w.out, b) \in Seq(Bundle)
      BY <1>1, <1>5
    <3>2. v = [w EXCEPT !.out = Append(w.out, b)]
      BY <1>4, <1>6, <2>1 DEF Emitted
    <3> QED BY <1>1, <2>1, <3>1, <3>2 DEF WireRow
  <2>2. CASE ~(w.up /\ b # Nothing)
    BY <1>1, <1>4, <1>6, <2>2 DEF Emitted
  <2> QED BY <2>1, <2>2
<1>11. /\ Append(w.out, b) \in Seq(Bundle) /\ Sent(Append(w.out, b)) = Sent(w.out) \union {b}
       /\ Append(w.out, b)[Len(w.out) + 1] = b /\ Len(Append(w.out, b)) = Len(w.out) + 1
       /\ \A i \in DOMAIN w.out : i \in DOMAIN Append(w.out, b) /\ Append(w.out, b)[i] = w.out[i]
       /\ \A i \in DOMAIN Append(w.out, b) : i \in DOMAIN w.out \/ i = Len(w.out) + 1
  BY <1>1, <1>5, SentAppend
<1>12. /\ \A x \in Sent(w.out) : x \in Sent(v.out)
       /\ \A x \in Sent(v.out) : x \in Sent(w.out) \/ x = b
  BY <1>10, <1>11
<1>13. ASSUME NEW k \in Globals PROVE MetaAt(k, r, v, h)
  <2>1. MetaAt(k, s, w, h) /\ s.store[k] \in Reg /\ s.store[k].hlc[1] \in Nat /\ k \in Keys
    BY <1>1, HlcTypes DEF DeviceInv, WsRow, Keys
  <2>2. r.store[k].hlc[1] <= r.clock
    BY <1>1, <1>3, <1>7, <2>1 DEF MetaAt
  <2>3. Upto(b.regs[k], s.store[k])
    BY <1>5, <2>1, NothingIsLeast DEF MetaAt, Upto
  <2>4. \A x \in Sent(v.out) : Upto(x.regs[k], r.store[k])
    BY <1>3, <1>12, <2>1, <2>3 DEF MetaAt
  <2>5. w.up /\ k \in s.dirty => s.store[k] = NoReg \/ (b \in Sent(v.out) /\ Upto(s.store[k], b.regs[k]))
    <3>1. k \in s.dirty => b.regs[k] = s.store[k]
      BY <1>5, <2>1
    <3>2. b = Nothing => b.regs[k] = NoReg
      BY <2>1 DEF Nothing, NoRegs
    <3>3. w.up /\ b # Nothing => b \in Sent(v.out)
      BY <1>10, <1>11
    <3> QED BY <3>1, <3>2, <3>3 DEF Upto
  <2>6. v.up /\ ~Hydrating(r.queue) =>
          \/ r.store[k] = NoReg \/ k \in r.dirty \/ Upto(r.store[k], h.regs[k])
          \/ \E x \in Sent(v.out) : Upto(r.store[k], x.regs[k])
    BY <1>3, <1>10, <1>12, <2>1, <2>5 DEF MetaAt
  <2> QED BY <1>3, <1>10, <2>1, <2>2, <2>4, <2>6 DEF MetaAt
<1>14. PointsSent(d, r, v, h)
  <2>1. PointsSent(d, s, w, h)
    BY DEF DeviceInv
  <2>2. \A x \in Sent(w.out) : x \in Bundle
    BY <1>1, SentTypes
  <2>3. h.snaps[d].hlc[1] \in Nat /\ \A x \in Sent(w.out) : x.snaps[d].hlc[1] \in Nat
    BY <2>2, HlcTypes DEF Bundle
  <2>4. b.snaps[d] # NoSnap =>
          /\ b.snaps[d].hlc[1] = s.clock + 1 /\ b.snaps[d].hlc[2] = d /\ r.clock = s.clock + 1
          /\ \A hlc : hlc[1] \in Nat /\ hlc[1] <= s.clock => Later(b.snaps[d].hlc, hlc)
    BY <1>1, <1>3, <1>5 DEF Later
  <2>5. b.snaps[d] # NoSnap =>
          /\ Later(b.snaps[d].hlc, h.snaps[d].hlc) /\ b.snaps[d].hlc[1] <= r.clock /\ b.snaps[d].hlc[2] = d
          /\ \A x \in Sent(w.out) : x.snaps[d] # NoSnap => Later(b.snaps[d].hlc, x.snaps[d].hlc)
    BY <1>1, <2>1, <2>3, <2>4 DEF PointsSent
  <2>6. h.snaps[d].hlc[1] <= r.clock /\ \A x \in Sent(w.out) : x.snaps[d] # NoSnap => x.snaps[d].hlc[1] <= r.clock
    BY <1>1, <1>7, <2>1, <2>3 DEF PointsSent
  <2>7. \A x \in Sent(v.out) : \A e \in Devices \ {d} : x.snaps[e] = NoSnap
    BY <1>5, <1>12, <2>1 DEF PointsSent
  <2>8. \A x \in Sent(v.out) : x.snaps[d] # NoSnap =>
          /\ Later(x.snaps[d].hlc, h.snaps[d].hlc)
          /\ x.snaps[d].hlc[1] <= r.clock /\ x.snaps[d].hlc[2] = d
    BY <1>12, <2>1, <2>5, <2>6 DEF PointsSent
  <2>9. ASSUME NEW i \in DOMAIN v.out, NEW j \in DOMAIN v.out, i < j,
               v.out[i].snaps[d] # NoSnap, v.out[j].snaps[d] # NoSnap
        PROVE  Later(v.out[j].snaps[d].hlc, v.out[i].snaps[d].hlc)
    <3>1. CASE v.out = w.out
      BY <2>1, <2>9, <3>1 DEF PointsSent
    <3>2. CASE v.out = Append(w.out, b)
      <4>1. i \in Nat /\ j \in Nat /\ Len(w.out) \in Nat /\ DOMAIN w.out = 1..Len(w.out)
        BY <1>1, <1>11, <3>2
      <4>2. i \in DOMAIN w.out /\ v.out[i] = w.out[i] /\ w.out[i] \in Sent(w.out)
        BY <1>11, <2>9, <3>2, <4>1 DEF Sent
      <4>3. CASE j \in DOMAIN w.out
        BY <1>11, <2>1, <2>9, <3>2, <4>2, <4>3 DEF PointsSent
      <4>4. CASE j = Len(w.out) + 1
        <5>1. v.out[j] = b
          BY <1>11, <3>2, <4>4
        <5> QED BY <2>5, <2>9, <4>2, <5>1
      <4> QED BY <1>11, <3>2, <4>3, <4>4
    <3> QED BY <1>10, <3>1, <3>2
  <2> QED BY <2>6, <2>7, <2>8, <2>9 DEF PointsSent
<1>15. PointsSeen(d, r, v, h)
  BY <1>3, <1>10 DEF DeviceInv, PointsSeen, SameSession
<1>16. PointShown(d, r, v, h)
  <2> SUFFICES ASSUME v.up, ~Hydrating(r.queue), ~r.snapDirty PROVE Shown(d, r, v, h)
    BY DEF PointShown
  <2>1. CASE TakesSnap(s)
    <3>1. b # Nothing /\ w.up
      BY <1>9, <1>10, <2>1 DEF Nothing, NoSnaps
    <3>2. v.out = Append(w.out, b)
      BY <1>10, <3>1
    <3>3. /\ Len(w.out) + 1 \in DOMAIN v.out /\ v.out[Len(w.out) + 1] = b
          /\ \A j \in DOMAIN v.out : ~(j > Len(w.out) + 1)
      BY <1>1, <1>11, <3>2
    <3> QED BY <1>3, <1>9, <2>1, <3>3 DEF Shown
  <2>2. CASE ~TakesSnap(s)
    <3>1. ~s.snapDirty /\ b.snaps[d] = NoSnap
      BY <1>3, <1>5, <2>2
    <3>2. Shown(d, s, w, h)
      BY <1>3, <1>10, <3>1 DEF DeviceInv, PointShown
    <3>3. CASE v.out = w.out
      BY <1>3, <3>2, <3>3 DEF Shown
    <3>4. CASE v.out = Append(w.out, b)
      <4>1. /\ \A i \in DOMAIN w.out : i \in DOMAIN v.out /\ v.out[i] = w.out[i]
            /\ \A i \in DOMAIN v.out : i \in DOMAIN w.out \/ v.out[i] = b
        BY <1>11, <3>4
      <4>2. \A i \in DOMAIN v.out : i \in DOMAIN w.out \/ v.out[i].snaps[d] = NoSnap
        BY <3>1, <4>1
      <4> QED BY <1>3, <3>2, <4>1, <4>2 DEF Shown
    <3> QED BY <1>10, <3>3, <3>4
  <2> QED BY <2>1, <2>2
<1>17. FencesReady(r.queue) /\ (r.initialized => ~r.inherit)
  BY <1>3 DEF DeviceInv, SameSession
<1>18. DeviceInv(d, r, v, h)
  BY <1>3, <1>10, <1>13, <1>14, <1>15, <1>16, <1>17 DEF DeviceInv
<1>19. NothingNew(s, w, h, r, v)
  <2>1. ASSUME NEW k \in Globals, NEW x \in Reg, Has(r, v, k, x) PROVE Has(s, w, k, x) \/ x = NoReg
    <3>1. b.regs[k] = s.store[k] \/ b.regs[k] = NoReg
      BY <1>5 DEF Keys
    <3> QED BY <1>3, <1>12, <2>1, <3>1 DEF Has
  <2> QED BY <1>3, <2>1 DEF NothingNew
<1> QED BY <1>2, <1>6, <1>18, <1>19

(* An edit of a setting: its new register is newer than the old, and dirty. *)
LEMMA EditedSettingKeeps ==
  ASSUME NEW d \in Devices, NEW s, NEW w, NEW h \in Bundle, DeviceInv(d, s, w, h),
         NEW k \in Globals, NEW doc \in Docs \union {"gone"}
  PROVE  LET r == RecordDoc(s, d, k, doc) IN
           /\ DeviceInv(d, r, w, h)
           /\ r.store[k] \in Reg /\ r.store[k].hlc = <<s.clock + 1, d>> /\ Upto(s.store[k], r.store[k])
           /\ \A x \in Reg : Has(r, w, k, x) => Has(s, w, k, x) \/ x = r.store[k]
           /\ \A g \in Globals \ {k} : /\ r.store[g] = s.store[g]
                                       /\ \A x \in Reg : Has(r, w, g, x) => Has(s, w, g, x)
<1>1. s \in WsRow /\ w \in WireRow /\ s.clock \in Nat /\ k \in Keys /\ k \notin Tabs
  BY WsAssumption DEF DeviceInv, WsRow, Keys
<1>2. PICK r : r = RecordDoc(s, d, k, doc)
  OBVIOUS
<1>3. /\ r \in WsRow /\ SameSession(s, r)
      /\ r.store = [s.store EXCEPT ![k] = [doc |-> doc, hlc |-> <<s.clock + 1, d>>]]
      /\ r.clock = s.clock + 1 /\ r.queue = s.queue
      /\ r.dirty = s.dirty \union ({k} \cap Globals)
      /\ r.snapDirty = (s.snapDirty \/ k \in Tabs)
  BY <1>1, <1>2, RecordDocRow
<1>4. s.store \in [Keys -> Reg] /\ r.store \in [Keys -> Reg]
  BY <1>1, <1>3 DEF WsRow
<1>5. /\ r.store[k] = [doc |-> doc, hlc |-> <<s.clock + 1, d>>]
      /\ \A g \in Keys \ {k} : r.store[g] = s.store[g]
  BY <1>1, <1>3, <1>4
<1>6. /\ r.store[k] \in Reg /\ r.store[k].hlc = <<s.clock + 1, d>> /\ s.store[k] \in Reg
      /\ r.store[k].hlc[1] = s.clock + 1 /\ r.store[k].hlc[2] = d /\ d # 0 /\ s.store[k].hlc[1] \in Nat
  BY <1>1, <1>4, <1>5, HlcTypes, WsAssumption
<1>7. Upto(s.store[k], r.store[k])
  <2>1. s.store[k].hlc[1] <= s.clock
    BY DEF DeviceInv, MetaAt
  <2> QED BY <1>1, <1>6, <2>1 DEF Upto, Later
<1>8. ASSUME NEW g \in Globals PROVE MetaAt(g, r, w, h)
  <2>1. MetaAt(g, s, w, h) /\ g \in Keys /\ s.store[g] \in Reg /\ s.store[g].hlc[1] \in Nat
    BY <1>4, HlcTypes DEF DeviceInv, Keys
  <2>2. CASE g = k
    <3>1. \A x \in Reg : Upto(x, s.store[k]) => Upto(x, r.store[k])
      BY <1>6, <1>7, UptoOrder, HlcTypes
    <3>2. \A b \in Sent(w.out) : b.regs[k] \in Reg
      <4>1. \A b \in Sent(w.out) : b \in Bundle
        BY <1>1, SentTypes DEF WireRow
      <4> QED BY <1>1, <4>1, BundleTypes
    <3>3. \A b \in Sent(w.out) : Upto(b.regs[k], r.store[k])
      BY <2>1, <2>2, <3>1, <3>2 DEF MetaAt
    <3>4. h.regs[k] \in Reg
      BY <1>1 DEF Bundle
    <3>5. Upto(h.regs[k], s.store[k]) => Upto(h.regs[k], r.store[k])
      BY <3>1, <3>4
    <3>6. k \in r.dirty /\ r.store[k].hlc[1] <= r.clock
      BY <1>1, <1>3, <1>6
    <3> QED BY <1>3, <1>6, <2>1, <2>2, <3>3, <3>5, <3>6 DEF MetaAt
  <2>3. CASE g # k
    <3>1. r.store[g] = s.store[g] /\ (g \in s.dirty => g \in r.dirty)
      BY <1>3, <1>5, <2>1, <2>3
    <3>2. r.store[g].hlc[1] <= r.clock
      BY <1>1, <1>3, <2>1, <3>1 DEF MetaAt
    <3> QED BY <1>3, <2>1, <3>1, <3>2 DEF MetaAt
  <2> QED BY <2>2, <2>3
<1>9. PointsSent(d, r, w, h)
  <2>1. PointsSent(d, s, w, h)
    BY DEF DeviceInv
  <2>2. h.snaps[d].hlc[1] \in Nat /\ \A b \in Sent(w.out) : b.snaps[d].hlc[1] \in Nat
    <3>1. \A b \in Sent(w.out) : b \in Bundle
      BY <1>1, SentTypes DEF WireRow
    <3> QED BY <3>1, HlcTypes DEF Bundle
  <2>3. /\ h.snaps[d].hlc[1] <= r.clock
        /\ \A b \in Sent(w.out) : b.snaps[d] # NoSnap => b.snaps[d].hlc[1] <= r.clock
    BY <1>1, <1>3, <2>1, <2>2 DEF PointsSent
  <2> QED BY <2>1, <2>3 DEF PointsSent
<1>10. PointsSeen(d, r, w, h)
  BY <1>3 DEF DeviceInv, PointsSeen, SameSession
<1>11. PointShown(d, r, w, h)
  <2>1. Content(r.store) = Content(s.store)
    BY <1>1, <1>5 DEF Content, Keys
  <2> QED BY <1>1, <1>3, <2>1 DEF DeviceInv, PointShown, Shown
<1>12. DeviceInv(d, r, w, h)
  BY <1>1, <1>3, <1>8, <1>9, <1>10, <1>11 DEF DeviceInv, SameSession
<1>13. /\ \A x \in Reg : Has(r, w, k, x) => Has(s, w, k, x) \/ x = r.store[k]
       /\ \A g \in Globals \ {k} : /\ r.store[g] = s.store[g]
                                   /\ \A x \in Reg : Has(r, w, g, x) => Has(s, w, g, x)
  BY <1>3, <1>5 DEF Has, Keys
<1> QED BY <1>2, <1>6, <1>7, <1>12, <1>13

(* The stamps of a setting, wherever it is, tell its registers apart.      *)
LEMMA WinsOrNot ==
  ASSUME NEW x \in Reg, NEW y \in Reg, x.hlc = y.hlc => x = y,
         x = NoReg \/ x.hlc[2] # 0, y = NoReg \/ y.hlc[2] # 0
  PROVE  /\ Wins(x, y) => Upto(y, x)
         /\ ~Wins(x, y) => Upto(x, y)
<1>1. x.hlc \in Stamps /\ y.hlc \in Stamps
  BY HlcTypes
<1>2. Upto(NoReg, x) /\ Upto(NoReg, y)
  BY NothingIsLeast
<1>3. ~Later(x.hlc, y.hlc) => Upto(x, y) \/ x.hlc = y.hlc
  BY <1>1, UptoOrder
<1> QED BY <1>2, <1>3 DEF Wins, Upto

(* A remote bundle, handled: every setting is the newer of the two.        *)
LEMMA HandledKeeps ==
  ASSUME NEW d \in Devices, NEW s, NEW w, NEW h \in Bundle, DeviceInv(d, s, w, h),
         s.queue # <<>>, Head(s.queue).t = "docs",
         \A k \in Globals : LET x == Head(s.queue).docs.regs[k] IN
           /\ x.hlc = s.store[k].hlc => x = s.store[k]
           /\ x = NoReg \/ x.hlc[2] # 0
           /\ x.hlc[2] = d => Upto(x, s.store[k])
  PROVE  LET r == Done(HandleRemoteDocs(s, d, Head(s.queue).docs)) IN
           /\ DeviceInv(d, r, w, h)
           /\ \A t \in Tabs : r.store[t] = s.store[t]
           /\ r.initialized = s.initialized
           /\ \A k \in Globals : /\ Upto(s.store[k], r.store[k])
                                 /\ \A x \in Reg : Has(r, w, k, x) => Has(s, w, k, x)
<1>1. s \in WsRow /\ w \in WireRow /\ s.clock \in Nat /\ s.queue \in Seq(Task) /\ s.store \in [Keys -> Reg]
      /\ s.snaps \in [Devices -> Snap]
  BY DEF DeviceInv, WsRow
<1>2. PICK docs : docs = Head(s.queue).docs
  OBVIOUS
<1>3. /\ Tail(s.queue) \in Seq(Task)
      /\ DocsIn(s.queue) = DocsIn(Tail(s.queue)) \union {docs}
      /\ Fences(s.queue) = Fences(Tail(s.queue))
      /\ Hydrating(s.queue) <=> Hydrating(Tail(s.queue))
  <2>1. PICK q : q = s.queue
    OBVIOUS
  <2>2. q \in Seq(Task) /\ q # <<>> /\ Head(q).t = "docs" /\ docs = Head(q).docs
    BY <1>1, <1>2, <2>1
  <2>3. /\ Tail(q) \in Seq(Task)
        /\ DocsIn(q) = DocsIn(Tail(q)) \union (IF Head(q).t = "docs" THEN {Head(q).docs} ELSE {})
        /\ Fences(q) = Fences(Tail(q)) \union (IF Head(q).t = "syncFence" THEN {Head(q)} ELSE {})
        /\ Hydrating(q) <=> Hydrating(Tail(q)) \/ Head(q).t \in {"hydrated", "bootFence"}
    BY <2>2, QueueTail
  <2> QED BY <2>1, <2>2, <2>3
<1>4. docs \in Bundle
  BY <1>1, <1>3, QueueTypes
<1>5. PICK p : p = HandleRemoteDocs(s, d, docs)
  OBVIOUS
<1>6. /\ p \in WsRow /\ p.queue = s.queue /\ p.dirty = s.dirty /\ p.snapDirty = s.snapDirty
      /\ p.ready = s.ready /\ p.inherit = s.inherit /\ p.initialized = s.initialized
      /\ p.clock >= s.clock
      /\ \A k \in Keys : p.clock >= docs.regs[k].hlc[1]
      /\ \A e \in Devices : p.clock >= docs.snaps[e].hlc[1]
      /\ \A t \in Tabs : p.store[t] = s.store[t]
      /\ \A k \in Globals : p.store[k] = IF docs.regs[k].hlc[2] # d /\ Wins(docs.regs[k], s.store[k])
                                        THEN docs.regs[k] ELSE s.store[k]
      /\ \A e \in Devices : p.snaps[e] = IF Later(docs.snaps[e].hlc, s.snaps[e].hlc)
                                         THEN docs.snaps[e] ELSE s.snaps[e]
  <2>1. /\ p \in WsRow /\ p.queue = s.queue /\ p.dirty = s.dirty /\ p.snapDirty = s.snapDirty
        /\ p.ready = s.ready /\ p.inherit = s.inherit /\ p.initialized = s.initialized
    BY <1>1, <1>4, <1>5, HandledRow
  <2>2. /\ p.clock >= s.clock
        /\ \A k \in Keys : p.clock >= docs.regs[k].hlc[1]
        /\ \A e \in Devices : p.clock >= docs.snaps[e].hlc[1]
    BY <1>1, <1>4, <1>5, HandledRow
  <2>3. /\ \A t \in Tabs : p.store[t] = s.store[t]
        /\ \A k \in Globals : p.store[k] = IF docs.regs[k].hlc[2] # d /\ Wins(docs.regs[k], s.store[k])
                                          THEN docs.regs[k] ELSE s.store[k]
    BY <1>1, <1>4, <1>5, HandledRow
  <2>4. \A e \in Devices : p.snaps[e] = IF Later(docs.snaps[e].hlc, s.snaps[e].hlc)
                                        THEN docs.snaps[e] ELSE s.snaps[e]
    BY <1>1, <1>4, <1>5, HandledRow
  <2> QED BY <2>1, <2>2, <2>3, <2>4
<1>7. PICK r : r = Done(p)
  OBVIOUS
<1>8. r \in WsRow /\ SameButQueue(p, r) /\ r.queue = Tail(s.queue)
  BY <1>6, <1>7, DoneRow
<1>9. /\ r.store = p.store /\ r.clock = p.clock /\ r.snaps = p.snaps /\ r.dirty = s.dirty
      /\ r.snapDirty = s.snapDirty /\ r.initialized = s.initialized /\ r.inherit = s.inherit
      /\ r.clock \in Nat /\ r.clock >= s.clock
  BY <1>6, <1>8 DEF SameButQueue, SameSession, WsRow
<1>10. ASSUME NEW k \in Globals
       PROVE  /\ MetaAt(k, r, w, h) /\ Upto(s.store[k], r.store[k])
              /\ \A x \in Reg : Has(r, w, k, x) => Has(s, w, k, x)
  <2>1. PICK x, y, z : x = docs.regs[k] /\ y = s.store[k] /\ z = h.regs[k]
    OBVIOUS
  <2>2. k \in Keys /\ x \in Reg /\ y \in Reg /\ z \in Reg /\ x.hlc[1] \in Nat /\ y.hlc[1] \in Nat
        /\ x.hlc \in Stamps /\ y.hlc \in Stamps /\ z.hlc \in Stamps
    BY <1>1, <1>4, <2>1, BundleTypes, HlcTypes DEF Keys
  <2>3. MetaAt(k, s, w, h)
    BY DEF DeviceInv
  <2>4. r.store[k] = (IF x.hlc[2] # d /\ Wins(x, y) THEN x ELSE y)
    BY <1>6, <1>9, <2>1
  <2>5. /\ x.hlc = y.hlc => x = y
        /\ x = NoReg \/ x.hlc[2] # 0
        /\ x.hlc[2] = d => Upto(x, y)
    BY <1>2, <2>1
  <2>6. (y = NoReg \/ y.hlc[2] # 0) /\ y.hlc[1] <= s.clock
    BY <2>1, <2>3 DEF MetaAt
  <2>7. Upto(x, r.store[k]) /\ Upto(y, r.store[k])
    <3>1. (Wins(x, y) => Upto(y, x)) /\ (~Wins(x, y) => Upto(x, y))
      BY <2>2, <2>5, <2>6, WinsOrNot
    <3> QED BY <2>4, <2>5, <3>1 DEF Upto
  <2>8. r.store[k] = x \/ r.store[k] = y
    BY <2>4
  <2>9. PICK n : n = r.store[k]
    OBVIOUS
  <2>10. n \in Reg /\ n.hlc \in Stamps
    BY <2>2, <2>8, <2>9
  <2>11. \A b \in Sent(w.out) : Upto(b.regs[k], n)
    <3>1. ASSUME NEW b \in Sent(w.out) PROVE Upto(b.regs[k], n)
      <4>1. b \in Bundle
        BY <1>1, <3>1, SentTypes DEF WireRow
      <4>2. b.regs[k].hlc \in Stamps
        BY <2>2, <4>1, BundleTypes, HlcTypes
      <4>3. Upto(b.regs[k], y)
        BY <2>1, <2>3, <3>1 DEF MetaAt
      <4> QED BY <2>2, <2>7, <2>9, <2>10, <4>2, <4>3, UptoOrder
    <3> QED BY <3>1
  <2>12. Upto(z, y) => Upto(z, n)
    BY <2>2, <2>7, <2>9, <2>10, UptoOrder
  <2>13. w.up => Upto(z, n) \/ \E b \in DocsIn(r.queue) : b.regs[k] = z
    BY <1>3, <1>8, <2>1, <2>3, <2>7, <2>9, <2>12 DEF MetaAt
  <2>14. Upto(x, z)
    BY <1>3, <2>1, <2>3 DEF MetaAt
  <2>15. n.hlc[1] <= r.clock
    <3>1. x.hlc[1] <= r.clock
      BY <1>6, <1>9, <2>1, <2>2
    <3>2. y.hlc[1] <= r.clock
      BY <1>1, <1>9, <2>2, <2>6
    <3> QED BY <2>8, <2>9, <3>1, <3>2
  <2>16. n = NoReg \/ n.hlc[2] # 0
    BY <2>5, <2>6, <2>8, <2>9
  <2>17. w.up /\ ~Hydrating(r.queue) =>
           \/ n = NoReg \/ k \in r.dirty \/ Upto(n, z)
           \/ \E b \in Sent(w.out) : Upto(n, b.regs[k])
    BY <1>3, <1>8, <1>9, <2>1, <2>3, <2>8, <2>9, <2>14 DEF MetaAt
  <2>18. \A b \in DocsIn(r.queue) : b \in DocsIn(s.queue)
    BY <1>3, <1>8
  <2>19. MetaAt(k, r, w, h)
    BY <2>1, <2>3, <2>9, <2>11, <2>13, <2>15, <2>16, <2>17, <2>18 DEF MetaAt
  <2>20. \A c \in Reg : Has(r, w, k, c) => Has(s, w, k, c)
    BY <1>3, <2>1, <2>8, <2>18 DEF Has
  <2> QED BY <2>1, <2>7, <2>19, <2>20
<1>11. PointsSent(d, r, w, h)
  <2>1. PointsSent(d, s, w, h)
    BY DEF DeviceInv
  <2>2. h.snaps[d].hlc[1] \in Nat /\ \A b \in Sent(w.out) : b.snaps[d].hlc[1] \in Nat
    <3>1. \A b \in Sent(w.out) : b \in Bundle
      BY <1>1, SentTypes DEF WireRow
    <3> QED BY <3>1, HlcTypes DEF Bundle
  <2>3. /\ h.snaps[d].hlc[1] <= r.clock
        /\ \A b \in Sent(w.out) : b.snaps[d] # NoSnap => b.snaps[d].hlc[1] <= r.clock
    BY <1>1, <1>9, <2>1, <2>2 DEF PointsSent
  <2> QED BY <2>1, <2>3 DEF PointsSent
<1>12. PointsSeen(d, r, w, h)
  <2>1. PointsSeen(d, s, w, h)
    BY DEF DeviceInv
  <2>2. ASSUME NEW e \in Devices
        PROVE  /\ Upto(r.snaps[e], h.snaps[e])
               /\ s.snaps[e] = h.snaps[e] \/ docs.snaps[e] = h.snaps[e] => r.snaps[e] = h.snaps[e]
    <3>1. PICK x, y, z : x = docs.snaps[e] /\ y = s.snaps[e] /\ z = h.snaps[e]
      OBVIOUS
    <3>2. x.hlc \in Stamps /\ y.hlc \in Stamps /\ z.hlc \in Stamps
      BY <1>1, <1>4, <3>1, BundleTypes, HlcTypes
    <3>3. r.snaps[e] = IF Later(x.hlc, y.hlc) THEN x ELSE y
      BY <1>6, <1>9, <3>1
    <3>4. Upto(y, z) /\ Upto(x, z)
      BY <1>3, <2>1, <3>1 DEF PointsSeen
    <3>5. y = z => ~Later(x.hlc, y.hlc)
      BY <3>2, <3>4, UptoOrder
    <3>6. x = z => Later(x.hlc, y.hlc) \/ y = z
      BY <3>4 DEF Upto
    <3> QED BY <3>1, <3>3, <3>4, <3>5, <3>6
  <2>3. \A b \in DocsIn(r.queue) : b \in DocsIn(s.queue)
    BY <1>3, <1>8
  <2>4. \A b \in DocsIn(s.queue) : b = docs \/ b \in DocsIn(r.queue)
    BY <1>3, <1>8
  <2>5. ASSUME w.up, NEW e \in Devices \ {d}
        PROVE  r.snaps[e] = h.snaps[e] \/ \E b \in DocsIn(r.queue) : b.snaps[e] = h.snaps[e]
    <3>1. s.snaps[e] = h.snaps[e] \/ \E b \in DocsIn(s.queue) : b.snaps[e] = h.snaps[e]
      BY <2>1, <2>5 DEF PointsSeen
    <3> QED BY <2>2, <2>4, <3>1
  <2> QED BY <2>1, <2>2, <2>3, <2>5 DEF PointsSeen
<1>13. Content(r.store) = Content(s.store)
  BY <1>6, <1>9 DEF Content
<1>14. PointShown(d, r, w, h)
  BY <1>3, <1>8, <1>9, <1>13 DEF DeviceInv, PointShown, Shown
<1>15. FencesReady(r.queue) /\ (r.initialized => ~r.inherit)
  BY <1>3, <1>8, <1>9 DEF DeviceInv, FencesReady
<1>16. DeviceInv(d, r, w, h)
  BY <1>1, <1>8, <1>10, <1>11, <1>12, <1>14, <1>15 DEF DeviceInv
<1>17. \A t \in Tabs : r.store[t] = s.store[t]
  BY <1>6, <1>9
<1> QED BY <1>2, <1>5, <1>7, <1>9, <1>10, <1>16, <1>17

(* A new socket brings everything the hub has, and the hydration behind it. *)
LEMMA ConnectKeeps ==
  ASSUME NEW d \in Devices, NEW s, NEW w, NEW h \in Bundle, DeviceInv(d, s, w, h), ~w.up
  PROVE  LET r == [s EXCEPT !.queue = @ \o (IF h = Nothing THEN <<>> ELSE <<[t |-> "docs", docs |-> h]>>)
                                       \o <<[t |-> "hydrated"]>>]
             v == [w EXCEPT !.up = TRUE]
         IN  DeviceInv(d, r, v, h) /\ NothingNew(s, w, h, r, v) /\ r.store = s.store /\ r.initialized = s.initialized
<1>1. s \in WsRow /\ w \in WireRow /\ s.queue \in Seq(Task) /\ s.snaps \in [Devices -> Snap]
  BY DEF DeviceInv, WsRow
<1>2. PICK all : all = IF h = Nothing THEN <<>> ELSE <<[t |-> "docs", docs |-> h]>>
  OBVIOUS
<1>3. /\ all \in Seq(Task) /\ DocsIn(all) = (IF h = Nothing THEN {} ELSE {h}) /\ Fences(all) = {}
      /\ ~Hydrating(all)
  <2>1. CASE h = Nothing
    <3>1. all = <<>>
      BY <1>2, <2>1
    <3>2. all \in Seq(Task) /\ DOMAIN all = {}
      BY <3>1
    <3> QED BY <2>1, <3>2 DEF DocsIn, Fences, Hydrating
  <2>2. CASE h # Nothing
    <3>1. PICK task : task = [t |-> "docs", docs |-> h]
      OBVIOUS
    <3>2. task \in Task /\ task.t = "docs" /\ task.docs = h /\ all = <<task>>
      BY <1>2, <2>2, <3>1 DEF Task
    <3> QED BY <2>2, <3>2, QueueOfOne
  <2> QED BY <2>1, <2>2
<1>4. PICK end : end = <<[t |-> "hydrated"]>>
  OBVIOUS
<1>5. end \in Seq(Task) /\ DocsIn(end) = {} /\ Fences(end) = {} /\ Hydrating(end)
  <2>1. PICK task : task = [t |-> "hydrated"]
    OBVIOUS
  <2>2. task \in Task /\ task.t = "hydrated" /\ end = <<task>>
    BY <1>4, <2>1 DEF Task
  <2> QED BY <2>2, QueueOfOne
<1>6. PICK q : q = s.queue \o all \o end
  OBVIOUS
<1>7. /\ q \in Seq(Task) /\ Hydrating(q) /\ Fences(q) = Fences(s.queue)
      /\ DocsIn(q) = DocsIn(s.queue) \union (IF h = Nothing THEN {} ELSE {h})
  <2>1. PICK m : m = s.queue \o all
    OBVIOUS
  <2>2. m \in Seq(Task) /\ DocsIn(m) = DocsIn(s.queue) \union DocsIn(all) /\ Fences(m) = Fences(s.queue) \union Fences(all)
    <3>1. PICK p : p = s.queue
      OBVIOUS
    <3>2. p \in Seq(Task) /\ m = p \o all /\ m \in Seq(Task)
      BY <1>1, <1>3, <2>1, <3>1
    <3>3. DocsIn(m) = DocsIn(p) \union DocsIn(all) /\ Fences(m) = Fences(p) \union Fences(all)
      BY <1>3, <3>2, QueueConcat
    <3> QED BY <3>1, <3>2, <3>3
  <2>3. q \in Seq(Task) /\ q = m \o end
    BY <1>1, <1>3, <1>5, <1>6, <2>1
  <2>4. /\ DocsIn(q) = DocsIn(m) \union DocsIn(end) /\ Fences(q) = Fences(m) \union Fences(end)
        /\ Hydrating(q) <=> Hydrating(m) \/ Hydrating(end)
    BY <1>5, <2>2, <2>3, QueueConcat
  <2> QED BY <1>3, <1>5, <2>2, <2>3, <2>4
<1>8. PICK r : r = [s EXCEPT !.queue = q]
  OBVIOUS
<1>9. /\ r \in WsRow /\ r.queue = q /\ r.store = s.store /\ r.clock = s.clock /\ r.snaps = s.snaps
      /\ r.initialized = s.initialized /\ r.inherit = s.inherit
  BY <1>1, <1>7, <1>8 DEF WsRow
<1>10. PICK v : v = [w EXCEPT !.up = TRUE]
  OBVIOUS
<1>11. v \in WireRow /\ v.up /\ v.out = w.out
  BY <1>1, <1>10 DEF WireRow
<1>12. ASSUME NEW k \in Globals PROVE MetaAt(k, r, v, h)
  <2>1. MetaAt(k, s, w, h) /\ k \in Keys /\ s.store[k] \in Reg
    BY <1>1 DEF DeviceInv, WsRow, Keys
  <2>2. h = Nothing => Upto(h.regs[k], s.store[k])
    BY <2>1, NothingIsLeast DEF MetaAt, Nothing, NoRegs
  <2>3. \A b \in DocsIn(q) : b \in DocsIn(s.queue) \/ b = h
    BY <1>7
  <2>4. h # Nothing => h \in DocsIn(q)
    BY <1>7
  <2>5. \A b \in DocsIn(q) : Upto(b.regs[k], h.regs[k])
    BY <2>1, <2>3 DEF MetaAt, Upto
  <2>6. Upto(h.regs[k], s.store[k]) \/ \E b \in DocsIn(q) : b.regs[k] = h.regs[k]
    BY <2>2, <2>4
  <2> QED BY <1>7, <1>9, <1>11, <2>1, <2>5, <2>6 DEF MetaAt
<1>13. PointsSent(d, r, v, h)
  BY <1>9, <1>11 DEF DeviceInv, PointsSent
<1>14. PointsSeen(d, r, v, h)
  <2>1. PointsSeen(d, s, w, h)
    BY DEF DeviceInv
  <2>2. ASSUME h = Nothing, NEW e \in Devices PROVE s.snaps[e] = h.snaps[e]
    <3>1. h.snaps[e] = NoSnap /\ Upto(s.snaps[e], h.snaps[e]) /\ s.snaps[e].hlc \in Stamps
      BY <1>1, <2>1, <2>2, HlcTypes DEF Nothing, NoSnaps, PointsSeen
    <3> QED BY <3>1, NothingIsLeast DEF Upto, NoSnap
  <2>3. \A b \in DocsIn(q) : b \in DocsIn(s.queue) \/ b = h
    BY <1>7
  <2>4. h # Nothing => h \in DocsIn(q)
    BY <1>7
  <2>5. \A e \in Devices : \A b \in DocsIn(q) : Upto(b.snaps[e], h.snaps[e])
    BY <2>1, <2>3 DEF PointsSeen, Upto
  <2>6. \A e \in Devices : s.snaps[e] = h.snaps[e] \/ \E b \in DocsIn(q) : b.snaps[e] = h.snaps[e]
    BY <2>2, <2>4
  <2> QED BY <1>9, <2>1, <2>5, <2>6 DEF PointsSeen
<1>15. PointShown(d, r, v, h)
  BY <1>7, <1>9 DEF PointShown
<1>16. FencesReady(r.queue)
  BY <1>7, <1>9 DEF DeviceInv, FencesReady
<1>17. DeviceInv(d, r, v, h)
  BY <1>9, <1>11, <1>12, <1>13, <1>14, <1>15, <1>16 DEF DeviceInv
<1>18. NothingNew(s, w, h, r, v)
  <2>1. \A b \in DocsIn(q) : b \in DocsIn(s.queue) \/ b = h
    BY <1>7
  <2> QED BY <1>9, <1>11, <2>1 DEF NothingNew, Has
<1>19. r = [s EXCEPT !.queue = @ \o (IF h = Nothing THEN <<>> ELSE <<[t |-> "docs", docs |-> h]>>)
                              \o <<[t |-> "hydrated"]>>]
  BY <1>2, <1>4, <1>6, <1>8
<1> QED BY <1>9, <1>10, <1>17, <1>18, <1>19

(* A socket that is gone, and a queue with no more in it than before.      *)
LEMMA DownKeeps ==
  ASSUME NEW d \in Devices, NEW s, NEW w, NEW h \in Bundle, DeviceInv(d, s, w, h),
         NEW r \in WsRow, r.store = s.store, r.clock = s.clock,
         r.initialized => ~r.inherit,
         r.snaps = s.snaps \/ r.snaps = NoSnaps,
         \A e \in Devices : h.snaps[e] = NoSnap \/ h.snaps[e].hlc[2] # 0,
         DocsIn(r.queue) \subseteq DocsIn(s.queue), Fences(r.queue) \subseteq Fences(s.queue)
  PROVE  DeviceInv(d, r, Down, h) /\ NothingNew(s, w, h, r, Down)
<1>1. /\ Down \in WireRow /\ ~Down.up /\ Down.out = <<>> /\ DOMAIN Down.out = {} /\ Sent(Down.out) = {}
  <2>1. Down.out = <<>> /\ ~Down.up /\ Down \in WireRow
    BY DEF Down, WireRow
  <2>2. DOMAIN Down.out = {}
    BY <2>1
  <2> QED BY <2>1, <2>2 DEF Sent
<1>2. PICK v : v = Down
  OBVIOUS
<1>3. v \in WireRow /\ ~v.up /\ DOMAIN v.out = {} /\ Sent(v.out) = {}
  BY <1>1, <1>2
<1>4. \A k \in Globals : MetaAt(k, r, v, h)
  BY <1>3 DEF DeviceInv, MetaAt
<1>5. PointsSent(d, r, v, h)
  BY <1>3 DEF DeviceInv, PointsSent
<1>6. PointsSeen(d, r, v, h)
  <2>1. \A e \in Devices : Upto(NoSnap, h.snaps[e])
    BY NothingIsLeast, BundleTypes
  <2>2. \A e \in Devices : Upto(r.snaps[e], h.snaps[e])
    BY <2>1 DEF DeviceInv, PointsSeen, NoSnaps
  <2> QED BY <1>3, <2>2 DEF DeviceInv, PointsSeen
<1>7. PointShown(d, r, v, h) /\ FencesReady(r.queue)
  BY <1>3 DEF DeviceInv, PointShown, FencesReady
<1>8. DeviceInv(d, r, v, h)
  BY <1>3, <1>4, <1>5, <1>6, <1>7 DEF DeviceInv
<1>9. NothingNew(s, w, h, r, v)
  BY <1>3 DEF NothingNew, Has
<1> QED BY <1>2, <1>8, <1>9

(* A queue that has lost some of its tasks.                                *)
LEMMA LostFrames ==
  ASSUME NEW q \in Seq(Task), NEW n \in Nat, NEW f \in InOrder(Stays(q, n))
  PROVE  LET r == [i \in DOMAIN f |-> q[f[i]]] IN
           r \in Seq(Task) /\ DocsIn(r) \subseteq DocsIn(q) /\ Fences(r) \subseteq Fences(q)
<1>1. PICK S : S = Stays(q, n)
  OBVIOUS
<1>2. S \subseteq DOMAIN q /\ DOMAIN q = 1..Len(q) /\ Len(q) \in Nat
  BY <1>1 DEF Stays
<1>3. Cardinality(S) \in Nat
  <2>1. IsFiniteSet(1..Len(q))
    BY <1>2, FS_Interval
  <2>2. IsFiniteSet(S)
    BY <1>2, <2>1, FS_Subset
  <2> QED BY <2>2, FS_CardinalityType
<1>4. f \in [1..Cardinality(S) -> S]
  BY <1>1 DEF InOrder
<1>5. PICK r : r = [i \in DOMAIN f |-> q[f[i]]]
  OBVIOUS
<1>6. DOMAIN r = 1..Cardinality(S) /\ \A i \in DOMAIN r : f[i] \in DOMAIN q /\ r[i] = q[f[i]] /\ r[i] \in Task
  <2>1. \A i \in 1..Cardinality(S) : f[i] \in DOMAIN q
    BY <1>2, <1>4
  <2>2. \A j \in DOMAIN q : q[j] \in Task
    OBVIOUS
  <2> QED BY <1>4, <1>5, <2>1, <2>2
<1>7. r \in Seq(Task)
  <2>1. r \in [1..Cardinality(S) -> Task]
    BY <1>5, <1>6, <1>4
  <2> QED BY <1>3, <2>1
<1>8. \A b \in DocsIn(r) : b \in DocsIn(q)
  BY <1>6 DEF DocsIn
<1>9. \A b \in Fences(r) : b \in Fences(q)
  BY <1>6 DEF Fences
<1> QED BY <1>5, <1>7, <1>8, <1>9

----------------------------------------------------------------------------
(* The steps.                                                              *)

(* The type invariant in the names of this module.                         *)
LEMMA TypesOfState ==
  ASSUME WsTypeOK
  PROVE  /\ ws \in [Devices -> WsRow] /\ wire \in [Devices -> WireRow] /\ hubws \in Bundle
         /\ spent \in [edits : Nat, syncs : Nat, drops : Nat, restarts : Nat, seals : Nat]
  BY DEF WsTypeOK, WsRow, WireRow, TabRegs

(* No known register of a setting has a stamp that is still to be given.   *)
LEMMA NewStamp ==
  ASSUME WsInv, NEW d \in Devices, NEW k \in Globals, NEW x \in Reg, Known(k, x)
  PROVE  /\ x.hlc = NoReg.hlc => x = NoReg
         /\ x.hlc # <<ws[d].clock + 1, d>>
<1>1. /\ x = NoReg \/ x.hlc[2] # 0
      /\ x.hlc[2] = d => Upto(x, ws[d].store[k])
  BY DEF WsInv, OwnIsOlder
<1>2. x.hlc = NoReg.hlc => x = NoReg
  BY <1>1 DEF NoReg, NoHlc
<1>3. ASSUME x.hlc = <<ws[d].clock + 1, d>> PROVE FALSE
  <2>1. PICK y, n : y = ws[d].store[k] /\ n = ws[d].clock
    OBVIOUS
  <2>2. y \in Reg /\ n \in Nat /\ y.hlc[1] <= n
    <3>1. ws[d] \in WsRow /\ MetaAt(k, ws[d], wire[d], hubws)
      BY DEF WsInv, DeviceInv
    <3> QED BY <2>1, <3>1 DEF WsRow, MetaAt, Keys
  <2>3. y.hlc[1] \in Nat /\ x.hlc[1] = n + 1 /\ x.hlc[2] = d
    BY <1>3, <2>1, <2>2, HlcTypes
  <2>4. Upto(x, y)
    BY <1>1, <2>1, <2>3
  <2> QED BY <2>2, <2>3, <2>4 DEF Upto, Later
<1> QED BY <1>2, <1>3

(* A step of one device: its settings get newer, and what it holds and has  *)
(* sent was known already, or has just been stamped.                       *)
LEMMA LocalStep ==
  ASSUME WsInv, NEW d \in Devices, NEW s, NEW w, DeviceInv(d, s, w, hubws),
         ws' = [ws EXCEPT ![d] = s], wire' = [wire EXCEPT ![d] = w], UNCHANGED hubws,
         spent' \in [edits : Nat, syncs : Nat, drops : Nat, restarts : Nat, seals : Nat],
         \A k \in Globals :
           /\ Upto(ws[d].store[k], s.store[k])
           /\ \A x \in Reg : Has(s, w, k, x) =>
                \/ Known(k, x) \/ x = NoReg
                \/ (x = s.store[k] /\ x.hlc = <<ws[d].clock + 1, d>>)
  PROVE  WsInv'
<1>1. /\ ws \in [Devices -> WsRow] /\ wire \in [Devices -> WireRow] /\ hubws \in Bundle
      /\ s \in WsRow /\ w \in WireRow
  BY TypesOfState DEF WsInv, DeviceInv
<1>2. /\ ws'[d] = s /\ wire'[d] = w
      /\ \A e \in Devices \ {d} : ws'[e] = ws[e] /\ wire'[e] = wire[e]
  BY <1>1
<1>3. WsTypeOK'
  <2>1. ws' \in [Devices -> WsRow] /\ wire' \in [Devices -> WireRow] /\ hubws' \in Bundle
    BY <1>1
  <2> QED BY <2>1 DEF WsTypeOK, WsRow, WireRow, TabRegs
<1>4. ASSUME NEW k \in Globals, NEW x \in Reg, Known(k, x)'
      PROVE  \/ Known(k, x) \/ x = NoReg
             \/ (x = s.store[k] /\ x.hlc = <<ws[d].clock + 1, d>>)
  <2>1. CASE x = hubws'.regs[k]
    BY <2>1 DEF Known
  <2>2. ASSUME NEW e \in Devices, Has(ws'[e], wire'[e], k, x)
        PROVE  \/ Known(k, x) \/ x = NoReg
               \/ (x = s.store[k] /\ x.hlc = <<ws[d].clock + 1, d>>)
    <3>1. CASE e = d
      BY <1>2, <2>2, <3>1
    <3>2. CASE e # d
      BY <1>2, <2>2, <3>2 DEF Known
    <3> QED BY <3>1, <3>2
  <2> QED BY <1>4, <2>1, <2>2 DEF Known
<1>5. StampsUnique'
  <2>1. ASSUME NEW k \in Globals, NEW x \in Reg, NEW y \in Reg, Known(k, x), x.hlc = y.hlc,
               \/ Known(k, y) \/ y = NoReg
               \/ (y = s.store[k] /\ y.hlc = <<ws[d].clock + 1, d>>)
        PROVE  x = y
    <3>1. CASE Known(k, y)
      BY <2>1, <3>1 DEF WsInv, StampsUnique
    <3>2. CASE y = NoReg
      BY <2>1, <3>2, NewStamp
    <3>3. CASE y.hlc = <<ws[d].clock + 1, d>>
      BY <2>1, <3>3, NewStamp
    <3> QED BY <2>1, <3>1, <3>2, <3>3
  <2>2. <<ws[d].clock + 1, d>> # NoReg.hlc
    BY WsAssumption DEF NoReg, NoHlc
  <2>3. ASSUME NEW k \in Globals, NEW x \in Reg, NEW y \in Reg, Known(k, x)', Known(k, y)', x.hlc = y.hlc
        PROVE  x = y
    <3>1. /\ \/ Known(k, x) \/ x = NoReg
             \/ (x = s.store[k] /\ x.hlc = <<ws[d].clock + 1, d>>)
          /\ \/ Known(k, y) \/ y = NoReg
             \/ (y = s.store[k] /\ y.hlc = <<ws[d].clock + 1, d>>)
      BY <1>4, <2>3
    <3>2. CASE Known(k, x)
      BY <2>1, <2>3, <3>1, <3>2
    <3>3. CASE Known(k, y)
      <4>1. y.hlc = x.hlc
        BY <2>3
      <4> QED BY <2>1, <3>1, <3>3, <4>1
    <3>4. CASE ~Known(k, x) /\ ~Known(k, y)
      BY <2>2, <2>3, <3>1, <3>4
    <3> QED BY <3>2, <3>3, <3>4
  <2> QED BY <2>3 DEF StampsUnique
<1>6. OwnIsOlder'
  <2>1. ASSUME NEW k \in Globals, NEW x \in Reg, Known(k, x)'
        PROVE  /\ x = NoReg \/ x.hlc[2] # 0
               /\ \A e \in Devices : x.hlc[2] = e => Upto(x, ws'[e].store[k])
    <3>1. CASE Known(k, x)
      <4>1. /\ x = NoReg \/ x.hlc[2] # 0
            /\ \A e \in Devices : x.hlc[2] = e => Upto(x, ws[e].store[k])
        BY <3>1 DEF WsInv, OwnIsOlder
      <4>2. ASSUME x.hlc[2] = d PROVE Upto(x, s.store[k])
        <5>1. Upto(x, ws[d].store[k]) /\ Upto(ws[d].store[k], s.store[k])
          BY <4>1, <4>2
        <5>2. ws[d].store[k] \in Reg /\ s.store[k] \in Reg
          BY <1>1 DEF WsRow, Keys
        <5>3. x.hlc \in Stamps /\ ws[d].store[k].hlc \in Stamps /\ s.store[k].hlc \in Stamps
          BY <5>2, HlcTypes
        <5> QED BY <5>1, <5>3, UptoOrder
      <4> QED BY <1>2, <4>1, <4>2
    <3>2. CASE x = NoReg
      BY <3>2, WsAssumption DEF NoReg, NoHlc
    <3>3. CASE x = s.store[k] /\ x.hlc = <<ws[d].clock + 1, d>>
      BY <1>2, <3>3, WsAssumption DEF Upto
    <3> QED BY <1>4, <2>1, <3>1, <3>2, <3>3
  <2> QED BY <2>1 DEF OwnIsOlder
<1>7. PointsStamped'
  BY DEF WsInv, PointsStamped
<1>8. ASSUME NEW e \in Devices PROVE DeviceInv(e, ws'[e], wire'[e], hubws')
  BY <1>2 DEF WsInv
<1> QED BY <1>3, <1>5, <1>6, <1>7, <1>8 DEF WsInv

Spending == [edits : Nat, syncs : Nat, drops : Nat, restarts : Nat, seals : Nat]

LEMMA SpendType ==
  ASSUME WsTypeOK
  PROVE  /\ \A f \in {"edits", "syncs", "drops", "restarts", "seals"} : Spend(f) => spent' \in Spending
         /\ UNCHANGED spent => spent' \in Spending
<1>1. spent \in Spending
  BY DEF WsTypeOK, Spending
<1>2. ASSUME NEW f \in {"edits", "syncs", "drops", "restarts", "seals"}, Spend(f) PROVE spent' \in Spending
  <2>1. spent' = [spent EXCEPT ![f] = @ + 1]
    BY <1>2 DEF Spend
  <2> QED BY <1>1, <2>1 DEF Spending
<1> QED BY <1>1, <1>2

(* The same when nothing is stamped at all.                                *)
LEMMA NothingNewStep ==
  ASSUME WsInv, NEW d \in Devices, NEW s, NEW w, DeviceInv(d, s, w, hubws),
         ws' = [ws EXCEPT ![d] = s], wire' = [wire EXCEPT ![d] = w], UNCHANGED hubws,
         spent' \in Spending, NothingNew(ws[d], wire[d], hubws, s, w)
  PROVE  WsInv'
<1>1. ASSUME NEW k \in Globals
      PROVE  /\ Upto(ws[d].store[k], s.store[k])
             /\ \A x \in Reg : Has(s, w, k, x) =>
                  \/ Known(k, x) \/ x = NoReg
                  \/ (x = s.store[k] /\ x.hlc = <<ws[d].clock + 1, d>>)
  BY DEF NothingNew, Known, Upto
<1> QED BY <1>1, LocalStep DEF Spending

LEMMA NothingNewTwice ==
  ASSUME NEW s, NEW w, NEW h, NEW r, NEW v, NEW q, NEW u,
         NothingNew(s, w, h, r, v), NothingNew(r, v, h, q, u)
  PROVE  NothingNew(s, w, h, q, u)
  BY DEF NothingNew

LEMMA MovedStep ==
  ASSUME WsInv, NEW d \in Devices, NEW s \in WsRow, Moved(ws[d], s),
         ws' = [ws EXCEPT ![d] = s], UNCHANGED <<wire, hubws>>, spent' \in Spending
  PROVE  WsInv'
<1>1. /\ ws \in [Devices -> WsRow] /\ wire \in [Devices -> WireRow] /\ hubws \in Bundle
      /\ DeviceInv(d, ws[d], wire[d], hubws)
  BY TypesOfState DEF WsInv
<1>2. DeviceInv(d, s, wire[d], hubws) /\ NothingNew(ws[d], wire[d], hubws, s, wire[d])
  BY <1>1, MovedKeeps
<1>3. wire' = [wire EXCEPT ![d] = wire[d]]
  BY <1>1
<1> QED BY <1>2, <1>3, NothingNewStep

(* A row that moves, is flushed, and moves again.                          *)
LEMMA FlushStep ==
  ASSUME WsInv, NEW d \in Devices, NEW r \in WsRow, Moved(ws[d], r),
         NEW q \in WsRow, Moved(Flushed(r), q),
         ws' = [ws EXCEPT ![d] = q], wire' = Outgoing(r, d), UNCHANGED hubws, spent' \in Spending
  PROVE  WsInv'
<1>1. /\ ws \in [Devices -> WsRow] /\ wire \in [Devices -> WireRow] /\ hubws \in Bundle
      /\ DeviceInv(d, ws[d], wire[d], hubws)
  BY TypesOfState DEF WsInv
<1>2. DeviceInv(d, r, wire[d], hubws) /\ NothingNew(ws[d], wire[d], hubws, r, wire[d])
  BY <1>1, MovedKeeps
<1>3. PICK v : v = Emitted(r, wire[d], d)
  OBVIOUS
<1>4. DeviceInv(d, Flushed(r), v, hubws) /\ NothingNew(r, wire[d], hubws, Flushed(r), v)
  BY <1>1, <1>2, <1>3, FlushKeeps
<1>5. DeviceInv(d, q, v, hubws) /\ NothingNew(Flushed(r), v, hubws, q, v)
  BY <1>1, <1>4, MovedKeeps
<1>6. NothingNew(ws[d], wire[d], hubws, q, v)
  BY <1>2, <1>4, <1>5, NothingNewTwice
<1>7. wire' = [wire EXCEPT ![d] = v]
  <2>1. wire[d] \in WireRow
    BY <1>1
  <2>2. CASE wire[d].up /\ FlushedBundle(r, d) # Nothing
    BY <1>1, <1>3, <2>1, <2>2 DEF Outgoing, Emitted, Nothing, WireRow
  <2>3. CASE ~(wire[d].up /\ FlushedBundle(r, d) # Nothing)
    BY <1>1, <1>3, <2>1, <2>3 DEF Outgoing, Emitted, Nothing
  <2> QED BY <2>2, <2>3
<1> QED BY <1>5, <1>6, <1>7, NothingNewStep

(* One lemma for each action from here on: it keeps the invariant. An edit *)
(* gives one setting a new stamp, or moves a tab.                          *)
LEMMA EditKeeps ==
  ASSUME WsInv, NEW d \in Devices, NEW k \in Keys, NEW doc \in Docs \union {"gone"}, Edit(d, k, doc)
  PROVE  WsInv'
<1>1. /\ ws \in [Devices -> WsRow] /\ wire \in [Devices -> WireRow] /\ hubws \in Bundle
      /\ DeviceInv(d, ws[d], wire[d], hubws)
  BY TypesOfState DEF WsInv
<1>2. PICK s, r : s = ws[d] /\ r = RecordDoc(s, d, k, doc)
  OBVIOUS
<1>3. ws' = [ws EXCEPT ![d] = r] /\ UNCHANGED <<hubws, wire>> /\ spent' \in Spending
  BY <1>2, SpendType DEF Edit, WsInv
<1>4. s \in WsRow /\ DeviceInv(d, s, wire[d], hubws) /\ s.clock \in Nat
  BY <1>1, <1>2 DEF WsRow
<1>5. CASE k \in Tabs
  <2>1. /\ r \in WsRow /\ SameSession(s, r)
        /\ r.store = [s.store EXCEPT ![k] = [doc |-> doc, hlc |-> <<s.clock + 1, d>>]]
        /\ r.clock = s.clock + 1 /\ r.queue = s.queue
        /\ r.dirty = s.dirty \union ({k} \cap Globals)
        /\ r.snapDirty = (s.snapDirty \/ k \in Tabs)
    <3>1. r = RecordDoc(s, d, k, doc) /\ s \in WsRow
      BY <1>2, <1>4
    <3> QED BY <3>1, RecordDocRow
  <2>2. \A g \in Globals : r.store[g] = s.store[g]
    BY <1>4, <1>5, <2>1, WsAssumption DEF WsRow, Keys
  <2>3. Moved(s, r)
    <3>1. FencesReady(s.queue) /\ (s.initialized => ~s.inherit)
      BY <1>4 DEF DeviceInv
    <3>2. r.clock >= s.clock
      BY <1>4, <2>1
    <3>3. r.snapDirty
      BY <1>5, <2>1, Zenon
    <3> QED BY <2>1, <2>2, <3>1, <3>2, <3>3 DEF Moved, SameSession
  <2> QED BY <1>2, <1>3, <2>1, <2>3, MovedStep
<1>6. CASE k \in Globals
  <2>1. /\ DeviceInv(d, r, wire[d], hubws)
        /\ r.store[k] \in Reg /\ r.store[k].hlc = <<s.clock + 1, d>> /\ Upto(s.store[k], r.store[k])
        /\ \A x \in Reg : Has(r, wire[d], k, x) => Has(s, wire[d], k, x) \/ x = r.store[k]
        /\ \A g \in Globals \ {k} : /\ r.store[g] = s.store[g]
                                    /\ \A x \in Reg : Has(r, wire[d], g, x) => Has(s, wire[d], g, x)
    BY <1>1, <1>2, <1>4, <1>6, EditedSettingKeeps
  <2>2. ASSUME NEW g \in Globals
        PROVE  /\ Upto(ws[d].store[g], r.store[g])
               /\ \A x \in Reg : Has(r, wire[d], g, x) =>
                    \/ Known(g, x) \/ x = NoReg
                    \/ (x = r.store[g] /\ x.hlc = <<ws[d].clock + 1, d>>)
    BY <1>2, <2>1 DEF Known, Upto
  <2>3. PICK w : w = wire[d]
    OBVIOUS
  <2>4. wire' = [wire EXCEPT ![d] = w]
    BY <1>1, <1>3, <2>3
  <2>5. /\ DeviceInv(d, r, w, hubws) /\ ws' = [ws EXCEPT ![d] = r] /\ UNCHANGED hubws
        /\ spent' \in [edits : Nat, syncs : Nat, drops : Nat, restarts : Nat, seals : Nat]
        /\ \A g \in Globals :
             /\ Upto(ws[d].store[g], r.store[g])
             /\ \A x \in Reg : Has(r, w, g, x) =>
                  \/ Known(g, x) \/ x = NoReg
                  \/ (x = r.store[g] /\ x.hlc = <<ws[d].clock + 1, d>>)
    BY <1>3, <2>1, <2>2, <2>3 DEF Spending
  <2> QED BY <2>4, <2>5, LocalStep
<1> QED BY <1>5, <1>6 DEF Keys

(* The publish timer sends what is marked, or marks it again.              *)
LEMMA PublishTimerKeeps ==
  ASSUME WsInv, NEW d \in Devices, PublishTimer(d)
  PROVE  WsInv'
<1>1. ws \in [Devices -> WsRow] /\ ws[d] \in WsRow /\ DeviceInv(d, ws[d], wire[d], hubws) /\ WsTypeOK
  BY TypesOfState DEF WsInv
<1>2. PICK s : s = [ws[d] EXCEPT !.timer = FALSE]
  OBVIOUS
<1>3. PICK r : r = ws[d]
  OBVIOUS
<1>4. /\ s \in WsRow /\ SameSession(r, s) /\ s.store = r.store /\ s.clock = r.clock /\ s.queue = r.queue
      /\ s.dirty = r.dirty /\ s.snapDirty = r.snapDirty /\ r.clock \in Nat /\ r.snapDirty \in BOOLEAN
  BY <1>1, <1>2, <1>3 DEF WsRow, SameSession
<1>5. DeviceInv(d, r, wire[d], hubws)
  BY <1>1, <1>3
<1>6. Moved(r, s)
  BY <1>4, <1>5 DEF Moved, SameSession, DeviceInv
<1>7. CASE ws' = [ws EXCEPT ![d] = Flushed(s)] /\ wire' = Outgoing(s, d) /\ UNCHANGED spent
  <2>1. PICK q : q = Flushed(s)
    OBVIOUS
  <2>2. /\ q \in WsRow /\ SameSession(s, q) /\ q.queue = s.queue /\ q.clock \in Nat
    BY <1>4, <2>1, FlushedRow DEF WsRow
  <2>3. q.snapDirty \in BOOLEAN
    BY <2>2 DEF WsRow
  <2>4. Moved(q, q)
    BY <1>4, <1>5, <2>2, <2>3 DEF Moved, SameSession, DeviceInv
  <2>5. ws' = [ws EXCEPT ![d] = q] /\ UNCHANGED hubws /\ spent' \in Spending
    BY <1>1, <1>7, <2>1, SpendType DEF PublishTimer
  <2> QED BY <1>3, <1>4, <1>6, <1>7, <2>1, <2>2, <2>4, <2>5, FlushStep
<1>8. CASE Spend("seals") /\ ws' = [ws EXCEPT ![d] = SealFailed(s)] /\ UNCHANGED wire
  <2>1. PICK q : q = SealFailed(s)
    OBVIOUS
  <2>2. /\ q \in WsRow /\ SameSession(s, q) /\ q.store = s.store /\ q.clock = s.clock /\ q.queue = s.queue
        /\ q.dirty = s.dirty /\ q.snapDirty = s.snapDirty
    BY <1>4, <2>1 DEF SealFailed, WsRow, SameSession
  <2>3. Moved(r, q)
    BY <1>4, <1>5, <2>2 DEF Moved, SameSession, DeviceInv
  <2>4. ws' = [ws EXCEPT ![d] = q] /\ UNCHANGED <<wire, hubws>> /\ spent' \in Spending
    BY <1>1, <1>8, <2>1, SpendType DEF PublishTimer
  <2> QED BY <1>3, <2>2, <2>3, <2>4, MovedStep
<1> QED BY <1>2, <1>7, <1>8 DEF PublishTimer

(* A remote bundle goes into the store: its settings are known already,    *)
(* and a device's own come back no newer than they are.                    *)
LEMMA RunDocsKeeps ==
  ASSUME WsInv, NEW d \in Devices, RunDocs(d)
  PROVE  WsInv'
<1>1. /\ ws \in [Devices -> WsRow] /\ wire \in [Devices -> WireRow] /\ hubws \in Bundle /\ WsTypeOK
      /\ DeviceInv(d, ws[d], wire[d], hubws)
  BY TypesOfState DEF WsInv
<1>2. PICK s, docs, r : s = ws[d] /\ docs = Head(s.queue).docs /\ r = Done(HandleRemoteDocs(s, d, docs))
  OBVIOUS
<1>3. /\ ws' = [ws EXCEPT ![d] = r] /\ UNCHANGED <<hubws, wire>> /\ spent' \in Spending
      /\ s.queue # <<>> /\ Head(s.queue).t = "docs"
  BY <1>1, <1>2, SpendType DEF RunDocs, Busy
<1>4. s \in WsRow /\ s.queue \in Seq(Task) /\ DeviceInv(d, s, wire[d], hubws)
  BY <1>1, <1>2 DEF WsRow
<1>5. docs \in DocsIn(s.queue)
  <2>1. 1 \in DOMAIN s.queue /\ Head(s.queue) = s.queue[1]
    BY <1>3, <1>4
  <2> QED BY <1>2, <1>3, <2>1 DEF DocsIn
<1>6. ASSUME NEW k \in Globals
      PROVE  /\ docs.regs[k].hlc = s.store[k].hlc => docs.regs[k] = s.store[k]
             /\ docs.regs[k] = NoReg \/ docs.regs[k].hlc[2] # 0
             /\ docs.regs[k].hlc[2] = d => Upto(docs.regs[k], s.store[k])
  <2>1. PICK x, y : x = docs.regs[k] /\ y = s.store[k]
    OBVIOUS
  <2>2. x \in Reg /\ y \in Reg
    <3>1. docs \in Bundle
      BY <1>4, <1>5, QueueTypes
    <3> QED BY <1>4, <2>1, <3>1, BundleTypes DEF WsRow, Keys
  <2>3. Known(k, x) /\ Known(k, y)
    BY <1>2, <1>5, <2>1 DEF Known, Has
  <2>4. x.hlc = y.hlc => x = y
    BY <2>2, <2>3 DEF WsInv, StampsUnique
  <2>5. x = NoReg \/ x.hlc[2] # 0
    BY <2>2, <2>3 DEF WsInv, OwnIsOlder
  <2>6. x.hlc[2] = d => Upto(x, y)
    BY <1>2, <2>1, <2>2, <2>3 DEF WsInv, OwnIsOlder
  <2> QED BY <2>1, <2>4, <2>5, <2>6
<1>7. /\ DeviceInv(d, r, wire[d], hubws)
      /\ \A k \in Globals : /\ Upto(s.store[k], r.store[k])
                            /\ \A x \in Reg : Has(r, wire[d], k, x) => Has(s, wire[d], k, x)
  <2>1. \A k \in Globals : LET x == Head(s.queue).docs.regs[k] IN
          /\ x.hlc = s.store[k].hlc => x = s.store[k]
          /\ x = NoReg \/ x.hlc[2] # 0
          /\ x.hlc[2] = d => Upto(x, s.store[k])
    BY <1>2, <1>6
  <2>2. PICK w : w = wire[d]
    OBVIOUS
  <2>3. DeviceInv(d, s, w, hubws)
    BY <1>4, <2>2
  <2>4. r = Done(HandleRemoteDocs(s, d, Head(s.queue).docs))
    BY <1>2
  <2>5. /\ DeviceInv(d, r, w, hubws)
        /\ \A k \in Globals : /\ Upto(s.store[k], r.store[k])
                              /\ \A x \in Reg : Has(r, w, k, x) => Has(s, w, k, x)
    BY <1>1, <1>3, <2>1, <2>3, <2>4, HandledKeeps
  <2> QED BY <2>2, <2>5
<1>8. ASSUME NEW k \in Globals
      PROVE  /\ Upto(ws[d].store[k], r.store[k])
             /\ \A x \in Reg : Has(r, wire[d], k, x) =>
                  \/ Known(k, x) \/ x = NoReg
                  \/ (x = r.store[k] /\ x.hlc = <<ws[d].clock + 1, d>>)
  BY <1>2, <1>7 DEF Known
<1>9. PICK w : w = wire[d]
  OBVIOUS
<1>10. wire' = [wire EXCEPT ![d] = w]
  BY <1>1, <1>3, <1>9
<1>11. /\ DeviceInv(d, r, w, hubws)
       /\ ws' = [ws EXCEPT ![d] = r] /\ UNCHANGED hubws
       /\ spent' \in [edits : Nat, syncs : Nat, drops : Nat, restarts : Nat, seals : Nat]
       /\ \A k \in Globals :
            /\ Upto(ws[d].store[k], r.store[k])
            /\ \A x \in Reg : Has(r, w, k, x) =>
                 \/ Known(k, x) \/ x = NoReg
                 \/ (x = r.store[k] /\ x.hlc = <<ws[d].clock + 1, d>>)
  BY <1>3, <1>7, <1>8, <1>9 DEF Spending
<1> QED BY <1>10, <1>11, LocalStep

(* A task that is not a bundle, done or replaced by another.               *)
LEMMA QuietTail ==
  ASSUME NEW q \in Seq(Task), q # <<>>, Head(q).t # "docs", FencesReady(q)
  PROVE  /\ DocsIn(Tail(q)) = DocsIn(q) /\ FencesReady(Tail(q))
         /\ Hydrating(q) => Hydrating(Tail(q)) \/ Head(q).t \in {"hydrated", "bootFence"}
<1>1. /\ DocsIn(q) = DocsIn(Tail(q)) \union (IF Head(q).t = "docs" THEN {Head(q).docs} ELSE {})
      /\ Fences(q) = Fences(Tail(q)) \union (IF Head(q).t = "syncFence" THEN {Head(q)} ELSE {})
      /\ Hydrating(q) <=> Hydrating(Tail(q)) \/ Head(q).t \in {"hydrated", "bootFence"}
  BY QueueTail
<1>2. \A f \in Fences(Tail(q)) : f \in Fences(q)
  BY <1>1
<1> QED BY <1>1, <1>2 DEF FencesReady

LEMMA QuietReplaced ==
  ASSUME NEW q \in Seq(Task), q # <<>>, Head(q).t # "docs", FencesReady(q),
         NEW x \in Task, x.t # "docs", x.t = "syncFence" => x.keys # {} /\ \A t \in x.keys : x.target[t] # NoReg
  PROVE  LET r == <<x>> \o Tail(q) IN
         /\ DocsIn(r) = DocsIn(q) /\ FencesReady(r)
         /\ Hydrating(r) <=> Hydrating(Tail(q)) \/ x.t \in {"hydrated", "bootFence"}
         /\ Hydrating(q) => Hydrating(Tail(q)) \/ Head(q).t \in {"hydrated", "bootFence"}
<1>1. PICK p : p = Tail(q)
  OBVIOUS
<1>2. /\ p \in Seq(Task) /\ DocsIn(p) = DocsIn(q) /\ FencesReady(p)
      /\ Hydrating(q) => Hydrating(p) \/ Head(q).t \in {"hydrated", "bootFence"}
  BY <1>1, QuietTail
<1>3. /\ <<x>> \in Seq(Task)
      /\ DocsIn(<<x>>) = (IF x.t = "docs" THEN {x.docs} ELSE {})
      /\ Fences(<<x>>) = (IF x.t = "syncFence" THEN {x} ELSE {})
      /\ Hydrating(<<x>>) <=> x.t \in {"hydrated", "bootFence"}
  BY QueueOfOne
<1>4. PICK r : r = <<x>> \o p
  OBVIOUS
<1>5. /\ DocsIn(r) = DocsIn(<<x>>) \union DocsIn(p)
      /\ Fences(r) = Fences(<<x>>) \union Fences(p)
      /\ Hydrating(r) <=> Hydrating(<<x>>) \/ Hydrating(p)
  BY <1>2, <1>3, <1>4, QueueConcat
<1>6. \A f \in Fences(r) : f \in Fences(p) \/ (f = x /\ x.t = "syncFence")
  BY <1>3, <1>5
<1>7. FencesReady(r)
  BY <1>2, <1>6 DEF FencesReady
<1> QED BY <1>1, <1>2, <1>3, <1>4, <1>5, <1>7

(* The end of a hydration marks the whole metadata and the restore point.  *)
LEMMA RunHydratedKeeps ==
  ASSUME WsInv, NEW d \in Devices, RunHydrated(d)
  PROVE  WsInv'
<1>1. /\ ws \in [Devices -> WsRow] /\ ws[d] \in WsRow /\ DeviceInv(d, ws[d], wire[d], hubws) /\ WsTypeOK
  BY TypesOfState DEF WsInv
<1>2. PICK r, p, s : r = ws[d] /\ p = [r EXCEPT !.ready = TRUE] /\ s = Inherited(p, d)
  OBVIOUS
<1>3. /\ r \in WsRow /\ r.clock \in Nat /\ r.queue \in Seq(Task) /\ r.queue # <<>> /\ Head(r.queue).t = "hydrated"
      /\ FencesReady(r.queue) /\ (r.initialized => ~r.inherit)
  BY <1>1, <1>2 DEF WsRow, RunHydrated, Busy, DeviceInv
<1>4. /\ p \in WsRow /\ p.store = r.store /\ p.clock = r.clock /\ p.queue = r.queue /\ p.snaps = r.snaps
      /\ p.dirty = r.dirty /\ p.initialized = r.initialized /\ p.inherit = r.inherit
  BY <1>2, <1>3 DEF WsRow
<1>5. /\ s \in WsRow /\ SameSession(p, s)
      /\ \A k \in Globals : s.store[k] = p.store[k]
      /\ s.clock = p.clock /\ s.queue = p.queue /\ s.dirty = p.dirty
  BY <1>2, <1>4, InheritedRow
<1>6. /\ \A k \in Globals : s.store[k] = r.store[k]
      /\ s.clock = r.clock /\ s.queue = r.queue /\ s.dirty = r.dirty /\ s.snaps = r.snaps
      /\ s.initialized = r.initialized /\ s.inherit = r.inherit
  BY <1>4, <1>5 DEF SameSession
<1>7. CASE ws' = [ws EXCEPT ![d] = HeadBecomes(s, [t |-> "bootFence"])]
  <2>1. PICK x, q : x = [t |-> "bootFence"] /\ q = HeadBecomes(s, x)
    OBVIOUS
  <2>2. x \in Task /\ x.t = "bootFence"
    BY <2>1 DEF Task
  <2>3. q \in WsRow /\ SameButQueue(s, q) /\ q.queue = <<x>> \o Tail(s.queue)
    BY <1>3, <1>5, <1>6, <2>1, <2>2, HeadBecomesRow
  <2>4. DocsIn(q.queue) = DocsIn(r.queue) /\ FencesReady(q.queue) /\ Hydrating(q.queue)
    BY <1>3, <1>6, <2>2, <2>3, QuietReplaced
  <2>5. Moved(r, q)
    BY <1>3, <1>6, <2>3, <2>4 DEF Moved, SameButQueue, SameSession
  <2>6. ws' = [ws EXCEPT ![d] = q] /\ UNCHANGED <<wire, hubws>> /\ spent' \in Spending
    BY <1>1, <1>7, <2>1, SpendType DEF RunHydrated
  <2> QED BY <1>2, <2>3, <2>5, <2>6, MovedStep
<1>8. CASE ws' = [ws EXCEPT ![d] = Hydrated(s)]
  <2>1. PICK q : q = Hydrated(s)
    OBVIOUS
  <2>2. /\ q \in WsRow /\ q.queue = Tail(s.queue) /\ q.store = s.store /\ q.clock = s.clock
        /\ q.snaps = s.snaps /\ ~q.inherit /\ q.snapDirty
        /\ \A k \in Globals : s.store[k] # NoReg => k \in q.dirty
    BY <1>3, <1>5, <1>6, <2>1, HydratedRow
  <2>3. DocsIn(q.queue) = DocsIn(r.queue) /\ FencesReady(q.queue)
    BY <1>3, <1>6, <2>2, QuietTail
  <2>4. \A k \in Globals : k \in s.dirty => k \in q.dirty
    BY <2>1, <1>5 DEF Hydrated, Done, WsRow
  <2>5. Moved(r, q)
    BY <1>3, <1>6, <2>2, <2>3, <2>4 DEF Moved
  <2>6. ws' = [ws EXCEPT ![d] = q] /\ UNCHANGED <<wire, hubws>> /\ spent' \in Spending
    BY <1>1, <1>8, <2>1, SpendType DEF RunHydrated
  <2> QED BY <1>2, <2>2, <2>5, <2>6, MovedStep
<1>9. /\ \/ ws' = [ws EXCEPT ![d] = HeadBecomes(s, [t |-> "bootFence"])]
         \/ ws' = [ws EXCEPT ![d] = Hydrated(s)]
  BY <1>2 DEF RunHydrated
<1> QED BY <1>7, <1>8, <1>9

(* The fence of the first publication, opened or not.                      *)
LEMMA BootFenceKeeps ==
  ASSUME WsInv, NEW d \in Devices, NEW opened \in BOOLEAN, BootFence(d, opened)
  PROVE  WsInv'
<1>1. /\ ws \in [Devices -> WsRow] /\ ws[d] \in WsRow /\ DeviceInv(d, ws[d], wire[d], hubws) /\ WsTypeOK
  BY TypesOfState DEF WsInv
<1>2. PICK s, keys, stamped : /\ s = ws[d] /\ keys = {t \in Tabs : s.store[t] # NoReg}
                             /\ stamped = PublishAttachmentRegisters(s, d, keys)
  OBVIOUS
<1>3. /\ s \in WsRow /\ s.clock \in Nat /\ s.queue \in Seq(Task) /\ s.queue # <<>> /\ Head(s.queue).t = "bootFence"
      /\ FencesReady(s.queue) /\ (s.initialized => ~s.inherit) /\ keys \in SUBSET Tabs
  BY <1>1, <1>2 DEF WsRow, BootFence, Busy, DeviceInv
<1>4. CASE opened
  <2>1. PICK r : r = [stamped EXCEPT !.remote = AttachmentRegisters(stamped.store), !.seen = TRUE,
                                     !.dirty = @ \union keys]
    OBVIOUS
  <2>2. /\ stamped \in WsRow /\ SameSession(s, stamped)
        /\ \A k \in Globals : stamped.store[k] = s.store[k]
        /\ \A t \in Tabs : stamped.store[t].doc = s.store[t].doc
        /\ stamped.clock = s.clock + 1 /\ stamped.queue = s.queue /\ stamped.dirty = s.dirty
    BY <1>2, <1>3, PublishedRow
  <2>3. AttachmentRegisters(stamped.store) \in TabRegs
    BY <2>2 DEF AttachmentRegisters, WsRow, TabRegs, Keys
  <2>4. /\ r \in WsRow /\ r.store = stamped.store /\ r.clock = stamped.clock /\ r.queue = stamped.queue
        /\ r.snaps = stamped.snaps /\ r.initialized = stamped.initialized /\ r.inherit = stamped.inherit
        /\ r.dirty = stamped.dirty \union keys
    <3>1. stamped.dirty \union keys \in SUBSET Keys
      BY <1>3, <2>2 DEF WsRow, Keys
    <3> QED BY <2>1, <2>2, <2>3, <3>1 DEF WsRow
  <2>5. Hydrating(s.queue)
    <3>1. 1 \in DOMAIN s.queue /\ s.queue[1].t = "bootFence"
      BY <1>3
    <3> QED BY <3>1 DEF Hydrating
  <2>6. Moved(s, r)
    <3>1. r.clock >= s.clock /\ r.snaps = s.snaps /\ r.queue = s.queue
      BY <1>3, <2>2, <2>4 DEF SameSession
    <3> QED BY <1>3, <2>2, <2>4, <2>5, <3>1 DEF Moved, SameSession
  <2>7. PICK f, q : f = Flushed(r) /\ q = Hydrated(f)
    OBVIOUS
  <2>8. /\ f \in WsRow /\ f.queue = s.queue /\ f.dirty = {} /\ f.clock \in Nat
    BY <2>2, <2>4, <2>7, FlushedRow DEF WsRow
  <2>9. /\ q \in WsRow /\ q.queue = Tail(f.queue) /\ q.store = f.store /\ q.clock = f.clock
        /\ q.snaps = f.snaps /\ ~q.inherit /\ q.snapDirty
        /\ \A k \in Globals : f.store[k] # NoReg => k \in q.dirty
    BY <1>3, <2>7, <2>8, HydratedRow
  <2>10. DocsIn(q.queue) = DocsIn(f.queue) /\ FencesReady(q.queue)
    BY <1>3, <2>8, <2>9, QuietTail
  <2>11. Moved(f, q)
    BY <2>8, <2>9, <2>10 DEF Moved
  <2>12. ws' = [ws EXCEPT ![d] = q] /\ wire' = Outgoing(r, d) /\ UNCHANGED hubws /\ spent' \in Spending
    BY <1>1, <1>2, <1>4, <2>1, <2>7, SpendType DEF BootFence
  <2> QED BY <1>2, <2>4, <2>6, <2>7, <2>9, <2>11, <2>12, FlushStep
<1>5. CASE ~opened
  <2>1. PICK q : q = Hydrated(s)
    OBVIOUS
  <2>2. /\ q \in WsRow /\ q.queue = Tail(s.queue) /\ q.store = s.store /\ q.clock = s.clock
        /\ q.snaps = s.snaps /\ ~q.inherit /\ q.snapDirty
        /\ \A k \in Globals : s.store[k] # NoReg => k \in q.dirty
    BY <1>3, <2>1, HydratedRow
  <2>3. DocsIn(q.queue) = DocsIn(s.queue) /\ FencesReady(q.queue)
    BY <1>3, <2>2, QuietTail
  <2>4. \A k \in Globals : k \in s.dirty => k \in q.dirty
    BY <2>1, <1>3 DEF Hydrated, Done, WsRow
  <2>5. Moved(s, q)
    BY <1>3, <2>2, <2>3, <2>4 DEF Moved
  <2>6. ws' = [ws EXCEPT ![d] = q] /\ UNCHANGED <<wire, hubws>> /\ spent' \in Spending
    BY <1>1, <1>2, <1>5, <2>1, SpendType DEF BootFence
  <2> QED BY <1>2, <2>2, <2>5, <2>6, MovedStep
<1> QED BY <1>4, <1>5

(* A sync the user asked for waits its turn.                               *)
LEMMA AskSyncKeeps ==
  ASSUME WsInv, NEW d \in Devices, NEW mode \in {"pull", "push", "merge"}, NEW from \in Devices \union {0},
         AskSync(d, mode, from)
  PROVE  WsInv'
<1>1. /\ ws \in [Devices -> WsRow] /\ ws[d] \in WsRow /\ DeviceInv(d, ws[d], wire[d], hubws) /\ WsTypeOK
  BY TypesOfState DEF WsInv
<1>2. PICK s, p, x : s = ws[d] /\ p = s.queue /\ x = [t |-> "sync", mode |-> mode, from |-> from]
  OBVIOUS
<1>3. /\ s \in WsRow /\ p \in Seq(Task) /\ x \in Task /\ x.t = "sync" /\ s.clock \in Nat /\ s.snapDirty \in BOOLEAN
      /\ FencesReady(p) /\ (s.initialized => ~s.inherit)
  BY <1>1, <1>2 DEF WsRow, Task, DeviceInv
<1>4. PICK q : q = Append(p, x)
  OBVIOUS
<1>12. PICK u : u = <<x>>
  OBVIOUS
<1>5. q \in Seq(Task) /\ q = p \o u
  BY <1>3, <1>4, <1>12
<1>6. u \in Seq(Task) /\ DocsIn(u) = {} /\ Fences(u) = {} /\ ~Hydrating(u)
  BY <1>3, <1>12, QueueOfOne
<1>7. DocsIn(q) = DocsIn(p) /\ Fences(q) = Fences(p) /\ (Hydrating(q) <=> Hydrating(p))
  <2>1. /\ DocsIn(q) = DocsIn(p) \union DocsIn(u)
        /\ Fences(q) = Fences(p) \union Fences(u)
        /\ Hydrating(q) <=> Hydrating(p) \/ Hydrating(u)
    BY <1>3, <1>5, <1>6, QueueConcat
  <2>2. DocsIn(p) \union {} = DocsIn(p) /\ Fences(p) \union {} = Fences(p)
    OBVIOUS
  <2> QED BY <1>6, <2>1, <2>2, Zenon
<1>8. PICK r : r = [s EXCEPT !.queue = q]
  OBVIOUS
<1>9. /\ r \in WsRow /\ SameButQueue(s, r) /\ r.queue = q
  BY <1>3, <1>5, <1>8 DEF WsRow, SameButQueue, SameSession
<1>10. Moved(s, r)
  <2>1. FencesReady(q)
    BY <1>3, <1>7 DEF FencesReady
  <2>2. r.clock >= s.clock /\ (r.snapDirty \/ ~s.snapDirty)
    BY <1>3, <1>9 DEF SameButQueue
  <2> QED BY <1>2, <1>3, <1>7, <1>9, <2>1, <2>2 DEF Moved, SameButQueue, SameSession
<1>11. ws' = [ws EXCEPT ![d] = r] /\ UNCHANGED <<wire, hubws>> /\ spent' \in Spending
  BY <1>1, <1>2, <1>4, <1>8, SpendType DEF AskSync
<1> QED BY <1>2, <1>9, <1>10, <1>11, MovedStep

(* A sync moves tabs only, and marks the restore point.                    *)
LEMMA RunSyncKeeps ==
  ASSUME WsInv, NEW d \in Devices, RunSync(d)
  PROVE  WsInv'
<1>1. /\ ws \in [Devices -> WsRow] /\ ws[d] \in WsRow /\ DeviceInv(d, ws[d], wire[d], hubws) /\ WsTypeOK
  BY TypesOfState DEF WsInv
<1>2. PICK s, op : s = ws[d] /\ op = Head(s.queue)
  OBVIOUS
<1>3. /\ s \in WsRow /\ s.clock \in Nat /\ s.queue \in Seq(Task) /\ s.queue # <<>> /\ op.t = "sync"
      /\ FencesReady(s.queue) /\ (s.initialized => ~s.inherit) /\ s.snapDirty \in BOOLEAN
  BY <1>1, <1>2 DEF WsRow, RunSync, Busy, DeviceInv
<1>4. op.mode \in {"pull", "push", "merge"} /\ op.from \in Devices \union {0}
  <2>1. op \in Task
    BY <1>2, <1>3
  <2> QED BY <1>3, <2>1 DEF Task
<1>5. PICK local, remote : /\ local = AttachmentRegisters(s.store)
                          /\ remote = IF op.from = 0 THEN s.remote ELSE s.snaps[op.from].regs
  OBVIOUS
<1>6. local \in TabRegs /\ remote \in TabRegs
  <2>1. local \in TabRegs
    BY <1>3, <1>5 DEF AttachmentRegisters, WsRow, TabRegs, Keys
  <2>2. s.remote \in TabRegs /\ \A e \in Devices : s.snaps[e].regs \in TabRegs
    BY <1>3 DEF WsRow, TabRegs, Snap
  <2> QED BY <1>4, <1>5, <2>1, <2>2
<1>7. PICK target, keys : target = Target(op.mode, local, remote) /\ keys = PublishKeys(op.mode, local, remote)
  OBVIOUS
<1>8. /\ target \in TabRegs /\ keys \in SUBSET Tabs /\ (op.mode = "pull" => keys = {})
      /\ \A t \in keys : target[t] # NoReg
  BY <1>4, <1>6, <1>7, TargetType
<1>9. /\ UNCHANGED <<wire, hubws>> /\ spent' \in Spending
      /\ \/ ws' = [ws EXCEPT ![d] = Done(s)]
         \/ /\ keys # {}
            /\ ws' = [ws EXCEPT ![d] = HeadBecomes(s, [t |-> "syncFence", mode |-> op.mode, target |-> target, keys |-> keys])]
         \/ ws' = [ws EXCEPT ![d] = Finished(Installed(s, op.mode, target))]
         \/ ws' = [ws EXCEPT ![d] = Finished(ReplaceAttachmentRegisters(s, target))]
  <2>1. UNCHANGED <<wire, hubws>> /\ spent' \in Spending
    BY <1>1, SpendType DEF RunSync
  <2>2. ws' = [ws EXCEPT ![d] =
           CASE ~s.ready \/ (op.from # 0 /\ s.snaps[op.from] = NoSnap) -> Done(s)
             [] s.ready /\ op.from = 0 /\ keys # {} ->
                  HeadBecomes(s, [t |-> "syncFence", mode |-> op.mode, target |-> target, keys |-> keys])
             [] s.ready /\ op.from = 0 /\ keys = {} -> Finished(Installed(s, op.mode, target))
             [] OTHER -> Finished(ReplaceAttachmentRegisters(s, target))]
    BY <1>2, <1>5, <1>7 DEF RunSync
  <2> QED BY <2>1, <2>2
<1>10. CASE ws' = [ws EXCEPT ![d] = Done(s)]
  <2>1. PICK q : q = Done(s)
    OBVIOUS
  <2>2. q \in WsRow /\ SameButQueue(s, q) /\ q.queue = Tail(s.queue)
    BY <1>3, <2>1, DoneRow
  <2>3. /\ DocsIn(q.queue) = DocsIn(s.queue) /\ FencesReady(q.queue)
        /\ Hydrating(s.queue) => Hydrating(q.queue)
    BY <1>2, <1>3, <2>2, QuietTail
  <2>4. Moved(s, q)
    <3>1. q.clock >= s.clock /\ (q.snapDirty \/ ~s.snapDirty)
      BY <1>3, <2>2 DEF SameButQueue
    <3> QED BY <1>3, <2>2, <2>3, <3>1 DEF Moved, SameButQueue, SameSession
  <2>5. ws' = [ws EXCEPT ![d] = q]
    BY <1>10, <2>1
  <2> QED BY <1>2, <1>9, <2>2, <2>4, <2>5, MovedStep
<1>11. CASE /\ keys # {}
            /\ ws' = [ws EXCEPT ![d] = HeadBecomes(s, [t |-> "syncFence", mode |-> op.mode, target |-> target, keys |-> keys])]
  <2>1. PICK x, q : x = [t |-> "syncFence", mode |-> op.mode, target |-> target, keys |-> keys] /\ q = HeadBecomes(s, x)
    OBVIOUS
  <2>2. op.mode \in {"push", "merge"}
    BY <1>4, <1>8, <1>11
  <2>3. x \in Task /\ x.t = "syncFence" /\ x.keys = keys /\ x.target = target
    BY <1>8, <2>1, <2>2 DEF Task, TabRegs
  <2>4. q \in WsRow /\ SameButQueue(s, q) /\ q.queue = <<x>> \o Tail(s.queue)
    BY <1>3, <2>1, <2>3, HeadBecomesRow
  <2>5. /\ DocsIn(q.queue) = DocsIn(s.queue) /\ FencesReady(q.queue)
        /\ Hydrating(s.queue) => Hydrating(q.queue)
    BY <1>2, <1>3, <1>8, <1>11, <2>3, <2>4, QuietReplaced
  <2>6. Moved(s, q)
    <3>1. q.clock >= s.clock /\ (q.snapDirty \/ ~s.snapDirty)
      BY <1>3, <2>4 DEF SameButQueue
    <3> QED BY <1>3, <2>4, <2>5, <3>1 DEF Moved, SameButQueue, SameSession
  <2>7. ws' = [ws EXCEPT ![d] = q]
    BY <1>11, <2>1
  <2> QED BY <1>2, <1>9, <2>4, <2>6, <2>7, MovedStep
<1>12. ASSUME NEW p \in WsRow, SameSession(s, p), \A k \in Globals : p.store[k] = s.store[k],
              p.clock = s.clock, p.queue = s.queue, p.dirty = s.dirty, ws' = [ws EXCEPT ![d] = Finished(p)]
       PROVE  WsInv'
  <2>1. PICK q : q = Finished(p)
    OBVIOUS
  <2>2. /\ q \in WsRow /\ SameSession(p, q) /\ q.queue = Tail(p.queue) /\ q.store = p.store
        /\ q.clock = p.clock /\ q.dirty = p.dirty /\ q.snapDirty
    BY <1>3, <1>12, <2>1, FinishedRow
  <2>3. /\ DocsIn(q.queue) = DocsIn(s.queue) /\ FencesReady(q.queue)
        /\ Hydrating(s.queue) => Hydrating(q.queue)
    BY <1>2, <1>3, <1>12, <2>2, QuietTail
  <2>4. Moved(s, q)
    BY <1>3, <1>12, <2>2, <2>3 DEF Moved, SameSession
  <2>5. ws' = [ws EXCEPT ![d] = q]
    BY <1>12, <2>1
  <2> QED BY <1>2, <1>9, <2>2, <2>4, <2>5, MovedStep
<1>13. CASE ws' = [ws EXCEPT ![d] = Finished(Installed(s, op.mode, target))]
  <2>1. PICK p : p = Installed(s, op.mode, target)
    OBVIOUS
  <2>2. /\ p \in WsRow /\ SameSession(s, p)
        /\ \A k \in Globals : p.store[k] = s.store[k]
        /\ p.clock = s.clock /\ p.queue = s.queue /\ p.dirty = s.dirty
    BY <1>3, <1>8, <2>1, InstalledRow
  <2> QED BY <1>12, <1>13, <2>1, <2>2
<1>14. CASE ws' = [ws EXCEPT ![d] = Finished(ReplaceAttachmentRegisters(s, target))]
  <2>1. PICK p : p = ReplaceAttachmentRegisters(s, target)
    OBVIOUS
  <2>2. /\ p \in WsRow /\ SameSession(s, p)
        /\ \A k \in Keys : p.store[k] = IF k \in Tabs THEN target[k] ELSE s.store[k]
        /\ p.clock = s.clock /\ p.queue = s.queue /\ p.dirty = s.dirty
    BY <1>3, <1>8, <2>1, ReplacedRow
  <2>3. \A k \in Globals : p.store[k] = s.store[k]
    BY <2>2, WsAssumption DEF Keys
  <2> QED BY <1>12, <1>14, <2>1, <2>2, <2>3
<1> QED BY <1>9, <1>10, <1>11, <1>13, <1>14

(* The fence of a sync: with no answer nothing changes.                    *)
LEMMA SyncFenceKeeps ==
  ASSUME WsInv, NEW d \in Devices, NEW opened \in BOOLEAN, SyncFence(d, opened)
  PROVE  WsInv'
<1>1. /\ ws \in [Devices -> WsRow] /\ ws[d] \in WsRow /\ DeviceInv(d, ws[d], wire[d], hubws) /\ WsTypeOK
  BY TypesOfState DEF WsInv
<1>2. PICK s, op : s = ws[d] /\ op = Head(s.queue)
  OBVIOUS
<1>3. /\ s \in WsRow /\ s.clock \in Nat /\ s.queue \in Seq(Task) /\ s.queue # <<>> /\ op.t = "syncFence"
      /\ FencesReady(s.queue) /\ (s.initialized => ~s.inherit) /\ s.snapDirty \in BOOLEAN
  BY <1>1, <1>2 DEF WsRow, SyncFence, Busy, DeviceInv
<1>4. /\ op.target \in TabRegs /\ op.keys \in SUBSET Tabs
      /\ op.keys # {} /\ \A t \in op.keys : op.target[t] # NoReg
  <2>1. op \in Fences(s.queue)
    <3>1. 1 \in DOMAIN s.queue /\ op = s.queue[1]
      BY <1>2, <1>3
    <3> QED BY <1>3, <3>1 DEF Fences
  <2> QED BY <1>3, <2>1, QueueTypes DEF FencesReady
<1>5. PICK p, stamped : p = Installed(s, op.mode, op.target) /\ stamped = PublishAttachmentRegisters(p, d, op.keys)
  OBVIOUS
<1>6. /\ p \in WsRow /\ SameSession(s, p)
      /\ \A k \in Globals : p.store[k] = s.store[k]
      /\ \A t \in Tabs : p.store[t] = op.target[t]
      /\ p.clock = s.clock /\ p.queue = s.queue /\ p.dirty = s.dirty
  BY <1>3, <1>4, <1>5, InstalledRow
<1>7. /\ stamped \in WsRow /\ SameSession(p, stamped)
      /\ \A k \in Globals : stamped.store[k] = p.store[k]
      /\ stamped.clock = p.clock + 1 /\ stamped.queue = p.queue /\ stamped.dirty = p.dirty
      /\ stamped.snapDirty = (p.snapDirty \/ \E t \in op.keys : p.store[t] # NoReg)
  BY <1>4, <1>5, <1>6, PublishedRow
<1>8. PICK r : r = [stamped EXCEPT !.dirty = @ \union op.keys]
  OBVIOUS
<1>9. /\ r \in WsRow /\ SameSession(stamped, r) /\ r.store = stamped.store /\ r.clock = stamped.clock
      /\ r.queue = stamped.queue /\ r.dirty = stamped.dirty \union op.keys /\ r.snapDirty = stamped.snapDirty
  <2>1. stamped.dirty \union op.keys \in SUBSET Keys
    BY <1>4, <1>7 DEF WsRow, Keys
  <2> QED BY <1>7, <1>8, <2>1 DEF WsRow, SameSession
<1>10. r.snapDirty
  <2>1. \E t \in op.keys : p.store[t] # NoReg
    BY <1>4, <1>6
  <2> QED BY <1>7, <1>9, <2>1, Zenon
<1>11. /\ r.queue = s.queue /\ SameSession(s, r) /\ (\A k \in Globals : r.store[k] = s.store[k])
       /\ r.clock >= s.clock /\ \A k \in Globals : k \in s.dirty => k \in r.dirty
  BY <1>3, <1>6, <1>7, <1>9 DEF SameSession
<1>12. Moved(s, r)
  BY <1>3, <1>10, <1>11 DEF Moved, SameSession
<1>13. UNCHANGED hubws /\ spent' \in Spending
  BY <1>1, SpendType DEF SyncFence
<1>14. \/ ws' = [ws EXCEPT ![d] = Done(s)] /\ UNCHANGED wire
       \/ ws' = [ws EXCEPT ![d] = Finished(Flushed(r))] /\ wire' = Outgoing(r, d)
       \/ ws' = [ws EXCEPT ![d] = Done(SealFailed(r))] /\ UNCHANGED wire
  BY <1>1, <1>2, <1>5, <1>8 DEF SyncFence
<1>15. CASE ws' = [ws EXCEPT ![d] = Done(s)] /\ UNCHANGED wire
  <2>1. PICK q : q = Done(s)
    OBVIOUS
  <2>2. q \in WsRow /\ SameButQueue(s, q) /\ q.queue = Tail(s.queue)
    BY <1>3, <2>1, DoneRow
  <2>3. /\ DocsIn(q.queue) = DocsIn(s.queue) /\ FencesReady(q.queue)
        /\ Hydrating(s.queue) => Hydrating(q.queue)
    BY <1>2, <1>3, <2>2, QuietTail
  <2>4. Moved(s, q)
    <3>1. q.clock >= s.clock /\ (q.snapDirty \/ ~s.snapDirty)
      BY <1>3, <2>2 DEF SameButQueue
    <3> QED BY <1>3, <2>2, <2>3, <3>1 DEF Moved, SameButQueue, SameSession
  <2>5. ws' = [ws EXCEPT ![d] = q] /\ UNCHANGED <<wire, hubws>>
    BY <1>13, <1>15, <2>1
  <2> QED BY <1>2, <1>13, <2>2, <2>4, <2>5, MovedStep
<1>16. CASE ws' = [ws EXCEPT ![d] = Finished(Flushed(r))] /\ wire' = Outgoing(r, d)
  <2>1. PICK f, q : f = Flushed(r) /\ q = Finished(f)
    OBVIOUS
  <2>2. f \in WsRow /\ SameSession(r, f) /\ f.queue = r.queue /\ f.clock \in Nat
    BY <1>9, <2>1, FlushedRow DEF WsRow
  <2>3. /\ q \in WsRow /\ SameSession(f, q) /\ q.queue = Tail(f.queue) /\ q.store = f.store
        /\ q.clock = f.clock /\ q.dirty = f.dirty /\ q.snapDirty
    BY <1>3, <1>11, <2>1, <2>2, FinishedRow
  <2>4. /\ DocsIn(q.queue) = DocsIn(f.queue) /\ FencesReady(q.queue)
        /\ Hydrating(f.queue) => Hydrating(q.queue)
    BY <1>2, <1>3, <1>11, <2>2, <2>3, QuietTail
  <2>5. q.initialized => ~q.inherit
    BY <1>3, <1>11, <2>2, <2>3 DEF SameSession
  <2>6. Moved(f, q)
    BY <2>2, <2>3, <2>4, <2>5 DEF Moved, SameSession
  <2>7. ws' = [ws EXCEPT ![d] = q]
    BY <1>16, <2>1
  <2> QED BY <1>2, <1>9, <1>12, <1>13, <1>16, <2>1, <2>3, <2>6, <2>7, FlushStep
<1>17. CASE ws' = [ws EXCEPT ![d] = Done(SealFailed(r))] /\ UNCHANGED wire
  <2>1. PICK f, q : f = SealFailed(r) /\ q = Done(f)
    OBVIOUS
  <2>2. f \in WsRow /\ SameButQueue(r, f) /\ f.queue = r.queue
    BY <1>9, <2>1 DEF SealFailed, WsRow, SameButQueue, SameSession
  <2>3. q \in WsRow /\ SameButQueue(f, q) /\ q.queue = Tail(f.queue)
    BY <1>3, <1>11, <2>1, <2>2, DoneRow
  <2>4. /\ DocsIn(q.queue) = DocsIn(s.queue) /\ FencesReady(q.queue)
        /\ Hydrating(s.queue) => Hydrating(q.queue)
    BY <1>2, <1>3, <1>11, <2>2, <2>3, QuietTail
  <2>5. SameButQueue(r, q)
    BY <2>2, <2>3 DEF SameButQueue, SameSession
  <2>6. Moved(s, q)
    BY <1>3, <1>10, <1>11, <2>4, <2>5 DEF Moved, SameButQueue, SameSession
  <2>7. ws' = [ws EXCEPT ![d] = q] /\ UNCHANGED <<wire, hubws>>
    BY <1>13, <1>17, <2>1
  <2> QED BY <1>2, <1>13, <2>3, <2>6, <2>7, MovedStep
<1> QED BY <1>14, <1>15, <1>16, <1>17

(* A new socket brings everything the hub holds.                           *)
LEMMA WsConnectKeeps ==
  ASSUME WsInv, NEW d \in Devices, WsConnect(d)
  PROVE  WsInv'
<1>1. /\ ws \in [Devices -> WsRow] /\ wire \in [Devices -> WireRow] /\ hubws \in Bundle /\ WsTypeOK
      /\ DeviceInv(d, ws[d], wire[d], hubws)
  BY TypesOfState DEF WsInv
<1>2. PICK s, w : s = ws[d] /\ w = wire[d]
  OBVIOUS
<1>3. PICK r, v : /\ r = [s EXCEPT !.queue = @ \o (IF hubws = Nothing THEN <<>> ELSE <<[t |-> "docs", docs |-> hubws]>>)
                                              \o <<[t |-> "hydrated"]>>]
                 /\ v = [w EXCEPT !.up = TRUE]
  OBVIOUS
<1>4. DeviceInv(d, s, w, hubws) /\ ~w.up
  BY <1>1, <1>2 DEF WsConnect
<1>5. DeviceInv(d, r, v, hubws) /\ NothingNew(s, w, hubws, r, v)
  BY <1>1, <1>3, <1>4, ConnectKeeps
<1>6. /\ ws' = [ws EXCEPT ![d] = r] /\ wire' = [wire EXCEPT ![d] = v] /\ UNCHANGED hubws /\ spent' \in Spending
  <2>1. ws' = [ws EXCEPT ![d] = r]
    BY <1>1, <1>2, <1>3 DEF WsConnect
  <2>2. wire' = [wire EXCEPT ![d] = v]
    BY <1>1, <1>2, <1>3 DEF WsConnect
  <2>3. UNCHANGED hubws /\ spent' \in Spending
    BY <1>1, SpendType DEF WsConnect
  <2> QED BY <2>1, <2>2, <2>3
<1> QED BY <1>2, <1>5, <1>6, NothingNewStep

(* A socket is lost with what is under way on it.                          *)
LEMMA WsDropKeeps ==
  ASSUME WsInv, NEW d \in Devices, WsDrop(d)
  PROVE  WsInv'
<1>1. /\ ws \in [Devices -> WsRow] /\ wire \in [Devices -> WireRow] /\ hubws \in Bundle /\ WsTypeOK
      /\ DeviceInv(d, ws[d], wire[d], hubws)
  BY TypesOfState DEF WsInv
<1>2. PICK s, w, p : s = ws[d] /\ w = wire[d] /\ p = s.queue
  OBVIOUS
<1>3. s \in WsRow /\ DeviceInv(d, s, w, hubws) /\ p \in Seq(Task) /\ Len(p) \in Nat
  BY <1>1, <1>2 DEF WsRow
<1>4. PICK n \in 0..Len(p) : \E f \in InOrder(Stays(p, n)) : ws' = [ws EXCEPT ![d].queue = [i \in DOMAIN f |-> @[f[i]]]]
  BY <1>2 DEF WsDrop
<1>5. PICK f \in InOrder(Stays(p, n)) : ws' = [ws EXCEPT ![d].queue = [i \in DOMAIN f |-> @[f[i]]]]
  BY <1>4
<1>6. PICK q : q = [i \in DOMAIN f |-> p[f[i]]]
  OBVIOUS
<1>7. n \in Nat
  BY <1>3
<1>8. q \in Seq(Task) /\ DocsIn(q) \subseteq DocsIn(p) /\ Fences(q) \subseteq Fences(p)
  BY <1>3, <1>6, <1>7, LostFrames
<1>9. PICK r : r = [s EXCEPT !.queue = q]
  OBVIOUS
<1>10. /\ r \in WsRow /\ r.queue = q /\ r.store = s.store /\ r.clock = s.clock /\ r.snaps = s.snaps
       /\ r.initialized = s.initialized /\ r.inherit = s.inherit
  BY <1>3, <1>8, <1>9 DEF WsRow
<1>11. r.initialized => ~r.inherit
  BY <1>3, <1>10 DEF DeviceInv
<1>12. \A e \in Devices : hubws.snaps[e] = NoSnap \/ hubws.snaps[e].hlc[2] # 0
  BY DEF WsInv, PointsStamped
<1>13. DeviceInv(d, r, Down, hubws) /\ NothingNew(s, w, hubws, r, Down)
  BY <1>1, <1>2, <1>3, <1>8, <1>10, <1>11, <1>12, DownKeeps
<1>14. ws' = [ws EXCEPT ![d] = r]
  <2>1. ws' = [ws EXCEPT ![d].queue = [i \in DOMAIN f |-> ws[d].queue[f[i]]]]
    BY <1>1, <1>5 DEF WsRow
  <2>2. ws' = [ws EXCEPT ![d].queue = q]
    BY <1>2, <1>6, <2>1
  <2> QED BY <1>1, <1>2, <1>9, <2>2
<1>15. wire' = [wire EXCEPT ![d] = Down] /\ UNCHANGED hubws /\ spent' \in Spending
  BY <1>1, SpendType DEF WsDrop
<1> QED BY <1>2, <1>13, <1>14, <1>15, NothingNewStep

(* A new process starts from the store and its marker.                     *)
LEMMA RelaunchKeeps ==
  ASSUME WsInv, NEW d \in Devices, Relaunch(d)
  PROVE  WsInv'
<1>1. /\ ws \in [Devices -> WsRow] /\ wire \in [Devices -> WireRow] /\ hubws \in Bundle /\ WsTypeOK
      /\ DeviceInv(d, ws[d], wire[d], hubws)
  BY TypesOfState DEF WsInv
<1>2. PICK s, w, r : s = ws[d] /\ w = wire[d] /\ r = Reborn(s)
  OBVIOUS
<1>3. s \in WsRow /\ DeviceInv(d, s, w, hubws)
  BY <1>1, <1>2
<1>4. /\ r \in WsRow /\ r.store = s.store /\ r.clock = s.clock /\ r.queue = <<>>
      /\ r.snaps = NoSnaps /\ r.initialized = s.initialized /\ r.inherit = ~s.initialized
  BY <1>2, <1>3, RebornRow
<1>5. DocsIn(r.queue) = {} /\ Fences(r.queue) = {}
  <2>1. DOMAIN r.queue = {}
    BY <1>4
  <2> QED BY <2>1 DEF DocsIn, Fences
<1>6. r.initialized => ~r.inherit
  BY <1>4
<1>7. \A e \in Devices : hubws.snaps[e] = NoSnap \/ hubws.snaps[e].hlc[2] # 0
  BY DEF WsInv, PointsStamped
<1>8. DeviceInv(d, r, Down, hubws) /\ NothingNew(s, w, hubws, r, Down)
  BY <1>1, <1>3, <1>4, <1>5, <1>6, <1>7, DownKeeps
<1>9. /\ ws' = [ws EXCEPT ![d] = r] /\ wire' = [wire EXCEPT ![d] = Down] /\ UNCHANGED hubws /\ spent' \in Spending
  BY <1>1, <1>2, SpendType DEF Relaunch
<1> QED BY <1>2, <1>8, <1>9, NothingNewStep

(* What the hub takes from a bundle: every setting of it that is newer, and *)
(* the restore point of its sender.                                        *)
LEMMA HubTakes ==
  ASSUME WsInv, NEW d \in Devices, NEW b \in Bundle, b \in Sent(wire[d].out), NEW won, won = Winners(b),
         NEW h, h = [regs |-> Merged(hubws.regs, won.regs), snaps |-> NewerSnaps(hubws.snaps, won.snaps)]
  PROVE  /\ won \in Bundle /\ h \in Bundle
         /\ \A k \in Keys : won.regs[k] \in {NoReg, b.regs[k]} /\ h.regs[k] \in {hubws.regs[k], b.regs[k]}
         /\ \A k \in Keys : h.regs[k] = hubws.regs[k] \/ (won.regs[k] = h.regs[k] /\ won # Nothing)
         /\ \A k \in Globals : /\ Upto(hubws.regs[k], h.regs[k]) /\ Upto(b.regs[k], h.regs[k])
                               /\ Upto(won.regs[k], h.regs[k])
         /\ \A e \in Devices \ {d} : h.snaps[e] = hubws.snaps[e] /\ won.snaps[e] = NoSnap
         /\ b.snaps[d] = NoSnap => h.snaps[d] = hubws.snaps[d] /\ won.snaps[d] = NoSnap
         /\ b.snaps[d] # NoSnap => /\ h.snaps[d] = b.snaps[d] /\ won.snaps[d] = b.snaps[d] /\ won # Nothing
<1>1. /\ hubws \in Bundle /\ hubws.regs \in [Keys -> Reg] /\ hubws.snaps \in [Devices -> Snap]
      /\ b.regs \in [Keys -> Reg] /\ b.snaps \in [Devices -> Snap]
  BY TypesOfState DEF WsInv, Bundle
<1>2. PICK regs, snaps : /\ regs = [k \in Keys |-> IF Wins(b.regs[k], hubws.regs[k]) THEN b.regs[k] ELSE NoReg]
                         /\ snaps = [e \in Devices |-> IF Later(b.snaps[e].hlc, hubws.snaps[e].hlc) THEN b.snaps[e] ELSE NoSnap]
  OBVIOUS
<1>3. won = [regs |-> regs, snaps |-> snaps]
  BY <1>2 DEF Winners
<1>4. regs \in [Keys -> Reg] /\ snaps \in [Devices -> Snap]
  BY <1>1, <1>2, NoRegType
<1>5. won \in Bundle /\ won.regs = regs /\ won.snaps = snaps
  BY <1>3, <1>4 DEF Bundle
<1>6. PICK hr, hs : hr = Merged(hubws.regs, regs) /\ hs = NewerSnaps(hubws.snaps, snaps)
  OBVIOUS
<1>7. /\ hr \in [Keys -> Reg]
      /\ \A k \in Keys : hr[k] = IF Wins(regs[k], hubws.regs[k]) THEN regs[k] ELSE hubws.regs[k]
  BY <1>1, <1>4, <1>6, MergedType
<1>8. /\ hs \in [Devices -> Snap]
      /\ \A e \in Devices : hs[e] = IF Later(snaps[e].hlc, hubws.snaps[e].hlc) THEN snaps[e] ELSE hubws.snaps[e]
  BY <1>1, <1>4, <1>6, NewerSnapsType
<1>9. h \in Bundle /\ h.regs = hr /\ h.snaps = hs
  BY <1>5, <1>6, <1>7, <1>8 DEF Bundle
<1>10. \A r : ~Wins(NoReg, r)
  BY DEF Wins
<1>11. \A k \in Keys : /\ regs[k] \in {NoReg, b.regs[k]}
                       /\ hr[k] = IF Wins(b.regs[k], hubws.regs[k]) THEN b.regs[k] ELSE hubws.regs[k]
                       /\ Wins(b.regs[k], hubws.regs[k]) => regs[k] = b.regs[k]
  BY <1>2, <1>7, <1>10
<1>12. ASSUME NEW k \in Keys, hr[k] # hubws.regs[k] PROVE regs[k] = hr[k] /\ won # Nothing
  <2>1. Wins(b.regs[k], hubws.regs[k]) /\ regs[k] = b.regs[k] /\ hr[k] = b.regs[k]
    BY <1>11, <1>12
  <2>2. regs[k] # NoReg
    BY <2>1 DEF Wins
  <2>3. won.regs # NoRegs
    BY <1>5, <2>2 DEF NoRegs
  <2> QED BY <2>1, <2>3 DEF Nothing
<1>13. ASSUME NEW k \in Globals
       PROVE  Upto(hubws.regs[k], hr[k]) /\ Upto(b.regs[k], hr[k]) /\ Upto(regs[k], hr[k])
  <2>1. PICK x, y : x = b.regs[k] /\ y = hubws.regs[k]
    OBVIOUS
  <2>2. x \in Reg /\ y \in Reg /\ k \in Keys
    BY <1>1, <2>1 DEF Keys
  <2>3. Known(k, x) /\ Known(k, y)
    BY <2>1 DEF Known, Has
  <2>4. /\ x.hlc = y.hlc => x = y
        /\ x = NoReg \/ x.hlc[2] # 0
        /\ y = NoReg \/ y.hlc[2] # 0
    BY <2>2, <2>3 DEF WsInv, StampsUnique, OwnIsOlder
  <2>5. (Wins(x, y) => Upto(y, x)) /\ (~Wins(x, y) => Upto(x, y))
    BY <2>2, <2>4, WinsOrNot
  <2>6. hr[k] = (IF Wins(x, y) THEN x ELSE y) /\ regs[k] \in {NoReg, x} /\ (Wins(x, y) => regs[k] = x)
    BY <1>11, <2>1, <2>2
  <2>7. Upto(NoReg, x) /\ Upto(NoReg, y)
    BY <2>2, <2>4, NothingIsLeast
  <2> QED BY <2>1, <2>5, <2>6, <2>7 DEF Upto
<1>14. PointsSent(d, ws[d], wire[d], hubws)
  BY DEF WsInv, DeviceInv
<1>15. \A e \in Devices : b.snaps[e] = NoSnap => snaps[e] = NoSnap /\ hs[e] = hubws.snaps[e]
  <2>1. \A e \in Devices : ~Later(NoSnap.hlc, hubws.snaps[e].hlc)
    BY <1>1, NothingIsLeast, HlcTypes DEF NoSnap
  <2> QED BY <1>2, <1>8, <2>1
<1>16. \A e \in Devices \ {d} : b.snaps[e] = NoSnap
  BY <1>14 DEF PointsSent
<1>17. b.snaps[d] # NoSnap => hs[d] = b.snaps[d] /\ snaps[d] = b.snaps[d] /\ won # Nothing
  <2>1. b.snaps[d] # NoSnap => Later(b.snaps[d].hlc, hubws.snaps[d].hlc)
    BY <1>14 DEF PointsSent
  <2>2. b.snaps[d] # NoSnap => hs[d] = b.snaps[d] /\ snaps[d] = b.snaps[d]
    BY <1>2, <1>8, <2>1
  <2>3. snaps[d] # NoSnap => won # Nothing
    BY <1>5 DEF Nothing, NoSnaps
  <2> QED BY <2>2, <2>3
<1> QED BY <1>5, <1>9, <1>11, <1>12, <1>13, <1>15, <1>16, <1>17

(* The hub after it has taken a bundle of d: nothing gets older, only d's   *)
(* restore point may change, and what changes is in what it passes on.     *)
HubMoved(d, h, b, won, n) ==
  /\ h \in Bundle /\ b \in Bundle /\ won \in Bundle /\ n \in Bundle
  /\ \A k \in Keys : n.regs[k] = h.regs[k] \/ (won.regs[k] = n.regs[k] /\ won # Nothing)
  /\ \A k \in Keys : n.regs[k] \in {h.regs[k], b.regs[k]}
  /\ \A k \in Globals : Upto(h.regs[k], n.regs[k]) /\ Upto(b.regs[k], n.regs[k]) /\ Upto(won.regs[k], n.regs[k])
  /\ \A e \in Devices \ {d} : n.snaps[e] = h.snaps[e] /\ won.snaps[e] = NoSnap
  /\ \A e \in Devices : Upto(h.snaps[e], n.snaps[e]) /\ Upto(won.snaps[e], n.snaps[e])
  /\ b.snaps[d] = NoSnap => n.snaps[d] = h.snaps[d]
  /\ b.snaps[d] # NoSnap => n.snaps[d] = b.snaps[d]
  /\ n.snaps[d] = h.snaps[d] \/ (won.snaps[d] = n.snaps[d] /\ won # Nothing)

(* What was up to the hub or to the bundle is up to the hub now.           *)
LEMMA HubMovedUpto ==
  ASSUME NEW d \in Devices, NEW h, NEW b, NEW won, NEW n, HubMoved(d, h, b, won, n)
  PROVE  /\ \A k \in Globals : \A x \in Reg : Upto(x, h.regs[k]) \/ Upto(x, b.regs[k]) => Upto(x, n.regs[k])
         /\ \A e \in Devices : \A x \in Snap : Upto(x, h.snaps[e]) => Upto(x, n.snaps[e])
<1>1. ASSUME NEW k \in Globals, NEW x \in Reg, Upto(x, h.regs[k]) \/ Upto(x, b.regs[k])
      PROVE  Upto(x, n.regs[k])
  <2>1. PICK a, c, z : a = h.regs[k] /\ c = b.regs[k] /\ z = n.regs[k]
    OBVIOUS
  <2>2. a \in Reg /\ c \in Reg /\ z \in Reg
    BY <2>1, BundleTypes DEF HubMoved, Keys
  <2>3. a.hlc \in Stamps /\ c.hlc \in Stamps /\ z.hlc \in Stamps /\ x.hlc \in Stamps
    BY <2>2, HlcTypes
  <2>4. Upto(a, z) /\ Upto(c, z)
    BY <2>1 DEF HubMoved
  <2> QED BY <1>1, <2>1, <2>3, <2>4, UptoOrder
<1>2. ASSUME NEW e \in Devices, NEW x \in Snap, Upto(x, h.snaps[e]) PROVE Upto(x, n.snaps[e])
  <2>1. PICK a, z : a = h.snaps[e] /\ z = n.snaps[e]
    OBVIOUS
  <2>2. a.hlc \in Stamps /\ z.hlc \in Stamps /\ x.hlc \in Stamps
    BY <2>1, BundleTypes, HlcTypes DEF HubMoved
  <2>3. Upto(a, z)
    BY <2>1 DEF HubMoved
  <2> QED BY <1>2, <2>1, <2>2, <2>3, UptoOrder
<1> QED BY <1>1, <1>2

(* The sender of the bundle, one bundle shorter.                           *)
LEMMA SenderKeeps ==
  ASSUME NEW d \in Devices, NEW s, NEW w, NEW h, NEW won, NEW n, DeviceInv(d, s, w, h), w.out # <<>>,
         HubMoved(d, h, Head(w.out), won, n), NEW v, v = [w EXCEPT !.out = Tail(w.out)]
  PROVE  DeviceInv(d, s, v, n)
<1>1. s \in WsRow /\ w \in WireRow /\ w.out \in Seq(Bundle) /\ s.queue \in Seq(Task) /\ s.clock \in Nat
  BY DEF DeviceInv, WsRow, WireRow
<1>2. PICK o, b, p : o = w.out /\ b = Head(o) /\ p = Tail(o)
  OBVIOUS
<1>3. /\ b \in Bundle /\ p \in Seq(Bundle) /\ Sent(o) = {b} \union Sent(p)
      /\ \A i \in DOMAIN p : i + 1 \in DOMAIN o /\ p[i] = o[i + 1] /\ i \in Nat
      /\ \A i \in DOMAIN o : i \in Nat /\ (i = 1 \/ (i - 1 \in DOMAIN p /\ p[i - 1] = o[i]))
      /\ 1 \in DOMAIN o /\ o[1] = b
  BY <1>1, <1>2, SentTail
<1>4. v \in WireRow /\ v.up = w.up /\ v.out = p
  BY <1>1, <1>2, <1>3 DEF WireRow
<1>5. HubMoved(d, h, b, won, n)
  BY <1>2
<1>6. /\ \A k \in Globals : \A x \in Reg : Upto(x, h.regs[k]) \/ Upto(x, b.regs[k]) => Upto(x, n.regs[k])
      /\ \A e \in Devices : \A x \in Snap : Upto(x, h.snaps[e]) => Upto(x, n.snaps[e])
  BY <1>5, HubMovedUpto
<1>7. \A c \in DocsIn(s.queue) : c \in Bundle
  BY <1>1, QueueTypes
<1>8. ASSUME NEW k \in Globals PROVE MetaAt(k, s, v, n)
  <2>1. MetaAt(k, s, w, h) /\ k \in Keys /\ s.store[k] \in Reg
    BY <1>1 DEF DeviceInv, WsRow, Keys
  <2>2. \A c \in Sent(v.out) : c \in Sent(w.out)
    BY <1>2, <1>3, <1>4
  <2>3. \A c \in DocsIn(s.queue) : Upto(c.regs[k], n.regs[k])
    BY <1>6, <1>7, <2>1, BundleTypes DEF MetaAt
  <2>4. v.up => Upto(n.regs[k], s.store[k]) \/ \E c \in DocsIn(s.queue) : c.regs[k] = n.regs[k]
    <3>1. CASE n.regs[k] = h.regs[k]
      BY <1>4, <2>1, <3>1 DEF MetaAt
    <3>2. CASE n.regs[k] = b.regs[k]
      BY <1>2, <1>3, <2>1, <3>2 DEF MetaAt
    <3> QED BY <1>5, <2>1, <3>1, <3>2 DEF HubMoved
  <2>5. v.up /\ ~Hydrating(s.queue) =>
          \/ s.store[k] = NoReg \/ k \in s.dirty \/ Upto(s.store[k], n.regs[k])
          \/ \E c \in Sent(v.out) : Upto(s.store[k], c.regs[k])
    <3>1. Upto(s.store[k], h.regs[k]) \/ Upto(s.store[k], b.regs[k]) => Upto(s.store[k], n.regs[k])
      BY <1>6, <2>1
    <3>2. \A c \in Sent(w.out) : c = b \/ c \in Sent(v.out)
      BY <1>2, <1>3, <1>4
    <3> QED BY <1>4, <2>1, <3>1, <3>2 DEF MetaAt
  <2> QED BY <2>1, <2>2, <2>3, <2>4, <2>5 DEF MetaAt
<1>9. PointsSent(d, s, w, h)
  BY DEF DeviceInv
<1>10. PointsSent(d, s, v, n)
  <2>1. n.snaps[d].hlc[1] <= s.clock
    BY <1>2, <1>3, <1>5, <1>9 DEF PointsSent, HubMoved
  <2>2. \A c \in Sent(p) : \A e \in Devices \ {d} : c.snaps[e] = NoSnap
    BY <1>2, <1>3, <1>9 DEF PointsSent
  <2>3. ASSUME NEW i \in DOMAIN p, NEW j \in DOMAIN p, i < j, p[i].snaps[d] # NoSnap, p[j].snaps[d] # NoSnap
        PROVE  Later(p[j].snaps[d].hlc, p[i].snaps[d].hlc)
    <3>1. PICK x, y : x = i + 1 /\ y = j + 1
      OBVIOUS
    <3>2. x \in DOMAIN o /\ y \in DOMAIN o /\ p[i] = o[x] /\ p[j] = o[y] /\ x < y
      BY <1>3, <2>3, <3>1
    <3> QED BY <1>2, <1>9, <2>3, <3>2 DEF PointsSent
  <2>4. ASSUME NEW c \in Sent(p), c.snaps[d] # NoSnap, b.snaps[d] # NoSnap
        PROVE  Later(c.snaps[d].hlc, b.snaps[d].hlc)
    <3>1. PICK i \in DOMAIN p : c = p[i]
      BY DEF Sent
    <3>2. PICK x : x = i + 1
      OBVIOUS
    <3>3. x \in DOMAIN o /\ c = o[x] /\ 1 < x
      <4>1. i \in 1..Len(p)
        BY <1>3
      <4> QED BY <1>3, <3>1, <3>2, <4>1
    <3> QED BY <1>2, <1>3, <1>9, <2>4, <3>3 DEF PointsSent
  <2>5. \A c \in Sent(p) : c.snaps[d] # NoSnap =>
          /\ Later(c.snaps[d].hlc, n.snaps[d].hlc)
          /\ c.snaps[d].hlc[1] <= s.clock /\ c.snaps[d].hlc[2] = d
    BY <1>2, <1>3, <1>5, <1>9, <2>4 DEF PointsSent, HubMoved
  <2> QED BY <1>4, <2>1, <2>2, <2>3, <2>5 DEF PointsSent
<1>11. PointsSeen(d, s, v, n)
  <2>1. PointsSeen(d, s, w, h) /\ \A e \in Devices : s.snaps[e] \in Snap
    BY <1>1 DEF DeviceInv, WsRow
  <2>2. /\ \A e \in Devices : Upto(s.snaps[e], n.snaps[e])
        /\ \A e \in Devices : \A c \in DocsIn(s.queue) : Upto(c.snaps[e], n.snaps[e])
    BY <1>6, <1>7, <2>1, BundleTypes DEF PointsSeen
  <2>3. \A e \in Devices \ {d} : n.snaps[e] = h.snaps[e]
    BY <1>5 DEF HubMoved
  <2> QED BY <1>4, <2>1, <2>2, <2>3 DEF PointsSeen
<1>12. PointShown(d, s, v, n)
  <2> SUFFICES ASSUME v.up, ~Hydrating(s.queue), ~s.snapDirty PROVE Shown(d, s, v, n)
    BY DEF PointShown
  <2>1. Shown(d, s, w, h)
    BY <1>4 DEF DeviceInv, PointShown
  <2>2. CASE \A i \in DOMAIN o : o[i].snaps[d] = NoSnap
    <3>1. b.snaps[d] = NoSnap /\ Content(h.snaps[d].regs) = Content(s.store)
      BY <1>2, <1>3, <2>1, <2>2 DEF Shown
    <3>2. n.snaps[d] = h.snaps[d]
      BY <1>5, <3>1 DEF HubMoved
    <3>3. \A i \in DOMAIN p : p[i].snaps[d] = NoSnap
      BY <1>3, <2>2
    <3> QED BY <1>4, <3>1, <3>2, <3>3 DEF Shown
  <2>3. ASSUME NEW i \in DOMAIN o, o[i].snaps[d] # NoSnap, Content(o[i].snaps[d].regs) = Content(s.store),
               \A j \in DOMAIN o : j > i => o[j].snaps[d] = NoSnap
        PROVE  Shown(d, s, v, n)
    <3>1. ASSUME NEW l \in DOMAIN p, l + 1 > i PROVE p[l].snaps[d] = NoSnap
      <4>1. PICK y : y = l + 1
        OBVIOUS
      <4>2. y \in DOMAIN o /\ p[l] = o[y] /\ y > i
        BY <1>3, <3>1, <4>1
      <4> QED BY <2>3, <4>2
    <3>2. CASE i = 1
      <4>1. \A l \in DOMAIN p : p[l].snaps[d] = NoSnap
        <5>1. \A l \in DOMAIN p : l + 1 > 1
          <6>1. DOMAIN p = 1..Len(p)
            BY <1>3
          <6> QED BY <6>1
        <5> QED BY <3>1, <3>2, <5>1
      <4>2. n.snaps[d] = o[i].snaps[d]
        BY <1>3, <1>5, <2>3, <3>2 DEF HubMoved
      <4> QED BY <1>4, <2>3, <4>1, <4>2 DEF Shown
    <3>3. CASE i # 1
      <4>1. PICK l : l = i - 1
        OBVIOUS
      <4>2. l \in DOMAIN p /\ p[l] = o[i] /\ i \in Nat /\ l + 1 = i /\ l \in Nat
        BY <1>3, <3>3, <4>1
      <4>3. \A j \in DOMAIN p : j > l => p[j].snaps[d] = NoSnap
        <5>1. \A j \in DOMAIN p : j > l => j + 1 > i
          BY <1>3, <4>2
        <5> QED BY <3>1, <5>1
      <4> QED BY <1>4, <2>3, <4>2, <4>3 DEF Shown
    <3> QED BY <3>2, <3>3
  <2> QED BY <1>2, <2>1, <2>2, <2>3 DEF Shown
<1> QED BY <1>1, <1>4, <1>8, <1>10, <1>11, <1>12 DEF DeviceInv, HubMoved

(* Another device, which gets what the hub has taken if it is connected.   *)
Passed(s, w, won) ==
  IF w.up /\ won # Nothing THEN [s EXCEPT !.queue = Append(@, [t |-> "docs", docs |-> won])] ELSE s

LEMMA PassedRow ==
  ASSUME NEW s \in WsRow, NEW w, NEW won \in Bundle, NEW r, r = Passed(s, w, won)
  PROVE  /\ r \in WsRow /\ SameButQueue(s, r)
         /\ Fences(r.queue) = Fences(s.queue) /\ (Hydrating(r.queue) <=> Hydrating(s.queue))
         /\ DocsIn(r.queue) = DocsIn(s.queue) \union (IF w.up /\ won # Nothing THEN {won} ELSE {})
<1>1. CASE ~(w.up /\ won # Nothing)
  <2>1. r = s
    BY <1>1 DEF Passed
  <2> QED BY <1>1, <2>1 DEF SameButQueue, SameSession
<1>2. CASE w.up /\ won # Nothing
  <2>1. PICK p, x : p = s.queue /\ x = [t |-> "docs", docs |-> won]
    OBVIOUS
  <2>2. p \in Seq(Task) /\ x \in Task /\ x.t = "docs" /\ x.docs = won
    BY <2>1 DEF WsRow, Task
  <2>3. PICK q, u : q = Append(p, x) /\ u = <<x>>
    OBVIOUS
  <2>4. q \in Seq(Task) /\ q = p \o u
    BY <2>2, <2>3
  <2>5. u \in Seq(Task) /\ DocsIn(u) = {won} /\ Fences(u) = {} /\ ~Hydrating(u)
    BY <2>2, <2>3, QueueOfOne
  <2>6. /\ DocsIn(q) = DocsIn(p) \union DocsIn(u)
        /\ Fences(q) = Fences(p) \union Fences(u)
        /\ Hydrating(q) <=> Hydrating(p) \/ Hydrating(u)
    BY <2>2, <2>4, <2>5, QueueConcat
  <2>7. r = [s EXCEPT !.queue = q]
    BY <1>2, <2>1, <2>3 DEF Passed
  <2>8. r \in WsRow /\ SameButQueue(s, r) /\ r.queue = q
    BY <2>4, <2>7 DEF WsRow, SameButQueue, SameSession
  <2> QED BY <1>2, <2>1, <2>5, <2>6, <2>8
<1> QED BY <1>1, <1>2

(* What another device is short of is in its queue now.                    *)
LEMMA PeerKeeps ==
  ASSUME NEW d \in Devices, NEW e \in Devices, e # d, NEW s, NEW w, NEW h, NEW b, NEW won, NEW n,
         DeviceInv(e, s, w, h), HubMoved(d, h, b, won, n), NEW r, r = Passed(s, w, won)
  PROVE  /\ DeviceInv(e, r, w, n) /\ r.store = s.store
         /\ \A k \in Globals : \A x \in Reg : Has(r, w, k, x) => Has(s, w, k, x) \/ x = won.regs[k]
<1>1. s \in WsRow /\ w \in WireRow /\ s.queue \in Seq(Task) /\ won \in Bundle
  BY DEF DeviceInv, WsRow, HubMoved
<1>2. /\ r \in WsRow /\ SameButQueue(s, r)
      /\ Fences(r.queue) = Fences(s.queue) /\ (Hydrating(r.queue) <=> Hydrating(s.queue))
      /\ DocsIn(r.queue) = DocsIn(s.queue) \union (IF w.up /\ won # Nothing THEN {won} ELSE {})
  BY <1>1, PassedRow
<1>3. /\ \A c \in DocsIn(r.queue) : c \in DocsIn(s.queue) \/ c = won
      /\ \A c \in DocsIn(s.queue) : c \in DocsIn(r.queue)
      /\ w.up /\ won # Nothing => won \in DocsIn(r.queue)
  BY <1>2
<1>4. /\ \A k \in Globals : \A x \in Reg : Upto(x, h.regs[k]) \/ Upto(x, b.regs[k]) => Upto(x, n.regs[k])
      /\ \A f \in Devices : \A x \in Snap : Upto(x, h.snaps[f]) => Upto(x, n.snaps[f])
  BY HubMovedUpto
<1>5. \A c \in DocsIn(s.queue) : c \in Bundle
  BY <1>1, QueueTypes
<1>6. /\ r.store = s.store /\ r.clock = s.clock /\ r.dirty = s.dirty /\ r.snapDirty = s.snapDirty
      /\ r.snaps = s.snaps /\ r.inherit = s.inherit /\ r.initialized = s.initialized
  BY <1>2 DEF SameButQueue, SameSession
<1>7. ASSUME NEW k \in Globals PROVE MetaAt(k, r, w, n)
  <2>1. MetaAt(k, s, w, h) /\ k \in Keys /\ s.store[k] \in Reg
    BY <1>1 DEF DeviceInv, WsRow, Keys
  <2>2. \A c \in DocsIn(r.queue) : Upto(c.regs[k], n.regs[k])
    <3>1. \A c \in DocsIn(s.queue) : Upto(c.regs[k], n.regs[k])
      BY <1>4, <1>5, <2>1, BundleTypes DEF MetaAt
    <3>2. Upto(won.regs[k], n.regs[k])
      BY DEF HubMoved
    <3> QED BY <1>3, <3>1, <3>2
  <2>3. w.up => Upto(n.regs[k], s.store[k]) \/ \E c \in DocsIn(r.queue) : c.regs[k] = n.regs[k]
    <3>1. CASE n.regs[k] = h.regs[k]
      BY <1>3, <2>1, <3>1 DEF MetaAt
    <3>2. CASE won.regs[k] = n.regs[k] /\ won # Nothing
      BY <1>3, <3>2
    <3> QED BY <2>1, <3>1, <3>2 DEF HubMoved
  <2>4. w.up /\ ~Hydrating(s.queue) =>
          \/ s.store[k] = NoReg \/ k \in s.dirty \/ Upto(s.store[k], n.regs[k])
          \/ \E c \in Sent(w.out) : Upto(s.store[k], c.regs[k])
    <3>1. Upto(s.store[k], h.regs[k]) => Upto(s.store[k], n.regs[k])
      BY <1>4, <2>1
    <3> QED BY <2>1, <3>1 DEF MetaAt
  <2> QED BY <1>2, <1>6, <2>1, <2>2, <2>3, <2>4 DEF MetaAt
<1>8. n.snaps[e] = h.snaps[e]
  BY DEF HubMoved
<1>9. PointsSent(e, r, w, n)
  <2>1. PointsSent(e, s, w, h)
    BY DEF DeviceInv
  <2> QED BY <1>6, <1>8, <2>1 DEF PointsSent
<1>10. PointsSeen(e, r, w, n)
  <2>1. PointsSeen(e, s, w, h) /\ \A f \in Devices : s.snaps[f] \in Snap
    BY <1>1 DEF DeviceInv, WsRow
  <2>2. \A f \in Devices : Upto(s.snaps[f], n.snaps[f])
    BY <1>4, <2>1 DEF PointsSeen
  <2>3. \A f \in Devices : \A c \in DocsIn(r.queue) : Upto(c.snaps[f], n.snaps[f])
    <3>1. \A f \in Devices : \A c \in DocsIn(s.queue) : Upto(c.snaps[f], n.snaps[f])
      BY <1>4, <1>5, <2>1, BundleTypes DEF PointsSeen
    <3>2. \A f \in Devices : Upto(won.snaps[f], n.snaps[f])
      BY DEF HubMoved
    <3> QED BY <1>3, <3>1, <3>2
  <2>4. ASSUME w.up, NEW f \in Devices \ {e}
        PROVE  s.snaps[f] = n.snaps[f] \/ \E c \in DocsIn(r.queue) : c.snaps[f] = n.snaps[f]
    <3>1. CASE n.snaps[f] = h.snaps[f]
      BY <1>3, <2>1, <2>4, <3>1 DEF PointsSeen
    <3>2. CASE won.snaps[f] = n.snaps[f] /\ won # Nothing
      BY <1>3, <2>4, <3>2
    <3> QED BY <3>1, <3>2 DEF HubMoved
  <2> QED BY <1>6, <2>2, <2>3, <2>4 DEF PointsSeen
<1>11. PointShown(e, r, w, n)
  BY <1>2, <1>6, <1>8 DEF DeviceInv, PointShown, Shown
<1>12. FencesReady(r.queue) /\ (r.initialized => ~r.inherit)
  BY <1>2, <1>6 DEF DeviceInv, FencesReady
<1>13. DeviceInv(e, r, w, n)
  BY <1>1, <1>2, <1>7, <1>9, <1>10, <1>11, <1>12 DEF DeviceInv
<1> QED BY <1>3, <1>6, <1>13 DEF Has

(* The hub takes a bundle and passes it on.                                *)
LEMMA HubPublishKeeps ==
  ASSUME WsInv, NEW d \in Devices, HubPublish(d)
  PROVE  WsInv'
<1>1. /\ ws \in [Devices -> WsRow] /\ wire \in [Devices -> WireRow] /\ hubws \in Bundle /\ WsTypeOK
      /\ \A e \in Devices : DeviceInv(e, ws[e], wire[e], hubws)
  BY TypesOfState DEF WsInv
<1>2. PICK w, o, b : w = wire[d] /\ o = w.out /\ b = Head(o)
  OBVIOUS
<1>3. /\ w \in WireRow /\ o \in Seq(Bundle) /\ o # <<>>
      /\ DeviceInv(d, ws[d], w, hubws)
  BY <1>1, <1>2 DEF HubPublish, WireRow
<1>4. b \in Bundle /\ Sent(o) = {b} \union Sent(Tail(o)) /\ b \in Sent(wire[d].out)
  BY <1>2, <1>3, SentTail
<1>5. PICK won, n : won = Winners(b) /\ n = [regs |-> Merged(hubws.regs, won.regs), snaps |-> NewerSnaps(hubws.snaps, won.snaps)]
  OBVIOUS
<1>6. /\ won \in Bundle /\ n \in Bundle
      /\ \A k \in Keys : won.regs[k] \in {NoReg, b.regs[k]} /\ n.regs[k] \in {hubws.regs[k], b.regs[k]}
      /\ \A k \in Keys : n.regs[k] = hubws.regs[k] \/ (won.regs[k] = n.regs[k] /\ won # Nothing)
      /\ \A k \in Globals : /\ Upto(hubws.regs[k], n.regs[k]) /\ Upto(b.regs[k], n.regs[k])
                            /\ Upto(won.regs[k], n.regs[k])
      /\ \A e \in Devices \ {d} : n.snaps[e] = hubws.snaps[e] /\ won.snaps[e] = NoSnap
      /\ b.snaps[d] = NoSnap => n.snaps[d] = hubws.snaps[d] /\ won.snaps[d] = NoSnap
      /\ b.snaps[d] # NoSnap => /\ n.snaps[d] = b.snaps[d] /\ won.snaps[d] = b.snaps[d] /\ won # Nothing
  BY <1>4, <1>5, HubTakes
<1>7. PointsSent(d, ws[d], w, hubws)
  BY <1>3 DEF DeviceInv
<1>8. b.snaps[d] # NoSnap => Later(b.snaps[d].hlc, hubws.snaps[d].hlc) /\ b.snaps[d].hlc[2] = d
  BY <1>2, <1>4, <1>7 DEF PointsSent
<1>9. HubMoved(d, hubws, b, won, n)
  <2>1. ASSUME NEW e \in Devices PROVE Upto(hubws.snaps[e], n.snaps[e]) /\ Upto(won.snaps[e], n.snaps[e])
    <3>1. CASE e = d /\ b.snaps[d] # NoSnap
      BY <1>6, <1>8, <3>1 DEF Upto
    <3>2. CASE ~(e = d /\ b.snaps[d] # NoSnap)
      <4>1. n.snaps[e] = hubws.snaps[e] /\ won.snaps[e] = NoSnap
        BY <1>6, <3>2
      <4>2. Upto(NoSnap, hubws.snaps[e])
        BY <1>1, BundleTypes, NothingIsLeast DEF WsInv, PointsStamped
      <4> QED BY <4>1, <4>2 DEF Upto
    <3> QED BY <3>1, <3>2
  <2> QED BY <1>1, <1>4, <1>6, <2>1 DEF HubMoved
<1>10. PICK v : v = [w EXCEPT !.out = Tail(o)]
  OBVIOUS
<1>11. DeviceInv(d, ws[d], v, n)
  BY <1>2, <1>3, <1>9, <1>10, SenderKeeps
<1>12. /\ hubws' = n /\ wire' = [wire EXCEPT ![d] = v] /\ spent' \in Spending
       /\ ws' = [e \in Devices |-> IF e # d THEN Passed(ws[e], wire[e], won) ELSE ws[e]]
  <2>1. hubws' = n
    BY <1>2, <1>5 DEF HubPublish
  <2>2. wire' = [wire EXCEPT ![d] = v]
    BY <1>1, <1>2, <1>10 DEF HubPublish
  <2>3. spent' \in Spending
    BY <1>1, SpendType DEF HubPublish
  <2>4. ws' = [e \in Devices |->
                 IF e # d /\ wire[e].up /\ won # Nothing
                 THEN [ws[e] EXCEPT !.queue = Append(@, [t |-> "docs", docs |-> won])] ELSE ws[e]]
    BY <1>2, <1>5 DEF HubPublish
  <2> QED BY <2>1, <2>2, <2>3, <2>4 DEF Passed
<1>13. /\ wire'[d] = v /\ ws'[d] = ws[d]
       /\ \A e \in Devices \ {d} : wire'[e] = wire[e] /\ ws'[e] = Passed(ws[e], wire[e], won)
  BY <1>1, <1>12
<1>14. v \in WireRow /\ \A c \in Sent(v.out) : c \in Sent(wire[d].out)
  BY <1>2, <1>3, <1>4, <1>10, SentTail DEF WireRow
<1>15. ASSUME NEW e \in Devices, e # d
       PROVE  /\ DeviceInv(e, ws'[e], wire[e], n) /\ ws'[e].store = ws[e].store
              /\ \A k \in Globals : \A x \in Reg :
                   Has(ws'[e], wire[e], k, x) => Has(ws[e], wire[e], k, x) \/ x = won.regs[k]
  <2>1. PICK s, u, r : s = ws[e] /\ u = wire[e] /\ r = ws'[e]
    OBVIOUS
  <2>2. DeviceInv(e, s, u, hubws) /\ r = Passed(s, u, won)
    BY <1>1, <1>13, <1>15, <2>1
  <2>3. /\ DeviceInv(e, r, u, n) /\ r.store = s.store
        /\ \A k \in Globals : \A x \in Reg : Has(r, u, k, x) => Has(s, u, k, x) \/ x = won.regs[k]
    BY <1>9, <1>15, <2>2, PeerKeeps
  <2> QED BY <2>1, <2>3
<1>16. ASSUME NEW e \in Devices PROVE DeviceInv(e, ws'[e], wire'[e], hubws')
  BY <1>11, <1>12, <1>13, <1>15
<1>17. WsTypeOK'
  <2>1. \A e \in Devices : ws'[e] \in WsRow /\ wire'[e] \in WireRow
    BY <1>16 DEF DeviceInv
  <2>2. ws' \in [Devices -> WsRow] /\ wire' \in [Devices -> WireRow]
    <3>1. ws' = [e \in Devices |-> ws'[e]]
      BY <1>12
    <3>2. wire' = [e \in Devices |-> wire'[e]]
      BY <1>1, <1>12
    <3> QED BY <2>1, <3>1, <3>2
  <2>3. hubws' \in Bundle /\ spent' \in Spending
    BY <1>6, <1>12
  <2> QED BY <2>2, <2>3 DEF WsTypeOK, WsRow, WireRow, TabRegs, Spending
<1>18. \A k \in Globals : \A x : x = b.regs[k] \/ x = hubws.regs[k] => Known(k, x)
  BY <1>4 DEF Known, Has
<1>19. ASSUME NEW k \in Globals, NEW x \in Reg, Known(k, x)' PROVE Known(k, x) \/ x = NoReg
  <2>1. CASE x = hubws'.regs[k]
    BY <1>6, <1>12, <1>18, <2>1 DEF Keys
  <2>2. ASSUME NEW e \in Devices, Has(ws'[e], wire'[e], k, x) PROVE Known(k, x) \/ x = NoReg
    <3>1. CASE e = d
      <4>1. Has(ws[d], v, k, x)
        BY <1>13, <2>2, <3>1
      <4>2. Has(ws[d], wire[d], k, x)
        BY <1>14, <4>1 DEF Has
      <4> QED BY <4>2 DEF Known
    <3>2. CASE e # d
      <4>1. Has(ws[e], wire[e], k, x) \/ x = won.regs[k]
        BY <1>13, <1>15, <2>2, <3>2
      <4>2. won.regs[k] = NoReg \/ won.regs[k] = b.regs[k]
        BY <1>6 DEF Keys
      <4> QED BY <1>18, <4>1, <4>2 DEF Known
    <3> QED BY <3>1, <3>2
  <2> QED BY <1>19, <2>1, <2>2 DEF Known
<1>20. StampsUnique'
  <2>1. ASSUME NEW k \in Globals, NEW x \in Reg, NEW y \in Reg, Known(k, x)', Known(k, y)', x.hlc = y.hlc
        PROVE  x = y
    <3>1. (Known(k, x) \/ x = NoReg) /\ (Known(k, y) \/ y = NoReg)
      BY <1>19, <2>1
    <3>2. CASE Known(k, x) /\ Known(k, y)
      BY <2>1, <3>2 DEF WsInv, StampsUnique
    <3>3. CASE y = NoReg
      BY <2>1, <3>1, <3>3, NewStamp
    <3>4. CASE x = NoReg
      <4>1. y.hlc = NoReg.hlc
        BY <2>1, <3>4
      <4> QED BY <3>1, <3>4, <4>1, NewStamp
    <3> QED BY <3>1, <3>2, <3>3, <3>4
  <2> QED BY <2>1 DEF StampsUnique
<1>21. OwnIsOlder'
  <2>1. \A e \in Devices : ws'[e].store = ws[e].store
    BY <1>13, <1>15
  <2>2. ASSUME NEW k \in Globals, NEW x \in Reg, Known(k, x)'
        PROVE  /\ x = NoReg \/ x.hlc[2] # 0
               /\ \A e \in Devices : x.hlc[2] = e => Upto(x, ws'[e].store[k])
    <3>1. CASE Known(k, x)
      BY <2>1, <3>1 DEF WsInv, OwnIsOlder
    <3>2. CASE x = NoReg
      BY <3>2, WsAssumption DEF NoReg, NoHlc
    <3> QED BY <1>19, <2>2, <3>1, <3>2
  <2> QED BY <2>2 DEF OwnIsOlder
<1>22. PointsStamped'
  <2>1. ASSUME NEW e \in Devices PROVE n.snaps[e] = NoSnap \/ n.snaps[e].hlc[2] # 0
    <3>1. CASE e = d /\ b.snaps[d] # NoSnap
      BY <1>6, <1>8, <3>1, WsAssumption
    <3>2. CASE ~(e = d /\ b.snaps[d] # NoSnap)
      BY <1>6, <3>2 DEF WsInv, PointsStamped
    <3> QED BY <3>1, <3>2
  <2> QED BY <1>12, <2>1 DEF PointsStamped
<1> QED BY <1>16, <1>17, <1>20, <1>21, <1>22 DEF WsInv

----------------------------------------------------------------------------
(* The linked devices start connected to an empty hub.                     *)
LEMMA InitHolds ==
  ASSUME WsInit
  PROVE  WsInv
<1>1. /\ NoReg \in Reg /\ NoRegs \in [Keys -> Reg] /\ NoTabs \in [Tabs -> Reg] /\ NoSnap \in Snap
      /\ NoSnaps \in [Devices -> Snap] /\ NoReg.hlc = <<0, 0>> /\ NoSnap.hlc = <<0, 0>>
      /\ (\A k \in Keys : NoRegs[k] = NoReg) /\ (\A d \in Devices : NoSnaps[d] = NoSnap)
  BY NoRegType DEF NoReg, NoRegs, NoTabs, NoSnap, NoSnaps, NoHlc, Keys
<1>2. <<>> \in Seq(Task) /\ <<>> \in Seq(Bundle) /\ DOMAIN <<>> = {}
  OBVIOUS
<1>3. ASSUME NEW d \in Devices
      PROVE  /\ ws[d] \in WsRow /\ ws[d].store = NoRegs /\ ws[d].clock = 0 /\ ws[d].snaps = NoSnaps
             /\ ws[d].queue = <<>> /\ (ws[d].initialized => ~ws[d].inherit)
             /\ wire[d] \in WireRow /\ wire[d].out = <<>>
  <2>1. PICK s : s = [store |-> NoRegs, clock |-> 0, dirty |-> {}, snapDirty |-> FALSE, timer |-> FALSE,
                      ready |-> d \notin Fresh, seen |-> FALSE, remote |-> NoTabs, snaps |-> NoSnaps,
                      inherit |-> d \in Fresh, initialized |-> d \notin Fresh, queue |-> <<>>]
    OBVIOUS
  <2>2. ws[d] = s
    BY <2>1 DEF WsInit
  <2>3. /\ s \in WsRow /\ s.store = NoRegs /\ s.clock = 0 /\ s.snaps = NoSnaps /\ s.queue = <<>>
    BY <1>1, <1>2, <2>1 DEF WsRow, TabRegs
  <2>4. s.initialized => ~s.inherit
    BY <2>1
  <2>5. wire[d] = (IF d \in Fresh THEN Down ELSE [up |-> TRUE, out |-> <<>>])
    BY DEF WsInit
  <2>6. wire[d] \in WireRow /\ wire[d].out = <<>>
    BY <1>2, <2>5 DEF WireRow, Down
  <2> QED BY <2>2, <2>3, <2>4, <2>6
<1>4. hubws.regs = NoRegs /\ hubws.snaps = NoSnaps /\ hubws \in Bundle
  BY <1>1 DEF WsInit, Bundle
<1>5. WsTypeOK
  <2>1. ws \in [Devices -> WsRow]
    <3>1. DOMAIN ws = Devices /\ ws = [d \in Devices |-> ws[d]]
      BY DEF WsInit
    <3> QED BY <1>3, <3>1
  <2>2. wire \in [Devices -> WireRow]
    <3>1. DOMAIN wire = Devices /\ wire = [d \in Devices |-> wire[d]]
      BY DEF WsInit
    <3> QED BY <1>3, <3>1
  <2>3. spent \in [edits : Nat, syncs : Nat, drops : Nat, restarts : Nat, seals : Nat]
    BY DEF WsInit
  <2> QED BY <1>4, <2>1, <2>2, <2>3 DEF WsTypeOK, WsRow, WireRow, TabRegs
<1>6. \A q : q = <<>> => DocsIn(q) = {} /\ Fences(q) = {} /\ ~Hydrating(q) /\ Sent(q) = {}
  BY <1>2 DEF DocsIn, Fences, Hydrating, Sent
<1>7. ASSUME NEW k \in Globals, NEW x, Known(k, x) PROVE x = NoReg
  <2>1. hubws.regs[k] = NoReg
    BY <1>1, <1>4 DEF Keys
  <2>2. ASSUME NEW d \in Devices, Has(ws[d], wire[d], k, x) PROVE x = NoReg
    <3>1. ws[d].store[k] = NoReg
      BY <1>1, <1>3 DEF Keys
    <3>2. DocsIn(ws[d].queue) = {} /\ Sent(wire[d].out) = {}
      BY <1>3, <1>6
    <3> QED BY <2>2, <3>1, <3>2 DEF Has
  <2> QED BY <1>7, <2>1, <2>2 DEF Known
<1>8. StampsUnique
  BY <1>7 DEF StampsUnique
<1>9. OwnIsOlder
  <2>1. \A d \in Devices : NoReg.hlc[2] # d
    BY <1>1, WsAssumption
  <2> QED BY <1>7, <2>1 DEF OwnIsOlder
<1>10. PointsStamped
  BY <1>1, <1>4 DEF PointsStamped
<1>11. ASSUME NEW d \in Devices PROVE DeviceInv(d, ws[d], wire[d], hubws)
  <2>1. PICK s, w : s = ws[d] /\ w = wire[d]
    OBVIOUS
  <2>2. /\ s \in WsRow /\ s.store = NoRegs /\ s.clock = 0 /\ s.snaps = NoSnaps
        /\ (s.initialized => ~s.inherit) /\ w \in WireRow /\ w.out = <<>> /\ DOMAIN w.out = {}
        /\ DocsIn(s.queue) = {} /\ Fences(s.queue) = {} /\ Sent(w.out) = {}
    BY <1>2, <1>3, <1>6, <2>1
  <2>3. \A k \in Globals : s.store[k] = NoReg /\ hubws.regs[k] = NoReg
    BY <1>1, <1>4, <2>2 DEF Keys
  <2>4. \A e \in Devices : s.snaps[e] = NoSnap /\ hubws.snaps[e] = NoSnap
    BY <1>1, <1>4, <2>2
  <2>5. \A k \in Globals : MetaAt(k, s, w, hubws)
    BY <1>1, <2>2, <2>3 DEF MetaAt, Upto
  <2>6. PointsSent(d, s, w, hubws)
    BY <1>1, <2>2, <2>4 DEF PointsSent
  <2>7. PointsSeen(d, s, w, hubws)
    BY <2>2, <2>4 DEF PointsSeen, Upto
  <2>8. PointShown(d, s, w, hubws)
    <3>1. \A t \in Tabs : s.store[t] = NoReg /\ NoSnap.regs[t] = NoReg
      BY <1>1, <2>2 DEF Keys, NoSnap, NoTabs
    <3>2. Content(NoSnap.regs) = Content(s.store)
      BY <3>1 DEF Content
    <3> QED BY <2>2, <2>4, <3>2 DEF PointShown, Shown
  <2>9. FencesReady(s.queue)
    BY <2>2 DEF FencesReady
  <2> QED BY <2>1, <2>2, <2>5, <2>6, <2>7, <2>8, <2>9 DEF DeviceInv
<1> QED BY <1>5, <1>8, <1>9, <1>10, <1>11 DEF WsInv

(* Every step keeps the invariant.                                         *)
LEMMA StepKeeps ==
  ASSUME WsInv, [WsNext]_wsVars
  PROVE  WsInv'
<1>1. CASE UNCHANGED wsVars
  <2>1. ws' = ws /\ hubws' = hubws /\ wire' = wire /\ spent' = spent
    BY <1>1 DEF wsVars
  <2>2. WsTypeOK' /\ PointsStamped' /\ \A d \in Devices : DeviceInv(d, ws'[d], wire'[d], hubws')
    BY <2>1 DEF WsInv, WsTypeOK, PointsStamped
  <2>3. \A k, x : Known(k, x)' <=> Known(k, x)
    BY <2>1 DEF Known
  <2> QED BY <2>1, <2>2, <2>3 DEF WsInv, StampsUnique, OwnIsOlder
<1>2. ASSUME NEW d \in Devices, User(d) PROVE WsInv'
  BY <1>2, EditKeeps, AskSyncKeeps DEF User
<1>3. ASSUME NEW d \in Devices, Runs(d) PROVE WsInv'
  BY <1>3, RunDocsKeeps, RunHydratedKeeps, RunSyncKeeps, BootFenceKeeps, SyncFenceKeeps DEF Runs
<1>4. ASSUME NEW d \in Devices, PublishTimer(d) PROVE WsInv'
  BY <1>4, PublishTimerKeeps
<1>5. ASSUME NEW d \in Devices, HubPublish(d) PROVE WsInv'
  BY <1>5, HubPublishKeeps
<1>6. ASSUME NEW d \in Devices, WsConnect(d) \/ WsDrop(d) \/ Relaunch(d) PROVE WsInv'
  BY <1>6, WsConnectKeeps, WsDropKeeps, RelaunchKeeps
<1> QED BY <1>1, <1>2, <1>3, <1>4, <1>5, <1>6 DEF WsNext

(* The invariant holds of every behaviour of the service and the hub.      *)
THEOREM WorkspaceInvariant == WsSpec => []WsInv
<1>1. WsInit => WsInv
  BY InitHolds
<1>2. WsInv /\ [WsNext]_wsVars => WsInv'
  BY StepKeeps
<1> QED BY <1>1, <1>2, PTL DEF WsSpec

(* The rows the service and the hub keep stay well formed through every    *)
(* edit, publication, sync, drop and restart.                              *)
THEOREM WsTypeOKAlways == WsSpec => []WsTypeOK
<1>1. WsInv => WsTypeOK
  BY DEF WsInv
<1> QED BY <1>1, WorkspaceInvariant, PTL

----------------------------------------------------------------------------
(* handleRemoteDocs and handleWorkspacePublish: when every queue, socket    *)
(* and timer is empty, all devices and the hub hold the same metadata,      *)
(* whatever frames, connections and processes were lost on the way.        *)
THEOREM GlobalsAgreeAlways == WsSpec => []GlobalsAgree
<1>1. ASSUME WsInv PROVE GlobalsAgree
  <2>1. SUFFICES ASSUME AllQuiet, NEW d \in Devices, NEW k \in Globals
                 PROVE  ws[d].store[k] = hubws.regs[k]
    BY DEF GlobalsAgree
  <2>2. PICK s, w, x, y : s = ws[d] /\ w = wire[d] /\ x = s.store[k] /\ y = hubws.regs[k]
    OBVIOUS
  <2>3. w.up /\ w.out = <<>> /\ s.queue = <<>> /\ s.dirty = {}
    BY <2>1, <2>2 DEF AllQuiet, Quiet
  <2>4. DocsIn(s.queue) = {} /\ ~Hydrating(s.queue) /\ Sent(w.out) = {}
    BY <2>3 DEF DocsIn, Hydrating, Sent
  <2>5. MetaAt(k, s, w, hubws) /\ x \in Reg /\ y \in Reg
    BY <1>1, <2>2, TypesOfState DEF WsInv, DeviceInv, WsRow, Bundle, Keys
  <2>6. Upto(y, x) /\ (x = NoReg \/ Upto(x, y))
    BY <2>2, <2>3, <2>4, <2>5 DEF MetaAt
  <2>7. x.hlc \in Stamps /\ y.hlc \in Stamps
    BY <2>5, HlcTypes
  <2>8. Upto(x, y) => x = y
    BY <2>6, <2>7, UptoOrder
  <2>9. x = NoReg => x = y
    <3>1. ~Later(NoHlc, y.hlc)
      BY <2>7, NothingIsLeast
    <3> QED BY <2>6, <3>1 DEF Upto, NoReg
  <2> QED BY <2>2, <2>6, <2>8, <2>9
<1> QED BY <1>1, WorkspaceInvariant, PTL

(* onDocsChanged, flush and the end of handleHydrated: when everything has  *)
(* been handled, each peer holds a restore point that shows exactly the     *)
(* tabs a device has open.                                                 *)
THEOREM RestorePointCurrentAlways == WsSpec => []RestorePointCurrent
<1>1. ASSUME WsInv PROVE RestorePointCurrent
  <2>1. SUFFICES ASSUME AllQuiet, NEW d \in Devices, NEW e \in Devices, d # e
                 PROVE  Content(ws[e].snaps[d].regs) = Content(ws[d].store)
    BY DEF RestorePointCurrent
  <2>2. \A f \in Devices : /\ wire[f].up /\ DOMAIN wire[f].out = {} /\ ~ws[f].snapDirty
                           /\ DocsIn(ws[f].queue) = {} /\ ~Hydrating(ws[f].queue)
    BY <2>1 DEF AllQuiet, Quiet, DocsIn, Hydrating
  <2>3. Content(hubws.snaps[d].regs) = Content(ws[d].store)
    BY <1>1, <2>2 DEF WsInv, DeviceInv, PointShown, Shown
  <2>4. ws[e].snaps[d] = hubws.snaps[d]
    BY <1>1, <2>1, <2>2 DEF WsInv, DeviceInv, PointsSeen
  <2> QED BY <2>3, <2>4
<1> QED BY <1>1, WorkspaceInvariant, PTL

----------------------------------------------------------------------------
(* What a step may do to the tabs of a device that has been hydrated.      *)
Ours(d) ==
  ws[d].initialized /\ Content(ws'[d].store) # Content(ws[d].store) =>
    spent'.edits > spent.edits \/ Busy(d, "sync") \/ Busy(d, "syncFence")

(* Stamps do not show.                                                     *)
LEMMA ContentOfTabs ==
  ASSUME NEW s, NEW r, \A t \in Tabs : s[t].doc = r[t].doc
  PROVE  Content(s) = Content(r)
  BY DEF Content, Live

(* Only what device e does can change its tabs.                            *)
LEMMA OneDevice ==
  ASSUME WsInv, NEW e \in Devices, NEW r, ws' = [ws EXCEPT ![e] = r],
         \/ ~ws[e].initialized \/ Content(r.store) = Content(ws[e].store)
         \/ spent'.edits > spent.edits \/ Busy(e, "sync") \/ Busy(e, "syncFence")
  PROVE  \A d \in Devices : Ours(d)
<1>1. ws \in [Devices -> WsRow]
  BY TypesOfState DEF WsInv
<1>2. ws'[e] = r /\ \A d \in Devices \ {e} : ws'[d] = ws[d]
  BY <1>1
<1> QED BY <1>2 DEF Ours

(* A change of a queue moves no tab.                                       *)
LEMMA QueueChange ==
  ASSUME WsInv, NEW e \in Devices, NEW q, ws' = [ws EXCEPT ![e].queue = q]
  PROVE  \A d \in Devices : Ours(d)
<1>1. ws \in [Devices -> WsRow]
  BY TypesOfState DEF WsInv
<1>2. PICK r : r = [ws[e] EXCEPT !.queue = q]
  OBVIOUS
<1>3. r.store = ws[e].store
  BY <1>1, <1>2 DEF WsRow
<1>4. ws' = [ws EXCEPT ![e] = r]
  BY <1>2
<1> QED BY <1>3, <1>4, OneDevice

(* One lemma for each kind of step: it leaves the tabs to the user.        *)
LEMMA UserOurs ==
  ASSUME WsInv, NEW e \in Devices, User(e)
  PROVE  \A d \in Devices : Ours(d)
<1>1. ASSUME NEW k \in Keys, NEW doc \in Docs \union {"gone"}, Edit(e, k, doc)
      PROVE  \A d \in Devices : Ours(d)
  <2>1. PICK r : r = RecordDoc(ws[e], e, k, doc)
    OBVIOUS
  <2>2. ws' = [ws EXCEPT ![e] = r]
    BY <1>1, <2>1 DEF Edit
  <2>3. spent'.edits > spent.edits
    BY <1>1 DEF Edit, Spend, WsInv, WsTypeOK
  <2> QED BY <2>2, <2>3, OneDevice
<1>2. ASSUME NEW mode \in {"pull", "push", "merge"}, NEW from \in Devices \union {0}, AskSync(e, mode, from)
      PROVE  \A d \in Devices : Ours(d)
  <2>1. PICK q : q = Append(ws[e].queue, [t |-> "sync", mode |-> mode, from |-> from])
    OBVIOUS
  <2>2. ws' = [ws EXCEPT ![e].queue = q]
    BY <1>2, <2>1 DEF AskSync
  <2> QED BY <2>2, QueueChange
<1> QED BY <1>1, <1>2 DEF User

LEMMA PublishOurs ==
  ASSUME WsInv, NEW e \in Devices, PublishTimer(e)
  PROVE  \A d \in Devices : Ours(d)
<1>1. ws \in [Devices -> WsRow]
  BY TypesOfState DEF WsInv
<1>2. PICK s, f, g : s = [ws[e] EXCEPT !.timer = FALSE] /\ f = Flushed(s) /\ g = SealFailed(s)
  OBVIOUS
<1>3. s \in WsRow /\ s.store = ws[e].store
  BY <1>1, <1>2 DEF WsRow
<1>4. f.store = s.store
  BY <1>2, <1>3, FlushedRow
<1>5. g.store = s.store
  BY <1>2, <1>3 DEF SealFailed, WsRow
<1>6. ws' = [ws EXCEPT ![e] = f] \/ ws' = [ws EXCEPT ![e] = g]
  BY <1>2 DEF PublishTimer
<1> QED BY <1>3, <1>4, <1>5, <1>6, OneDevice

LEMMA RunsOurs ==
  ASSUME WsInv, NEW e \in Devices, Runs(e)
  PROVE  \A d \in Devices : Ours(d)
<1>1. /\ ws \in [Devices -> WsRow] /\ ws[e].queue \in Seq(Task) /\ ws[e] \in WsRow
      /\ DeviceInv(e, ws[e], wire[e], hubws)
  BY TypesOfState DEF WsInv, WsRow
<1>2. PICK s : s = ws[e]
  OBVIOUS
<1>3. s \in WsRow /\ (s.initialized => ~s.inherit) /\ s.queue \in Seq(Task)
  BY <1>1, <1>2 DEF DeviceInv
<1>4. CASE RunDocs(e)
  <2>1. PICK docs, p, r : docs = Head(s.queue).docs /\ p = HandleRemoteDocs(s, e, docs) /\ r = Done(p)
    OBVIOUS
  <2>2. ws' = [ws EXCEPT ![e] = r] /\ s.queue # <<>> /\ Head(s.queue).t = "docs"
    BY <1>2, <1>4, <2>1 DEF RunDocs, Busy
  <2>3. docs \in Bundle
    <3>1. DocsIn(s.queue) = DocsIn(Tail(s.queue)) \union {docs}
      BY <1>3, <2>1, <2>2, QueueTail
    <3> QED BY <1>3, <3>1, QueueTypes
  <2>4. p \in WsRow /\ p.queue = s.queue /\ \A t \in Tabs : p.store[t] = s.store[t]
    BY <1>3, <2>1, <2>3, HandledRow
  <2>5. r.store = p.store
    BY <2>1, <2>2, <2>4, DoneRow DEF SameButQueue
  <2>6. Content(r.store) = Content(s.store)
    BY <2>4, <2>5, ContentOfTabs
  <2> QED BY <1>2, <2>2, <2>6, OneDevice
<1>5. CASE RunHydrated(e)
  <2>1. PICK p, r, h, b : /\ p = [s EXCEPT !.ready = TRUE] /\ r = Inherited(p, e) /\ h = Hydrated(r)
                          /\ b = HeadBecomes(r, [t |-> "bootFence"])
    OBVIOUS
  <2>2. s.queue # <<>> /\ (ws' = [ws EXCEPT ![e] = b] \/ ws' = [ws EXCEPT ![e] = h])
    BY <1>2, <1>5, <2>1 DEF RunHydrated, Busy
  <2>3. p \in WsRow /\ p.store = s.store /\ p.inherit = s.inherit /\ p.queue = s.queue
    BY <1>3, <2>1 DEF WsRow
  <2>4. r \in WsRow /\ r.queue = p.queue /\ (~p.inherit => r = p)
    BY <2>1, <2>3, InheritedRow
  <2>5. h.store = r.store
    BY <2>1, <2>2, <2>3, <2>4, HydratedRow
  <2>6. b.store = r.store
    <3>1. [t |-> "bootFence"] \in Task
      BY DEF Task
    <3> QED BY <2>1, <2>2, <2>3, <2>4, <3>1, HeadBecomesRow DEF SameButQueue
  <2>7. s.initialized => r.store = s.store
    BY <1>3, <2>3, <2>4
  <2> QED BY <1>2, <2>2, <2>5, <2>6, <2>7, OneDevice
<1>6. ASSUME NEW opened \in BOOLEAN, BootFence(e, opened) PROVE \A d \in Devices : Ours(d)
  <2>1. PICK keys, r : keys = {t \in Tabs : s.store[t] # NoReg} /\ r = PublishAttachmentRegisters(s, e, keys)
    OBVIOUS
  <2>2. PICK p : p = [r EXCEPT !.remote = AttachmentRegisters(r.store), !.seen = TRUE, !.dirty = @ \union keys]
    OBVIOUS
  <2>3. PICK f, g, h : f = Flushed(p) /\ g = Hydrated(f) /\ h = Hydrated(s)
    OBVIOUS
  <2>4. /\ keys \in SUBSET Tabs /\ r = PublishAttachmentRegisters(s, e, keys)
        /\ p = [r EXCEPT !.remote = AttachmentRegisters(r.store), !.seen = TRUE, !.dirty = @ \union keys]
        /\ f = Flushed(p) /\ g = Hydrated(f) /\ h = Hydrated(s)
    BY <2>1, <2>2, <2>3
  <2>5. s.queue # <<>> /\ (ws' = [ws EXCEPT ![e] = g] \/ ws' = [ws EXCEPT ![e] = h])
    <3>1. s.queue # <<>>
      BY <1>2, <1>6 DEF BootFence, Busy
    <3>2. opened => ws' = [ws EXCEPT ![e] = g]
      BY <1>2, <1>6, <2>1, <2>2, <2>3 DEF BootFence
    <3>3. ~opened => ws' = [ws EXCEPT ![e] = h]
      BY <1>2, <1>6, <2>3 DEF BootFence
    <3> QED BY <3>1, <3>2, <3>3
  <2>6. r \in WsRow /\ r.queue = s.queue /\ \A t \in Tabs : r.store[t].doc = s.store[t].doc
    BY <1>3, <2>4, PublishedRow
  <2>7. p \in WsRow /\ p.queue = r.queue /\ p.store = r.store
    <3>1. AttachmentRegisters(r.store) \in TabRegs
      BY <2>6 DEF AttachmentRegisters, WsRow, TabRegs, Keys
    <3>2. r.dirty \union keys \in SUBSET Keys
      BY <2>4, <2>6 DEF WsRow, Keys
    <3> QED BY <2>4, <2>6, <3>1, <3>2 DEF WsRow
  <2>8. f \in WsRow /\ f.queue = p.queue /\ f.store = p.store
    BY <2>4, <2>7, FlushedRow
  <2>9. g.store = f.store
    <3>1. f \in WsRow /\ f.queue # <<>> /\ g = Hydrated(f)
      BY <2>4, <2>5, <2>6, <2>7, <2>8
    <3> QED BY <3>1, HydratedRow
  <2>10. h.store = s.store
    BY <1>3, <2>4, <2>5, HydratedRow
  <2>11. Content(g.store) = Content(s.store)
    BY <2>6, <2>7, <2>8, <2>9, ContentOfTabs
  <2> QED BY <1>2, <2>5, <2>10, <2>11, OneDevice
<1>7. CASE RunSync(e)
  <2>1. \E r : ws' = [ws EXCEPT ![e] = r]
    BY <1>7 DEF RunSync
  <2>2. Busy(e, "sync")
    BY <1>7 DEF RunSync
  <2> QED BY <2>1, <2>2, OneDevice
<1>8. ASSUME NEW opened \in BOOLEAN, SyncFence(e, opened) PROVE \A d \in Devices : Ours(d)
  <2>1. \E r : ws' = [ws EXCEPT ![e] = r]
    BY <1>8 DEF SyncFence
  <2>2. Busy(e, "syncFence")
    BY <1>8 DEF SyncFence
  <2> QED BY <2>1, <2>2, OneDevice
<1> QED BY <1>4, <1>5, <1>6, <1>7, <1>8 DEF Runs

LEMMA HubOurs ==
  ASSUME WsInv, NEW e \in Devices, HubPublish(e)
  PROVE  \A d \in Devices : Ours(d)
<1>1. ws \in [Devices -> WsRow]
  BY TypesOfState DEF WsInv
<1>2. PICK won : ws' = [f \in Devices |->
                   IF f # e /\ wire[f].up /\ won # Nothing
                   THEN [ws[f] EXCEPT !.queue = Append(@, [t |-> "docs", docs |-> won])] ELSE ws[f]]
  BY DEF HubPublish
<1>3. \A d \in Devices : ws'[d].store = ws[d].store
  BY <1>1, <1>2 DEF WsRow
<1> QED BY <1>3 DEF Ours

LEMMA WireOurs ==
  ASSUME WsInv, NEW e \in Devices, WsConnect(e) \/ WsDrop(e) \/ Relaunch(e)
  PROVE  \A d \in Devices : Ours(d)
<1>1. CASE WsConnect(e)
  <2>1. \E q : ws' = [ws EXCEPT ![e].queue = q]
    BY <1>1 DEF WsConnect
  <2> QED BY <2>1, QueueChange
<1>2. CASE WsDrop(e)
  <2>1. \E q : ws' = [ws EXCEPT ![e].queue = q]
    BY <1>2 DEF WsDrop
  <2> QED BY <2>1, QueueChange
<1>3. CASE Relaunch(e)
  <2>1. PICK r : r = Reborn(ws[e])
    OBVIOUS
  <2>2. ws' = [ws EXCEPT ![e] = r]
    BY <1>3, <2>1 DEF Relaunch
  <2>3. r.store = ws[e].store
    BY <2>1, TypesOfState, RebornRow DEF WsInv
  <2> QED BY <2>2, <2>3, OneDevice
<1> QED BY <1>1, <1>2, <1>3

(* initialRemoteSnapshot and its one-time marker: after the first hydration *)
(* no frame, reconnection or restart changes the tabs of a device; only the *)
(* user's edits and the syncs the user asked for do.                       *)
THEOREM LocalTabsAreOursAlways == WsSpec => LocalTabsAreOurs
<1>1. ASSUME WsInv, WsNext PROVE \A d \in Devices : Ours(d)
  BY <1>1, UserOurs, PublishOurs, RunsOurs, HubOurs, WireOurs DEF WsNext
<1>2. ASSUME WsInv, [WsNext]_wsVars
      PROVE  [\A d \in Devices :
                ws[d].initialized /\ Content(ws'[d].store) # Content(ws[d].store) =>
                  spent'.edits > spent.edits \/ Busy(d, "sync") \/ Busy(d, "syncFence")]_wsVars
  BY <1>1, <1>2 DEF Ours
<1> QED BY <1>2, WorkspaceInvariant, PTL DEF WsSpec, LocalTabsAreOurs

=============================================================================
