----------------------- MODULE EngineReplicas_proofs -----------------------
(***************************************************************************)
(* Theorems about the replicas of EngineReplicas: what a walk through      *)
(* causal parents can find, type correctness, the browser against the      *)
(* record, no resurrection, and convergence.                               *)
(***************************************************************************)
EXTENDS EngineReplicas, FiniteSetTheorems, WellFoundedInduction, TLAPS

(* ---- the ancestry walk ---- *)

(* The least element of a set of numbers.                                  *)
LEMMA NatMin ==
  ASSUME NEW T \in SUBSET Nat, T # {}
  PROVE  \E n \in T : \A m \in T : n <= m
<1>1. IsWellFoundedOn(OpToRel(<, Nat), Nat)
  BY NatLessThanWellFounded
<1>2. PICK n \in T : \A m \in T : ~(<<m, n>> \in OpToRel(<, Nat))
  BY <1>1, WFMin
<1>3. \A m \in T : ~(m < n)
  BY <1>2 DEF OpToRel
<1> QED BY <1>3

(* One step of the walk.                                                   *)
WalkStep(edges, fence, t) ==
  IF WalkStops(edges, fence, t) THEN t ELSE ParentIn(edges, t)

(* The first steps of the walk.                                            *)
IsWalk(f, edges, start, fence, n) ==
  f = [k \in 0..n |-> IF k = 0 THEN start ELSE WalkStep(edges, fence, f[k-1])]

(* The walk is a function: built one step after the other.                 *)
LEMMA WalkExists ==
  ASSUME NEW edges, NEW start, NEW fence, NEW n \in Nat
  PROVE  \E f : IsWalk(f, edges, start, fence, n)
<1> DEFINE Has(m) == \E f : IsWalk(f, edges, start, fence, m)
<1> DEFINE T == {m \in Nat : ~Has(m)}
<1>0. T \subseteq Nat
  OBVIOUS
<1> HIDE DEF T
<1>1. ASSUME T # {} PROVE FALSE
  <2>1. PICK m \in T : \A l \in T : m <= l
    BY <1>0, <1>1, NatMin
  <2>5. m \in Nat /\ ~Has(m)
    BY <2>1 DEF T
  <2>2. CASE m = 0
    <3>1. PICK f : f = [k \in 0..m |-> start]
      OBVIOUS
    <3>2. f = [k \in 0..m |-> IF k = 0 THEN start ELSE WalkStep(edges, fence, f[k-1])]
      BY <2>2, <3>1
    <3> QED BY <2>5, <3>2 DEF IsWalk
  <2>3. CASE m # 0
    <3>1. m - 1 \in Nat /\ m - 1 \notin T
      <4> HIDE DEF Has
      <4> QED BY <2>1, <2>3, <2>5
    <3>0. Has(m - 1)
      <4> HIDE DEF Has
      <4> QED BY <3>1 DEF T
    <3>2. PICK f : f = [k \in 0..(m-1) |->
                          IF k = 0 THEN start ELSE WalkStep(edges, fence, f[k-1])]
      BY <3>0 DEF IsWalk
    <3>3. PICK g : g = [k \in 0..m |->
                          IF k = m THEN WalkStep(edges, fence, f[m-1]) ELSE f[k]]
      OBVIOUS
    <3>4. ASSUME NEW k \in 0..m
          PROVE g[k] = IF k = 0 THEN start ELSE WalkStep(edges, fence, g[k-1])
      <4>1. CASE k = m
        BY <2>3, <2>5, <3>3, <4>1
      <4>2. CASE k # m /\ k # 0
        <5>1. k \in 0..(m-1) /\ k - 1 \in 0..m /\ k - 1 # m
          BY <2>5, <4>2
        <5>2. g[k] = f[k] /\ g[k-1] = f[k-1]
          BY <3>3, <5>1
        <5>3. f[k] = WalkStep(edges, fence, f[k-1])
          BY <3>2, <4>2, <5>1
        <5> QED BY <4>2, <5>2, <5>3
      <4>3. CASE k # m /\ k = 0
        BY <2>3, <2>5, <3>2, <3>3, <4>3
      <4> QED BY <4>1, <4>2, <4>3
    <3>5. g = [k \in 0..m |-> IF k = 0 THEN start ELSE WalkStep(edges, fence, g[k-1])]
      BY <3>3, <3>4
    <3> QED BY <2>5, <3>5 DEF IsWalk
  <2> QED BY <2>2, <2>3
<1> QED BY <1>1 DEF T

(* What Descends computes: a path from the start to the fence.             *)
LEMMA WalkSteps ==
  ASSUME NEW edges, NEW start, NEW fence, Descends(edges, start, fence)
  PROVE  \E n \in Nat : \E f :
           /\ f[0] = start
           /\ \A k \in 1..n : f[k] = WalkStep(edges, fence, f[k-1])
           /\ \E k \in 0..n : f[k] = fence
<1>1. PICK n \in Nat : n = MaxAncestryWalk - 1
  BY AncestryAssumption
<1>2. PICK g : IsWalk(g, edges, start, fence, n)
  BY WalkExists
<1> DEFINE walk == CHOOSE walk : walk = [k \in 0..(MaxAncestryWalk - 1) |->
          IF k = 0 THEN start
          ELSE IF WalkStops(edges, fence, walk[k-1]) THEN walk[k-1]
          ELSE ParentIn(edges, walk[k-1])]
<1>3. walk = [k \in 0..(MaxAncestryWalk - 1) |->
          IF k = 0 THEN start
          ELSE IF WalkStops(edges, fence, walk[k-1]) THEN walk[k-1]
          ELSE ParentIn(edges, walk[k-1])]
  BY <1>1, <1>2 DEF WalkStep, IsWalk
<1>4. \E k \in 0..(MaxAncestryWalk - 1) : walk[k] = fence
  BY Zenon DEF Descends
<1> HIDE DEF walk
<1>5. PICK f : f = walk
  OBVIOUS
<1>6. \A k \in 0..n : f[k] = IF k = 0 THEN start ELSE WalkStep(edges, fence, f[k-1])
  BY <1>1, <1>3, <1>5 DEF WalkStep
<1>7. \A k \in 1..n : f[k] = WalkStep(edges, fence, f[k-1])
  BY <1>6
<1>8. f[0] = start
  BY <1>6
<1> QED BY <1>1, <1>4, <1>5, <1>7, <1>8

(* ---- the records made so far ---- *)

(* A set of records in which a timestamp names one record, and a record's  *)
(* writer knew what the writer of its parent knew, and the parent too.     *)
History(W) ==
  /\ W \subseteq WireType
  /\ \A x, y \in W : x.hlc = y.hlc => x = y
  /\ \A x \in W : \/ x.parent = NoHlc
                  \/ \E y \in W : /\ y.hlc = x.parent
                                  /\ y.past \union Explicit(y) \subseteq x.past

(* The edges a replica has learned are those of records made.              *)
EdgesTrue(edges, W) == \A e \in edges : \E x \in W : e.token = x.hlc /\ e.parent = x.parent

(* What descends from a deletion was written by one who had heard of it:   *)
(* each record on the walk knew no more than K, so the deletion is in K.   *)
LEMMA DescentIsHeard ==
  ASSUME NEW W, History(W), NEW edges, EdgesTrue(edges, W),
         NEW start, NEW fence, Descends(edges, start, fence), NEW K,
         start = NoHlc \/ \E y \in W : y.hlc = start /\ y.past \union Explicit(y) \subseteq K
  PROVE  \E y \in W : y.hlc = fence /\ y.past \union Explicit(y) \subseteq K
<1> DEFINE Heard(t) ==
      t = NoHlc \/ \E y \in W : y.hlc = t /\ y.past \union Explicit(y) \subseteq K
<1>0. PICK n \in Nat :
         \E f : /\ f[0] = start
                /\ \A k \in 1..n : f[k] = WalkStep(edges, fence, f[k-1])
                /\ \E k \in 0..n : f[k] = fence
  BY WalkSteps
<1>1. PICK f : /\ f[0] = start
               /\ \A k \in 1..n : f[k] = WalkStep(edges, fence, f[k-1])
               /\ \E k \in 0..n : f[k] = fence
  BY <1>0
<1>2. ASSUME NEW t, Heard(t) PROVE Heard(WalkStep(edges, fence, t))
  <2>1. CASE WalkStops(edges, fence, t)
    BY <1>2, <2>1 DEF WalkStep
  <2>2. CASE ~WalkStops(edges, fence, t)
    <3>1. PICK y \in W : y.hlc = t /\ y.past \union Explicit(y) \subseteq K
      BY <1>2, <2>2 DEF WalkStops
    <3>2. \E e \in edges : e.token = t
      BY <2>2 DEF WalkStops
    <3>3. PICK e \in edges : e.token = t /\ e.parent = ParentIn(edges, t)
      BY <3>2 DEF ParentIn
    <3>4. PICK x \in W : e.token = x.hlc /\ e.parent = x.parent
      BY <3>3 DEF EdgesTrue
    <3>5. x = y
      BY <3>1, <3>3, <3>4 DEF History
    <3>6. WalkStep(edges, fence, t) = y.parent
      BY <2>2, <3>3, <3>4, <3>5 DEF WalkStep
    <3>7. \/ y.parent = NoHlc
          \/ \E z \in W : z.hlc = y.parent /\ z.past \union Explicit(z) \subseteq y.past
      BY DEF History
    <3> QED BY <3>1, <3>6, <3>7
  <2> QED BY <2>1, <2>2
<1> DEFINE T == {k \in 0..n : ~Heard(f[k])}
<1>3. T = {}
  <2> SUFFICES ASSUME T # {} PROVE FALSE
    OBVIOUS
  <2>1. T \subseteq Nat
    OBVIOUS
  <2>2. PICK m \in T : \A l \in T : m <= l
    <3> HIDE DEF T
    <3> QED BY <2>1, NatMin
  <2>3. m \in 0..n /\ ~Heard(f[m])
    OBVIOUS
  <2> HIDE DEF Heard
  <2>4. m # 0
    BY <1>1, <2>3 DEF Heard
  <2>5. m \in 1..n /\ m - 1 \in 0..n /\ ~(m <= m - 1)
    BY <2>3, <2>4
  <2>6. Heard(f[m-1])
    BY <2>2, <2>5
  <2>7. f[m] = WalkStep(edges, fence, f[m-1])
    BY <1>1, <2>5
  <2> QED BY <1>2, <2>3, <2>6, <2>7
<1>4. Heard(fence)
  <2> HIDE DEF Heard
  <2> QED BY <1>1, <1>3
<1>5. fence # NoHlc
  BY Zenon DEF Descends
<1> QED BY <1>4, <1>5

(* ---- timestamps and cells ---- *)

Times == HlcType \union {NoHlc}
Wires == WireType \union {NoWire}

(* Timestamps are totally ordered, and NoHlc comes before all of them.     *)
LEMMA TimesOrdered ==
  /\ \A a \in Times : ~Before(a, a)
  /\ \A a, b \in Times : a = b \/ Before(a, b) \/ Before(b, a)
  /\ \A a, b \in Times : ~(Before(a, b) /\ Before(b, a))
  /\ \A a, b, c \in Times : Before(a, b) /\ Before(b, c) => Before(a, c)
  /\ \A a \in HlcType : Before(NoHlc, a) /\ a # NoHlc
BY DEF Times, HlcType, NoHlc, Before

(* The fields of a record, or of none.                                     *)
LEMMA WireFields ==
  /\ \A w \in Wires : /\ w.hlc \in Times /\ w.parent \in Times
                      /\ w.cause \in Causes /\ w.past \subseteq HlcType
  /\ \A w \in WireType : w.hlc \in HlcType /\ w # NoWire
  /\ NoWire.hlc = NoHlc /\ NoWire.parent = NoHlc /\ NoWire.cause = "WRITE"
  /\ NoWire.past = {} /\ Explicit(NoWire) = {}
  /\ \A w \in Wires : w.hlc = NoHlc => w = NoWire
BY TimesOrdered DEF Wires, WireType, NoWire, Times, Causes, WriteCauses, Explicit

(* A cause is a write or a deletion.                                       *)
LEMMA CausesSplit ==
  /\ \A w \in Wires : IsDeletion(w) <=> w.cause \notin WriteCauses
  /\ \A w \in Wires : w.cause = "EXPLICIT_DELETE" => IsDeletion(w)
  /\ ~Live(NoWire)
BY WireFields DEF IsDeletion, Causes, WriteCauses, DeletionCauses, Live

(* What a cell holds is made of records made.                              *)
CellDrawn(c, W) ==
  /\ {c.rec, c.tomb, c.parked} \subseteq W \union {NoWire}
  /\ EdgesTrue(c.edges, W)

(* The fence is the newest explicit deletion learned, the tombstone is not *)
(* older, and the deletions the cell holds are among those learned.        *)
CellFenced(c, K, W) ==
  /\ \A h \in K : \E x \in W : x.hlc = h /\ x.cause = "EXPLICIT_DELETE"
  /\ K = {} => c.fence = NoHlc
  /\ K # {} => c.fence \in K /\ \A g \in K : AtMost(g, c.fence)
  /\ c.tomb # NoWire => IsDeletion(c.tomb)
  /\ AtMost(c.fence, c.tomb.hlc)
  /\ Explicit(c.tomb) \subseteq K /\ Explicit(c.rec) \subseteq K
  /\ c.parked.cause \in WriteCauses

(* A record may stand in the cell: it is not behind the fence, and if it   *)
(* is live its writer knew the deletion at the fence; unless the cookie    *)
(* store refused a record that new.                                        *)
SoundFor(c, U, x) ==
  \/ c.fence = NoHlc
  \/ \E h \in U : ~Before(h, c.fence)
  \/ AtMost(c.fence, x.hlc) /\ (Live(x) => c.fence \in x.past)

LEMMA CellFields ==
  ASSUME NEW c \in CellType
  PROVE  /\ c.rec \in Wires /\ c.tomb \in Wires /\ c.parked \in Wires
         /\ c.fence \in Times /\ c.edges \subseteq EdgeType /\ c.at \in Nat
BY DEF CellType, Wires, Times

LEMMA LaterIsLater ==
  ASSUME NEW a \in Wires, NEW b \in Wires
  PROVE  /\ Later(a, b) \in {a, b}
         /\ AtMost(a.hlc, Later(a, b).hlc) /\ AtMost(b.hlc, Later(a, b).hlc)
BY WireFields, TimesOrdered DEF Later, AtMost

(* What learning a record does to the parts of a cell.                     *)
LEMMA LearnFields ==
  ASSUME NEW c \in CellType, NEW w \in WireType
  PROVE  /\ Learn(c, w) \in CellType
         /\ Learn(c, w).rec = c.rec /\ Learn(c, w).parked = c.parked
         /\ Learn(c, w).edges = NoteAncestry(c.edges, w)
         /\ Learn(c, w).fence = NoteFence(c.fence, w)
         /\ Learn(c, w).tomb = NoteTombstone(c.tomb, w)
<1>1. NoteAncestry(c.edges, w) \in SUBSET EdgeType
  BY DEF NoteAncestry, CellType, EdgeType, WireType
<1>2. NoteFence(c.fence, w) \in HlcType \union {NoHlc}
  BY DEF NoteFence, CellType, WireType
<1>3. NoteTombstone(c.tomb, w) \in WireType \union {NoWire}
  BY DEF NoteTombstone, Later, CellType
<1> QED BY <1>1, <1>2, <1>3 DEF Learn, CellType

LEMMA LearnKeeps ==
  ASSUME NEW W, History(W), NEW w \in W, NEW c \in CellType, NEW K,
         CellDrawn(c, W), CellFenced(c, K, W)
  PROVE  /\ CellDrawn(Learn(c, w), W)
         /\ CellFenced(Learn(c, w), K \union Explicit(w), W)
<1> DEFINE n == Learn(c, w)
           L == K \union Explicit(w)
<1>0. w \in WireType /\ w \in Wires /\ w.hlc \in HlcType /\ w.hlc \in Times
  BY DEF History, Wires, WireType, Times
<1>1. /\ n.rec = c.rec /\ n.parked = c.parked /\ n.edges = NoteAncestry(c.edges, w)
      /\ n.fence = NoteFence(c.fence, w) /\ n.tomb = NoteTombstone(c.tomb, w)
  BY <1>0, LearnFields
<1>2. /\ c.tomb \in Wires /\ c.fence \in Times /\ c.tomb.hlc \in Times
  BY CellFields, WireFields
<1> HIDE DEF n
<1>3. EdgesTrue(n.edges, W)
  BY <1>1 DEF CellDrawn, EdgesTrue, NoteAncestry
<1>4. n.tomb \in {c.tomb, w}
  BY <1>0, <1>1, <1>2, LaterIsLater DEF NoteTombstone
<1>5. CellDrawn(n, W)
  BY <1>1, <1>3, <1>4 DEF CellDrawn
<1>6. \A h \in L : \E x \in W : x.hlc = h /\ x.cause = "EXPLICIT_DELETE"
  BY DEF CellFenced, Explicit
<1>7. n.tomb # NoWire => IsDeletion(n.tomb)
  BY <1>1, <1>4 DEF CellFenced, NoteTombstone
<1>8. /\ AtMost(c.tomb.hlc, n.tomb.hlc)
      /\ IsDeletion(w) => AtMost(w.hlc, n.tomb.hlc)
  BY <1>0, <1>1, <1>2, LaterIsLater DEF NoteTombstone, AtMost
<1>9. n.tomb.hlc \in Times
  BY <1>0, <1>2, <1>4
<1>10. AtMost(n.fence, n.tomb.hlc)
  <2>1. CASE n.fence = c.fence
    BY <1>2, <1>8, <1>9, <2>1, TimesOrdered DEF AtMost, CellFenced
  <2>2. CASE n.fence # c.fence
    <3>1. n.fence = w.hlc /\ w.cause = "EXPLICIT_DELETE"
      BY <1>1, <2>2 DEF NoteFence
    <3> QED BY <1>0, <1>8, <3>1, CausesSplit
  <2> QED BY <2>1, <2>2
<1>11. Explicit(n.tomb) \subseteq L /\ Explicit(n.rec) \subseteq L
  BY <1>1, <1>4 DEF CellFenced
<1>12. n.parked.cause \in WriteCauses
  BY <1>1 DEF CellFenced
<1>13. L = {} => n.fence = NoHlc
  BY <1>1 DEF CellFenced, NoteFence, Explicit
<1>14. L # {} => n.fence \in L /\ \A g \in L : AtMost(g, n.fence)
  <2>0. \A g \in K : g \in Times
    BY DEF CellFenced, History, WireType, Times
  <2>1. CASE w.cause # "EXPLICIT_DELETE"
    BY <1>1, <2>1 DEF CellFenced, NoteFence, Explicit
  <2>2. CASE w.cause = "EXPLICIT_DELETE" /\ K = {}
    <3>1. c.fence = NoHlc /\ Before(c.fence, w.hlc)
      BY <1>0, <2>2, TimesOrdered DEF CellFenced
    <3>2. L = {w.hlc} /\ n.fence = w.hlc
      BY <1>1, <2>2, <3>1 DEF NoteFence, Explicit
    <3> QED BY <3>2 DEF AtMost
  <2>3. CASE w.cause = "EXPLICIT_DELETE" /\ K # {}
    <3>0. L = K \union {w.hlc}
      BY <2>3 DEF Explicit
    <3>1. c.fence \in K /\ \A g \in K : AtMost(g, c.fence)
      BY <2>3 DEF CellFenced
    <3>2. CASE Before(c.fence, w.hlc)
      <4>1. n.fence = w.hlc
        BY <1>1, <2>3, <3>2 DEF NoteFence
      <4> QED BY <1>0, <1>2, <2>0, <3>0, <3>1, <3>2, <4>1, TimesOrdered DEF AtMost
    <3>3. CASE ~Before(c.fence, w.hlc)
      <4>1. n.fence = c.fence
        BY <1>1, <2>3, <3>3 DEF NoteFence
      <4> QED BY <1>0, <1>2, <2>0, <3>0, <3>1, <3>3, <4>1, TimesOrdered DEF AtMost
    <3> QED BY <3>2, <3>3
  <2> QED BY <2>1, <2>2, <2>3
<1> HIDE DEF L
<1>15. CellFenced(n, L, W)
  BY <1>6, <1>7, <1>10, <1>11, <1>12, <1>13, <1>14 DEF CellFenced
<1> QED BY <1>5, <1>15 DEF n, L

(* ---- what resolve lets through ---- *)

(* The facts about a cell that the guard rests on.                         *)
CellKept(c, K, W) ==
  /\ c \in CellType /\ History(W) /\ CellDrawn(c, W) /\ CellFenced(c, K, W)

(* The deletion at the fence is a record made.                             *)
LEMMA FenceIsMade ==
  ASSUME NEW c, NEW K, NEW W, CellKept(c, K, W), c.fence # NoHlc
  PROVE  /\ c.fence \in HlcType
         /\ \E x \in W : x.hlc = c.fence /\ x.cause = "EXPLICIT_DELETE"
BY DEF CellKept, CellFenced, CellType

(* A record whose ancestry leads to an explicit deletion was written by    *)
(* one who knew it.                                                        *)
LEMMA DescentKnows ==
  ASSUME NEW W, History(W), NEW edges, EdgesTrue(edges, W),
         NEW start, NEW x \in W, x.cause = "EXPLICIT_DELETE", NEW K,
         Descends(edges, start, x.hlc),
         start = NoHlc \/ \E y \in W : y.hlc = start /\ y.past \union Explicit(y) \subseteq K
  PROVE  x.hlc \in K
<1>1. PICK y \in W : y.hlc = x.hlc /\ y.past \union Explicit(y) \subseteq K
  BY DescentIsHeard
<1>2. y = x
  BY <1>1 DEF History
<1> QED BY <1>1, <1>2 DEF Explicit

LEMMA LiveWriteKnows ==
  ASSUME NEW c, NEW K, NEW W, CellKept(c, K, W), NEW w \in W,
         w.cause \in WriteCauses, c.fence # NoHlc,
         Descends(c.edges, w.parent, c.fence)
  PROVE  c.fence \in w.past
<1>1. PICK x \in W : x.hlc = c.fence /\ x.cause = "EXPLICIT_DELETE"
  BY FenceIsMade
<1>2. \/ w.parent = NoHlc
      \/ \E y \in W : y.hlc = w.parent /\ y.past \union Explicit(y) \subseteq w.past
  BY DEF CellKept, History
<1>3. Descends(c.edges, w.parent, x.hlc)
  BY <1>1
<1> QED BY <1>1, <1>2, <1>3, DescentKnows DEF CellKept, CellDrawn

(* A write that resolve applies may stand in the cell.                     *)
LEMMA WriteApplied ==
  ASSUME NEW c, NEW K, NEW W, CellKept(c, K, W), NEW U, SoundFor(c, U, c.rec),
         NEW w \in W, w.cause \in WriteCauses, Resolve(c, w) = "applied"
  PROVE  SoundFor(c, U, w)
<1>0. SUFFICES ASSUME c.fence # NoHlc, ~\E h \in U : ~Before(h, c.fence)
               PROVE  SoundFor(c, U, w)
  BY DEF SoundFor
<1>1. /\ w \in Wires /\ w.hlc \in Times /\ c.fence \in Times /\ c.rec \in Wires
      /\ c.rec.hlc \in Times
  BY CellFields, WireFields DEF CellKept, History, Wires
<1>2. ~Blocked(c, w)
  BY DEF Resolve
<1>3. CASE Before(c.fence, w.hlc)
  <2>1. Descends(c.edges, w.parent, c.fence)
    BY <1>0, <1>2, <1>3 DEF Blocked
  <2> QED BY <1>0, <1>3, <2>1, LiveWriteKnows DEF SoundFor, AtMost
<1>4. CASE ~Before(c.fence, w.hlc)
  <2>1. ~LateDeletionWins(c, w)
    BY DEF LateDeletionWins, WriteCauses
  <2>2. LastWriterWins(c, w) = "applied"
    BY <1>2, <2>1 DEF Resolve
  <2>3. AtMost(c.fence, c.rec.hlc)
    BY <1>0 DEF SoundFor
  <2>4. c.rec # NoWire
    BY <1>0, <2>3, FenceIsMade, WireFields, TimesOrdered DEF AtMost, Times
  <2>5. Before(c.rec.hlc, w.hlc)
    BY <2>2, <2>4 DEF LastWriterWins
  <2> QED BY <1>1, <1>4, <2>3, <2>5, TimesOrdered DEF AtMost
<1> QED BY <1>3, <1>4

(* A record that resolve does not apply leaves the one in the cell         *)
(* standing, whatever it teaches.                                          *)
LEMMA NotApplied ==
  ASSUME NEW c, NEW K, NEW W, CellKept(c, K, W), NEW U, SoundFor(c, U, c.rec),
         NEW w \in W, Resolve(Learn(c, w), w) # "applied"
  PROVE  SoundFor(Learn(c, w), U, c.rec)
<1> DEFINE n == Learn(c, w)
<1>0. /\ w \in WireType /\ w \in Wires /\ w.hlc \in Times /\ c.rec \in Wires
      /\ c.rec.hlc \in Times /\ c \in CellType /\ History(W)
  BY CellFields, WireFields DEF CellKept, History, Wires
<1>1. n.rec = c.rec /\ n.fence = NoteFence(c.fence, w)
  BY <1>0, LearnFields
<1>2. EdgesTrue(n.edges, W)
  BY <1>0, LearnKeeps DEF CellKept, CellDrawn
<1> SUFFICES SoundFor(n, U, c.rec)
  OBVIOUS
<1>5. Resolve(n, w) # "applied"
  OBVIOUS
<1> HIDE DEF n
<1>3. CASE n.fence = c.fence
  BY <1>3 DEF SoundFor
<1>4. CASE n.fence # c.fence
  <2>1. w.cause = "EXPLICIT_DELETE" /\ n.fence = w.hlc
    BY <1>1, <1>4 DEF NoteFence
  <2>2. ~Blocked(n, w)
    BY <2>1 DEF Blocked, WriteCauses
  <2>3. /\ ~(n.rec # NoWire /\ LateDeletionWins(n, w))
        /\ LastWriterWins(n, w) # "applied"
    BY <1>5, <2>2 DEF Resolve
  <2>4. n.rec # NoWire /\ ~Before(n.rec.hlc, w.hlc)
    BY <1>0, <1>1, <2>3, TimesOrdered DEF LastWriterWins
  <2>5. c.rec \in W /\ IsDeletion(w)
    BY <1>0, <1>1, <2>1, <2>4, CausesSplit DEF CellKept, CellDrawn
  <2>6. CASE c.rec.hlc = w.hlc
    <3>1. c.rec = w
      BY <1>0, <2>5, <2>6 DEF History
    <3> QED BY <2>1, <2>5, <3>1 DEF SoundFor, AtMost, Live
  <2>7. CASE Before(w.hlc, c.rec.hlc) /\ IsDeletion(c.rec)
    BY <2>1, <2>7 DEF SoundFor, AtMost, Live
  <2>8. CASE Before(w.hlc, c.rec.hlc) /\ ~IsDeletion(c.rec)
    <3>1. Descends(n.edges, c.rec.hlc, w.hlc)
      BY <1>1, <2>1, <2>3, <2>4, <2>8 DEF LateDeletionWins
    <3>2. c.rec.past \union Explicit(c.rec) \subseteq c.rec.past
      BY <1>0, <2>8, CausesSplit DEF Explicit
    <3>3. w.hlc \in c.rec.past
      BY <1>0, <1>2, <2>1, <2>5, <3>1, <3>2, DescentKnows
    <3> QED BY <2>1, <2>8, <3>3 DEF SoundFor, AtMost
  <2> QED BY <1>0, <1>1, <2>4, <2>6, <2>7, <2>8, TimesOrdered
<1> QED BY <1>3, <1>4

(* The record an applied one is stored as may stand in the cell.           *)
LEMMA AppliedStands ==
  ASSUME NEW c, NEW K, NEW W, CellKept(c, K, W), NEW U, SoundFor(c, U, c.rec),
         NEW w \in W, Resolve(Learn(c, w), w) = "applied"
  PROVE  LET x == Winner(Learn(c, w), w) IN
         /\ x \in W /\ SoundFor(Learn(c, w), U, x)
         /\ Explicit(x) \subseteq K \union Explicit(w)
<1> DEFINE n == Learn(c, w)
           L == K \union Explicit(w)
<1>0. /\ w \in WireType /\ w \in Wires /\ w.hlc \in HlcType /\ c \in CellType /\ History(W)
  BY WireFields DEF CellKept, History, Wires
<1>1. n.rec = c.rec /\ n.fence = NoteFence(c.fence, w) /\ n.tomb = NoteTombstone(c.tomb, w)
  BY <1>0, LearnFields
<1>2. CellDrawn(n, W) /\ CellFenced(n, L, W) /\ n \in CellType
  BY <1>0, LearnKeeps, LearnFields DEF CellKept
<1> HIDE DEF n, L
<1>3. CellKept(n, L, W)
  BY <1>0, <1>2 DEF CellKept
<1>4. CASE IsDeletion(w)
  <2>1. Winner(n, w) = n.tomb
    BY <1>4 DEF Winner
  <2>2. AtMost(w.hlc, n.tomb.hlc)
    BY <1>0, <1>1, <1>4, LaterIsLater, CellFields DEF NoteTombstone
  <2>3. n.tomb # NoWire
    BY <1>0, <2>2, TimesOrdered, WireFields DEF AtMost, Times
  <2>4. n.tomb \in W /\ IsDeletion(n.tomb) /\ AtMost(n.fence, n.tomb.hlc)
    BY <1>2, <2>3 DEF CellDrawn, CellFenced
  <2>5. Explicit(n.tomb) \subseteq L
    BY <1>2 DEF CellFenced
  <2> QED BY <2>1, <2>4, <2>5 DEF SoundFor, Live, n, L
<1>5. CASE ~IsDeletion(w)
  <2>1. Winner(n, w) = w /\ w.cause \in WriteCauses /\ Explicit(w) = {}
    BY <1>0, <1>5, CausesSplit DEF Winner, Explicit
  <2>2. n.fence = c.fence
    BY <1>0, <1>1, <1>5, CausesSplit DEF NoteFence
  <2>3. SoundFor(n, U, n.rec)
    BY <1>1, <2>2 DEF SoundFor
  <2>4. Resolve(n, w) = "applied"
    BY DEF n
  <2>5. SoundFor(n, U, w)
    BY <1>3, <2>1, <2>3, <2>4, WriteApplied
  <2> QED BY <2>1, <2>5 DEF n, L
<1> QED BY <1>4, <1>5

(* ---- tasks ---- *)

AllIdle == [q \in Queues |-> Idle]

(* A device has one task under way at most, and only captures stamp.       *)
OneTask(F) ==
  /\ \A q \in Queues : F[q].kind = "idle" => F[q] = Idle
  /\ F["capture"] = Idle \/ F["records"] = Idle
  /\ F["records"].kind # "stamped"

(* What device d holds, and what it is about to store, may stand.          *)
TaskStands(d, c, F, K, U, W) ==
  /\ F = AllIdle => SoundFor(c, U, c.rec)
  /\ \A q \in Queues : F[q].kind = "applying" =>
        /\ F[q].wire \in W /\ SoundFor(c, U, F[q].wire)
        /\ Explicit(F[q].wire) \subseteq K
  /\ F["capture"].kind = "stamped" =>
        LET w == F["capture"].wire IN
        /\ w \in W /\ w.hlc.dev = d
        /\ K \subseteq w.past /\ \A h \in K : Before(h, w.hlc)

LEMMA IdleKind == Idle.kind = "idle" /\ Idle \in FiberType
BY DEF Idle, FiberType

(* Setting one queue while the other is idle.                              *)
LEMMA OneTaskSet ==
  ASSUME NEW F \in [Queues -> FiberType], NEW q \in Queues, NEW f \in FiberType,
         \A p \in Queues : p # q => F[p] = Idle,
         f.kind = "idle" => f = Idle, f.kind = "stamped" => q = "capture"
  PROVE  LET G == [F EXCEPT ![q] = f] IN
         /\ G \in [Queues -> FiberType] /\ G[q] = f /\ OneTask(G)
         /\ \A p \in Queues : p # q => G[p] = Idle
         /\ f = Idle => G = AllIdle
         /\ G = AllIdle => f = Idle
BY IdleKind DEF OneTask, Queues, AllIdle

(* Retrying the parked write, from a cell whose record stands.             *)
LEMMA RetriedKept ==
  ASSUME NEW c, NEW K, NEW W, CellKept(c, K, W), NEW U, SoundFor(c, U, c.rec)
  PROVE  /\ CellKept(Retried(c), K, W) /\ SoundFor(Retried(c), U, Retried(c).rec)
         /\ RetryFiber(c) \in FiberType /\ RetryFiber(c).kind # "stamped"
         /\ RetryFiber(c).kind = "idle" => RetryFiber(c) = Idle
         /\ RetryFiber(c).kind = "applying" =>
              /\ RetryFiber(c).wire \in W /\ Explicit(RetryFiber(c).wire) = {}
              /\ SoundFor(Retried(c), U, RetryFiber(c).wire)
<1> DEFINE r == [c EXCEPT !.parked = NoWire]
           w == c.parked
<1>1. c \in CellType /\ History(W) /\ CellDrawn(c, W) /\ CellFenced(c, K, W)
  BY DEF CellKept
<1>2. /\ r \in CellType /\ r.rec = c.rec /\ r.fence = c.fence /\ r.tomb = c.tomb
      /\ r.edges = c.edges /\ r.parked = NoWire
  BY <1>1 DEF CellType
<1>3. CellDrawn(r, W) /\ CellFenced(r, K, W)
  BY <1>1, <1>2, WireFields DEF CellDrawn, CellFenced, WriteCauses
<1>4. CellKept(r, K, W) /\ SoundFor(r, U, r.rec)
  BY <1>1, <1>2, <1>3 DEF CellKept, SoundFor
<1>5. CASE ~Unparks(c)
  <2>1. Retried(c) = c /\ RetryFiber(c) = Idle
    BY <1>5 DEF Retried, RetryFiber, RetryApplies
  <2> QED BY <2>1, IdleKind
<1>6. CASE Unparks(c)
  <2>1. w \in W /\ w \in WireType /\ w.cause \in WriteCauses /\ Explicit(w) = {}
    <3>1. w # NoWire
      BY <1>6 DEF Unparks
    <3>2. w \in W
      BY <1>1, <3>1 DEF CellDrawn
    <3>3. w.cause \in WriteCauses
      BY <1>1 DEF CellFenced
    <3> QED BY <1>1, <3>2, <3>3 DEF History, Explicit, WriteCauses
  <2> HIDE DEF r, w
  <2>2. CellKept(Learn(r, w), K, W)
    BY <1>4, <2>1, LearnKeeps, LearnFields DEF CellKept
  <2>3. Learn(r, w).rec = r.rec /\ Learn(r, w).fence = r.fence
    BY <1>2, <2>1, LearnFields DEF NoteFence, WriteCauses
  <2>4. SoundFor(Learn(r, w), U, Learn(r, w).rec)
    BY <1>4, <2>3 DEF SoundFor
  <2>5. Retried(c) \in {r, Learn(r, w)}
    BY <1>6 DEF Retried, r, w
  <2>6. CellKept(Retried(c), K, W) /\ SoundFor(Retried(c), U, Retried(c).rec)
    BY <1>4, <2>2, <2>4, <2>5
  <2>7. CASE ~RetryApplies(c)
    BY <2>6, <2>7, IdleKind DEF RetryFiber
  <2>8. CASE RetryApplies(c)
    <3>1. RetryFiber(c) = [kind |-> "applying", wire |-> w, retry |-> FALSE]
      BY <2>8 DEF RetryFiber, w
    <3>2. Resolve(Retried(c), w) = "applied"
      BY <2>8 DEF RetryApplies, w
    <3>3. SoundFor(Retried(c), U, w)
      BY <2>1, <2>6, <3>2, WriteApplied
    <3>4. RetryFiber(c) \in FiberType
      BY <2>1, <3>1 DEF FiberType
    <3> QED BY <2>1, <2>6, <3>1, <3>3, <3>4
  <2> QED BY <2>7, <2>8
<1> QED BY <1>5, <1>6

(* ... and what the queue awaits after it.                                 *)
LEMMA RetriedStands ==
  ASSUME NEW d, NEW c, NEW K, NEW W, CellKept(c, K, W), NEW U, SoundFor(c, U, c.rec),
         NEW F \in [Queues -> FiberType], NEW q \in Queues,
         \A p \in Queues : p # q => F[p] = Idle
  PROVE  LET G == [F EXCEPT ![q] = RetryFiber(c)] IN
         /\ G \in [Queues -> FiberType] /\ OneTask(G)
         /\ TaskStands(d, Retried(c), G, K, U, W)
<1> DEFINE G == [F EXCEPT ![q] = RetryFiber(c)]
<1>1. /\ RetryFiber(c) \in FiberType /\ RetryFiber(c).kind # "stamped"
      /\ RetryFiber(c).kind = "idle" => RetryFiber(c) = Idle
  BY RetriedKept
<1>2. /\ G \in [Queues -> FiberType] /\ G[q] = RetryFiber(c) /\ OneTask(G)
      /\ \A p \in Queues : p # q => G[p] = Idle
  BY <1>1, OneTaskSet
<1> HIDE DEF G
<1>3. ASSUME NEW p \in Queues, G[p].kind = "applying"
      PROVE  G[p].wire \in W /\ SoundFor(Retried(c), U, G[p].wire)
             /\ Explicit(G[p].wire) \subseteq K
  <2>1. p = q
    BY <1>2, <1>3, IdleKind
  <2> QED BY <1>2, <1>3, <2>1, RetriedKept
<1>4. G["capture"].kind # "stamped"
  BY <1>1, <1>2, IdleKind DEF Queues
<1>5. SoundFor(Retried(c), U, Retried(c).rec)
  BY RetriedKept
<1> QED BY <1>2, <1>3, <1>4, <1>5 DEF TaskStands, G

(* ---- types ---- *)

(* A task under way has a record in hand.                                  *)
InHand == \A d \in Devices, q \in Queues :
             fiber[d][q].kind # "idle" => fiber[d][q].wire \in WireType

TypeInv == TypeOK /\ InHand

LEMMA ClockTypes ==
  ASSUME NEW c \in ClockType, NEW now \in Nat, NEW r \in HlcType
  PROVE  ClockSend(c, now) \in ClockType /\ ClockReceive(c, now, r) \in ClockType
<1>1. ClockSend(c, now) \in ClockType
  BY DEF ClockSend, ClockType
<1> DEFINE rp == Clamp(r.phys, now)
           phys == Maximum(now, Maximum(rp, c.phys))
<1>2. rp \in Nat
  BY DriftAssumption DEF Clamp, Minimum, HlcType
<1>3. phys \in Nat /\ c.logi \in Nat /\ r.logi \in Nat
  BY <1>2 DEF Maximum, ClockType, HlcType
<1>4. Maximum(c.logi, r.logi) \in Nat
  BY <1>3 DEF Maximum
<1> HIDE DEF rp, phys
<1>5. (IF phys = c.phys
        THEN (IF phys = rp THEN Maximum(c.logi, r.logi) ELSE c.logi) + 1
        ELSE IF phys = rp THEN r.logi + 1 ELSE 0) \in Nat
  BY <1>3, <1>4
<1>6. ClockReceive(c, now, r) \in ClockType
  BY <1>3, <1>5 DEF ClockReceive, ClockType, phys, rp
<1> QED BY <1>1, <1>6

LEMMA StoreType ==
  ASSUME NEW c \in CellType, NEW w \in WireType, NEW now \in Nat
  PROVE  /\ Store(c, w, now) \in CellType
         /\ Store(c, w, now).rec = w /\ Store(c, w, now).fence = c.fence
         /\ Store(c, w, now).tomb = c.tomb /\ Store(c, w, now).edges = c.edges
         /\ Store(c, w, now).parked = c.parked
BY DEF Store, CellType

LEMMA ParkType ==
  ASSUME NEW c \in CellType, NEW w \in WireType
  PROVE  /\ Park(c, w) \in CellType
         /\ Park(c, w).rec = c.rec /\ Park(c, w).fence = c.fence
         /\ Park(c, w).tomb = c.tomb /\ Park(c, w).edges = c.edges
         /\ Park(c, w).parked \in {c.parked, w}
BY DEF Park, CellType, Later

LEMMA WinnerType ==
  ASSUME NEW c \in CellType, NEW w \in WireType
  PROVE  Winner(Learn(c, w), w) \in WireType
<1>1. w \in Wires /\ w.hlc \in HlcType /\ c.tomb \in Wires
  BY WireFields, CellFields DEF Wires
<1>2. Learn(c, w).tomb = NoteTombstone(c.tomb, w)
  BY LearnFields
<1>3. IsDeletion(w) => Learn(c, w).tomb \in WireType
  BY <1>1, <1>2, TimesOrdered, WireFields DEF NoteTombstone, Later, Wires
<1> QED BY <1>3 DEF Winner

LEMMA RetryTypes ==
  ASSUME NEW c \in CellType, NEW clk \in ClockType, NEW now \in Nat
  PROVE  /\ Retried(c) \in CellType /\ RetryClock(c, clk, now) \in ClockType
         /\ RetryFiber(c) \in FiberType
         /\ RetryFiber(c).kind # "idle" => RetryFiber(c).wire \in WireType
         /\ RetryFiber(c).kind \in {"idle", "applying"}
         /\ RetryFiber(c).kind = "idle" => RetryFiber(c) = Idle
         /\ Retried(c).rec = c.rec
<1> DEFINE r == [c EXCEPT !.parked = NoWire]
<1>1. r \in CellType /\ r.rec = c.rec
  BY DEF CellType
<1>2. CASE ~Unparks(c)
  <2>1. Retried(c) = c /\ RetryFiber(c) = Idle /\ RetryClock(c, clk, now) = clk
    BY <1>2 DEF Retried, RetryFiber, RetryApplies, RetryClock
  <2> QED BY <2>1, IdleKind
<1>3. CASE Unparks(c)
  <2>1. c.parked \in WireType
    BY <1>3, CellFields DEF Unparks, Wires
  <2> HIDE DEF r
  <2>2. Learn(r, c.parked) \in CellType /\ Learn(r, c.parked).rec = c.rec
    BY <1>1, <2>1, LearnFields
  <2>3. Retried(c) \in {r, Learn(r, c.parked)}
    BY <1>3 DEF Retried, r
  <2>4. RetryClock(c, clk, now) \in ClockType
    BY <2>1, ClockTypes, WireFields DEF RetryClock
  <2>5. RetryFiber(c) \in {Idle, [kind |-> "applying", wire |-> c.parked, retry |-> FALSE]}
    BY DEF RetryFiber
  <2>6. [kind |-> "applying", wire |-> c.parked, retry |-> FALSE] \in FiberType
    BY <2>1 DEF FiberType
  <2>7. /\ RetryFiber(c) \in FiberType
        /\ RetryFiber(c).kind # "idle" => RetryFiber(c).wire \in WireType
        /\ RetryFiber(c).kind \in {"idle", "applying"}
        /\ RetryFiber(c).kind = "idle" => RetryFiber(c) = Idle
    <3>1. CASE RetryFiber(c) = Idle
      BY <3>1, IdleKind
    <3>2. CASE RetryFiber(c) = [kind |-> "applying", wire |-> c.parked, retry |-> FALSE]
      BY <2>1, <2>6, <3>2
    <3> QED BY <2>5, <3>1, <3>2
  <2>8. Retried(c) \in CellType /\ Retried(c).rec = c.rec
    BY <1>1, <2>2, <2>3
  <2> QED BY <2>4, <2>7, <2>8
<1> QED BY <1>2, <1>3

LEMMA NewWireType ==
  ASSUME TypeOK, NEW d \in Devices, NEW c \in ClockType, NEW cause \in Causes
  PROVE  /\ NewWire(d, c, cause) \in WireType
         /\ NewWire(d, c, cause).hlc = Stamp(c, d)
         /\ NewWire(d, c, cause).parent = cell[d].rec.hlc
         /\ NewWire(d, c, cause).cause = cause
         /\ NewWire(d, c, cause).past = known[d] \union cell[d].rec.past
<1>1. Stamp(c, d) \in HlcType
  BY ReplicaAssumption DEF Stamp, HlcType, ClockType
<1>2. cell[d].rec \in Wires /\ cell[d] \in CellType
  BY CellFields DEF TypeOK
<1>3. cell[d].rec.hlc \in HlcType \union {NoHlc} /\ cell[d].rec.past \subseteq HlcType
  BY <1>2, WireFields DEF Times
<1>4. known[d] \subseteq HlcType
  BY DEF TypeOK
<1> QED BY <1>1, <1>3, <1>4 DEF NewWire, WireType

LEMMA CauseTypes ==
  ASSUME NEW ch \in Changes
  PROVE  CauseForChange(ch[1], ch[2]) \in Causes \union {"none"}
BY DEF CauseForChange, Causes, WriteCauses, DeletionCauses

(* Setting one device's task.                                              *)
LEMMA FiberSetType ==
  ASSUME TypeInv, NEW d \in Devices, NEW q \in Queues, NEW f \in FiberType,
         f.kind # "idle" => f.wire \in WireType,
         fiber' = [fiber EXCEPT ![d][q] = f]
  PROVE  /\ fiber' \in [Devices -> [Queues -> FiberType]] /\ InHand'
         /\ fiber'[d] = [fiber[d] EXCEPT ![q] = f]
         /\ \A e \in Devices : e # d => fiber'[e] = fiber[e]
<1>1. fiber \in [Devices -> [Queues -> FiberType]]
  BY DEF TypeInv, TypeOK
<1>2. /\ fiber' \in [Devices -> [Queues -> FiberType]]
      /\ fiber'[d] = [fiber[d] EXCEPT ![q] = f]
      /\ \A e \in Devices : e # d => fiber'[e] = fiber[e]
      /\ fiber'[d][q] = f /\ \A p \in Queues : p # q => fiber'[d][p] = fiber[d][p]
  BY <1>1
<1>3. ASSUME NEW e \in Devices, NEW p \in Queues, fiber'[e][p].kind # "idle"
      PROVE  fiber'[e][p].wire \in WireType
  <2>1. CASE e = d /\ p = q
    BY <1>2, <1>3, <2>1
  <2>2. CASE e # d \/ p # q
    BY <1>2, <1>3, <2>2 DEF TypeInv, InHand
  <2> QED BY <2>1, <2>2
<1> QED BY <1>2, <1>3 DEF InHand

(* What retrying leaves behind is well formed.                             *)
LEMMA RetryParkedType ==
  ASSUME TypeInv, NEW d \in Devices, NEW q \in Queues, NEW c \in CellType,
         NEW clk \in ClockType, RetryParked(d, q, c, clk)
  PROVE  /\ cell' \in [Devices -> CellType] /\ clock' \in [Devices -> ClockType]
         /\ fiber' \in [Devices -> [Queues -> FiberType]] /\ InHand'
<1>1. wall[d] \in Nat /\ cell \in [Devices -> CellType] /\ clock \in [Devices -> ClockType]
  BY DEF TypeInv, TypeOK
<1>2. /\ Retried(c) \in CellType /\ RetryClock(c, clk, wall[d]) \in ClockType
      /\ RetryFiber(c) \in FiberType
      /\ RetryFiber(c).kind # "idle" => RetryFiber(c).wire \in WireType
  BY <1>1, RetryTypes
<1>3. fiber' = [fiber EXCEPT ![d][q] = RetryFiber(c)]
  BY DEF RetryParked
<1>4. fiber' \in [Devices -> [Queues -> FiberType]] /\ InHand'
  BY <1>2, <1>3, FiberSetType
<1> QED BY <1>1, <1>2, <1>4 DEF RetryParked

LEMMA PublishType ==
  ASSUME TypeOK, NEW d \in Devices, NEW w \in WireType, PublishOrQueue(d, w)
  PROVE  log' \in Seq(WireType) /\ queue' \in [Devices -> WireType \union {NoWire}]
BY DEF TypeOK, PublishOrQueue, Later

LEMMA TypeInit == Init => TypeInv
<1> SUFFICES ASSUME Init PROVE TypeInv
  OBVIOUS
<1>1. ZeroClock \in ClockType /\ EmptyCell \in CellType /\ Idle \in FiberType
  BY DEF ZeroClock, ClockType, EmptyCell, CellType, Idle, FiberType
<1> QED BY <1>1, IdleKind DEF Init, TypeInv, TypeOK, InHand, NoSnap

LEMMA TypeLocalStamp ==
  ASSUME TypeInv, NEW d \in Devices, LocalStamp(d)
  PROVE  TypeInv'
<1>1. PICK ch \in Changes :
         LET cause == CauseForChange(ch[1], ch[2])
             c     == ClockSend(clock[d], wall[d]) IN
         /\ cause # "none"
         /\ jar'   = [jar EXCEPT ![d] = ~ch[2]]
         /\ clock' = [clock EXCEPT ![d] = c]
         /\ fiber' = [fiber EXCEPT ![d]["capture"] =
                        [kind |-> "stamped", wire |-> NewWire(d, c, cause),
                         retry |-> FALSE]]
         /\ made'  = made + 1
         /\ UNCHANGED <<wall, cell, online, queue, snap, log, delivered, known, unapplied>>
  BY DEF LocalStamp
<1> DEFINE cause == CauseForChange(ch[1], ch[2])
           c     == ClockSend(clock[d], wall[d])
           f     == [kind |-> "stamped", wire |-> NewWire(d, c, cause), retry |-> FALSE]
<1>2. cause \in Causes
  BY <1>1, CauseTypes
<1>3. c \in ClockType
  BY ClockTypes, TimesOrdered DEF TypeInv, TypeOK, ClockSend, ClockType
<1>4. NewWire(d, c, cause) \in WireType
  BY <1>2, <1>3, NewWireType DEF TypeInv
<1>5. f \in FiberType /\ f.wire \in WireType
  BY <1>4 DEF FiberType
<1>6. fiber' = [fiber EXCEPT ![d]["capture"] = f] /\ "capture" \in Queues
  BY <1>1 DEF Queues
<1> HIDE DEF f
<1>7. fiber' \in [Devices -> [Queues -> FiberType]] /\ InHand'
  BY <1>5, <1>6, FiberSetType
<1>8. (~ch[2]) \in BOOLEAN
  BY ReplicaAssumption
<1> HIDE DEF c, cause
<1>9. TypeOK'
  BY <1>1, <1>3, <1>7, <1>8 DEF TypeInv, TypeOK, c
<1> QED BY <1>7, <1>9 DEF TypeInv

LEMMA TypeLocalStore ==
  ASSUME TypeInv, NEW d \in Devices, LocalStore(d)
  PROVE  TypeInv'
<1> DEFINE w == fiber[d]["capture"].wire
           c == Store(Learn(cell[d], w), w, wall[d])
<1>1. w \in WireType
  BY DEF LocalStore, TypeInv, InHand, Queues
<1>2. cell[d] \in CellType /\ clock[d] \in ClockType /\ wall[d] \in Nat
  BY DEF TypeInv, TypeOK
<1>3. c \in CellType
  BY <1>1, <1>2, LearnFields, StoreType
<1>4. RetryParked(d, "capture", c, clock[d]) /\ PublishOrQueue(d, w) /\ "capture" \in Queues
  BY DEF LocalStore, Queues
<1>5. /\ known' = [known EXCEPT ![d] = @ \union Explicit(w)]
      /\ UNCHANGED <<jar, wall, online, snap, delivered, made, unapplied>>
  BY DEF LocalStore
<1>6. Explicit(w) \subseteq HlcType
  BY <1>1 DEF Explicit, WireType
<1> HIDE DEF w, c
<1>7. /\ cell' \in [Devices -> CellType] /\ clock' \in [Devices -> ClockType]
      /\ fiber' \in [Devices -> [Queues -> FiberType]] /\ InHand'
  BY <1>2, <1>3, <1>4, RetryParkedType
<1>8. log' \in Seq(WireType) /\ queue' \in [Devices -> WireType \union {NoWire}]
  BY <1>1, <1>4, PublishType DEF TypeInv
<1>9. TypeOK'
  BY <1>5, <1>6, <1>7, <1>8 DEF TypeInv, TypeOK
<1> QED BY <1>7, <1>9 DEF TypeInv

(* The three parts of Deliver: what is handed over, what applying starts,  *)
(* what happens otherwise.                                                 *)
DeliverTaught(d, i) ==
  /\ MayStart(d, "records") /\ online[d]
  /\ delivered' = [delivered EXCEPT ![d] = @ \union {i}]
  /\ known'     = [known EXCEPT ![d] = @ \union Explicit(log[i])]
  /\ UNCHANGED <<jar, wall, online, queue, snap, log, made, unapplied>>

DeliverStarts(d, w) ==
  LET clk == ClockReceive(clock[d], wall[d], w.hlc)
      c   == Learn(cell[d], w) IN
  /\ Resolve(c, w) = "applied"
  /\ cell'  = [cell  EXCEPT ![d] = c]
  /\ clock' = [clock EXCEPT ![d] = clk]
  /\ fiber' = [fiber EXCEPT ![d]["records"] =
                 [kind |-> "applying", wire |-> Winner(c, w), retry |-> TRUE]]

DeliverRests(d, w) ==
  LET clk == ClockReceive(clock[d], wall[d], w.hlc)
      c   == Learn(cell[d], w)
      p   == IF Resolve(c, w) = "blocked" THEN Park(c, w) ELSE c IN
  /\ Resolve(c, w) # "applied"
  /\ RetryParked(d, "records", p, clk)

LEMMA DeliverParts ==
  ASSUME TypeOK, NEW d \in Devices, Deliver(d)
  PROVE  \E i \in 1..Len(log) :
           /\ log[i] \in WireType /\ i \in Nat /\ i \in Deliverable(d)
           /\ DeliverTaught(d, i)
           /\ DeliverStarts(d, log[i]) \/ DeliverRests(d, log[i])
<1>1. PICK i \in Deliverable(d) :
         LET w   == log[i]
             clk == ClockReceive(clock[d], wall[d], w.hlc)
             c   == Learn(cell[d], w)
             v   == Resolve(c, w) IN
         /\ MayStart(d, "records")
         /\ online[d]
         /\ delivered' = [delivered EXCEPT ![d] = @ \union {i}]
         /\ known'     = [known EXCEPT ![d] = @ \union Explicit(w)]
         /\ IF v = "applied"
              THEN /\ cell'  = [cell  EXCEPT ![d] = c]
                   /\ clock' = [clock EXCEPT ![d] = clk]
                   /\ fiber' = [fiber EXCEPT ![d]["records"] =
                                  [kind |-> "applying", wire |-> Winner(c, w),
                                   retry |-> TRUE]]
              ELSE RetryParked(d, "records",
                               IF v = "blocked" THEN Park(c, w) ELSE c, clk)
         /\ UNCHANGED <<jar, wall, online, queue, snap, log, made, unapplied>>
  BY Zenon DEF Deliver
<1>2. i \in 1..Len(log) /\ log[i] \in WireType /\ i \in Nat
  BY DEF Deliverable, Undelivered, TypeOK
<1>3. DeliverTaught(d, i)
  BY <1>1 DEF DeliverTaught
<1>4. DeliverStarts(d, log[i]) \/ DeliverRests(d, log[i])
  BY <1>1, Zenon DEF DeliverStarts, DeliverRests
<1> QED BY <1>1, <1>2, <1>3, <1>4

LEMMA TypeDeliver ==
  ASSUME TypeInv, NEW d \in Devices, Deliver(d)
  PROVE  TypeInv'
<1>1. PICK i \in 1..Len(log) :
         /\ log[i] \in WireType /\ i \in Nat
         /\ DeliverTaught(d, i)
         /\ DeliverStarts(d, log[i]) \/ DeliverRests(d, log[i])
  BY DeliverParts DEF TypeInv
<1> DEFINE w   == log[i]
           clk == ClockReceive(clock[d], wall[d], w.hlc)
           c   == Learn(cell[d], w)
           p   == IF Resolve(c, w) = "blocked" THEN Park(c, w) ELSE c
           f   == [kind |-> "applying", wire |-> Winner(c, w), retry |-> TRUE]
<1>2. cell[d] \in CellType /\ clock[d] \in ClockType /\ wall[d] \in Nat /\ "records" \in Queues
  BY DEF TypeInv, TypeOK, Queues
<1>3. clk \in ClockType /\ c \in CellType /\ p \in CellType
  BY <1>1, <1>2, ClockTypes, LearnFields, ParkType, WireFields
<1>4. Winner(c, w) \in WireType
  BY <1>1, <1>2, WinnerType
<1>5. f \in FiberType /\ f.wire \in WireType
  BY <1>4 DEF FiberType
<1>6. Explicit(w) \subseteq HlcType
  BY <1>1 DEF Explicit, WireType
<1>7. /\ cell' \in [Devices -> CellType] /\ clock' \in [Devices -> ClockType]
      /\ fiber' \in [Devices -> [Queues -> FiberType]] /\ InHand'
  <2>1. CASE DeliverStarts(d, w)
    <3>1. /\ cell' = [cell EXCEPT ![d] = c] /\ clock' = [clock EXCEPT ![d] = clk]
          /\ fiber' = [fiber EXCEPT ![d]["records"] = f]
      BY <2>1 DEF DeliverStarts
    <3> HIDE DEF f, c, clk
    <3>2. fiber' \in [Devices -> [Queues -> FiberType]] /\ InHand'
      BY <1>2, <1>5, <3>1, FiberSetType
    <3> QED BY <1>3, <3>1, <3>2 DEF TypeInv, TypeOK
  <2>2. CASE DeliverRests(d, w)
    <3>1. RetryParked(d, "records", p, clk)
      BY <2>2 DEF DeliverRests
    <3> HIDE DEF p, clk
    <3> QED BY <1>2, <1>3, <3>1, RetryParkedType
  <2> QED BY <1>1, <2>1, <2>2
<1> HIDE DEF w, clk, c, p, f
<1>8. known' = [known EXCEPT ![d] = @ \union Explicit(w)]
  BY <1>1 DEF DeliverTaught, w
<1>9. known' \in [Devices -> SUBSET HlcType]
  BY <1>6, <1>8 DEF TypeInv, TypeOK
<1>10. delivered' \in [Devices -> SUBSET Nat]
  BY <1>1 DEF TypeInv, TypeOK, DeliverTaught
<1>11. UNCHANGED <<jar, wall, online, queue, snap, log, made, unapplied>>
  BY <1>1 DEF DeliverTaught
<1>12. TypeOK'
  BY <1>7, <1>9, <1>10, <1>11 DEF TypeInv, TypeOK
<1> QED BY <1>7, <1>12 DEF TypeInv

LEMMA TypeApplyDone ==
  ASSUME TypeInv, NEW d \in Devices, NEW q \in Queues, ApplyDone(d, q)
  PROVE  TypeInv'
<1> DEFINE f == fiber[d][q]
           c == Store(cell[d], f.wire, wall[d])
<1>1. f.wire \in WireType
  BY DEF ApplyDone, TypeInv, InHand
<1>2. cell[d] \in CellType /\ clock[d] \in ClockType /\ wall[d] \in Nat
  BY DEF TypeInv, TypeOK
<1>3. c \in CellType
  BY <1>1, <1>2, StoreType
<1>4. /\ f.retry => RetryParked(d, q, c, clock[d])
      /\ ~f.retry => /\ cell' = [cell EXCEPT ![d] = c] /\ UNCHANGED clock
                     /\ fiber' = [fiber EXCEPT ![d][q] = Idle]
  BY DEF ApplyDone
<1>5. /\ jar' = [jar EXCEPT ![d] = Live(f.wire)]
      /\ UNCHANGED <<wall, online, queue, snap, log, delivered, made, known, unapplied>>
  BY DEF ApplyDone
<1>6. Live(f.wire) \in BOOLEAN
  BY DEF Live
<1> HIDE DEF c, f
<1>7. /\ cell' \in [Devices -> CellType] /\ clock' \in [Devices -> ClockType]
      /\ fiber' \in [Devices -> [Queues -> FiberType]] /\ InHand'
  <2>1. CASE f.retry
    BY <1>2, <1>3, <1>4, <2>1, RetryParkedType
  <2>2. CASE ~f.retry
    <3>1. fiber' \in [Devices -> [Queues -> FiberType]] /\ InHand'
      BY <1>4, <2>2, IdleKind, FiberSetType
    <3> QED BY <1>3, <1>4, <2>2, <3>1 DEF TypeInv, TypeOK
  <2> QED BY <2>1, <2>2
<1>8. TypeOK'
  BY <1>5, <1>6, <1>7 DEF TypeInv, TypeOK
<1> QED BY <1>7, <1>8 DEF TypeInv

LEMMA TypeApplyFails ==
  ASSUME TypeInv, NEW d \in Devices, NEW q \in Queues, ApplyFails(d, q)
  PROVE  TypeInv'
<1>1. fiber[d][q].wire.hlc \in HlcType
  BY WireFields DEF ApplyFails, TypeInv, InHand
<1>2. fiber' = [fiber EXCEPT ![d][q] = Idle]
  BY DEF ApplyFails
<1>3. fiber' \in [Devices -> [Queues -> FiberType]] /\ InHand'
  BY <1>2, IdleKind, FiberSetType
<1>4. unapplied' \in [Devices -> SUBSET HlcType]
  BY <1>1 DEF ApplyFails, TypeInv, TypeOK
<1>5. TypeOK'
  BY <1>3, <1>4 DEF TypeInv, TypeOK, ApplyFails
<1> QED BY <1>3, <1>5 DEF TypeInv

(* The two halves of Rollback: what is reissued, and what becomes of it.   *)
RollbackReissues(d, cause) ==
  LET c == ClockSend(clock[d], wall[d])
      w == NewWire(d, c, cause) IN
  /\ Resting(d)
  /\ clock' = [clock EXCEPT ![d] = c]
  /\ cell'  = [cell EXCEPT ![d] = Store(Learn(cell[d], w), w, wall[d])]
  /\ known' = [known EXCEPT ![d] = @ \union Explicit(w)]
  /\ made'  = made + 1
  /\ UNCHANGED <<wall, fiber, online, snap, delivered>>

RollbackEnds(d, cause) ==
  LET w == NewWire(d, ClockSend(clock[d], wall[d]), cause) IN
  \/ /\ MayFail
     /\ unapplied' = [unapplied EXCEPT ![d] = @ \union {w.hlc}]
     /\ UNCHANGED <<jar, log, queue>>
  \/ /\ jar' = [jar EXCEPT ![d] = Live(w)]
     /\ PublishOrQueue(d, w)
     /\ UNCHANGED unapplied

LEMMA RollbackParts ==
  ASSUME TypeOK, NEW d \in Devices, Rollback(d)
  PROVE  \E cause \in Causes : RollbackReissues(d, cause) /\ RollbackEnds(d, cause)
<1> DEFINE old == snap[d].rec
           cause == IF Live(old) THEN "WRITE" ELSE "EXPLICIT_DELETE"
<1>1. cause \in Causes
  BY DEF Causes, WriteCauses, DeletionCauses
<1>2. PICK refused \in {FALSE, MayFail} :
         LET c   == ClockSend(clock[d], wall[d])
             w   == NewWire(d, c, cause) IN
        /\ Resting(d)
        /\ clock' = [clock EXCEPT ![d] = c]
        /\ cell'  = [cell EXCEPT ![d] = Reissued(@, w, wall[d])]
        /\ known' = [known EXCEPT ![d] = @ \union Explicit(w)]
        /\ made'  = made + 1
        /\ IF refused
             THEN /\ unapplied' = [unapplied EXCEPT ![d] = @ \union {w.hlc}]
                  /\ UNCHANGED <<jar, log, queue>>
             ELSE /\ jar' = [jar EXCEPT ![d] = Live(w)]
                  /\ PublishOrQueue(d, w)
                  /\ UNCHANGED unapplied
        /\ UNCHANGED <<wall, fiber, online, snap, delivered>>
  BY Zenon DEF Rollback
<1> HIDE DEF cause
<1>3. cell' = [cell EXCEPT ![d] = Store(Learn(cell[d],
                  NewWire(d, ClockSend(clock[d], wall[d]), cause)),
                  NewWire(d, ClockSend(clock[d], wall[d]), cause), wall[d])]
  BY <1>2 DEF Reissued, TypeOK
<1>4. RollbackReissues(d, cause)
  BY <1>2, <1>3 DEF RollbackReissues
<1>5. RollbackEnds(d, cause)
  <2>1. CASE refused
    BY <1>2, <2>1 DEF RollbackEnds
  <2>2. CASE ~refused
    BY <1>2, <2>2 DEF RollbackEnds
  <2> QED BY <2>1, <2>2
<1> QED BY <1>1, <1>4, <1>5

LEMMA TypeRollback ==
  ASSUME TypeInv, NEW d \in Devices, Rollback(d)
  PROVE  TypeInv'
<1>1. PICK cause \in Causes : RollbackReissues(d, cause) /\ RollbackEnds(d, cause)
  BY RollbackParts DEF TypeInv
<1> DEFINE c == ClockSend(clock[d], wall[d])
           w == NewWire(d, c, cause)
           n == Store(Learn(cell[d], w), w, wall[d])
<1>2. cell[d] \in CellType /\ clock[d] \in ClockType /\ wall[d] \in Nat
  BY DEF TypeInv, TypeOK
<1>3. c \in ClockType
  BY <1>2 DEF ClockSend, ClockType
<1> HIDE DEF c
<1>4. w \in WireType
  BY <1>3, NewWireType DEF TypeInv
<1> HIDE DEF w
<1>5. n \in CellType /\ w.hlc \in HlcType /\ Explicit(w) \subseteq HlcType
  BY <1>2, <1>4, LearnFields, StoreType, WireFields DEF Explicit
<1> HIDE DEF n
<1>6. /\ clock' = [clock EXCEPT ![d] = c] /\ cell' = [cell EXCEPT ![d] = n]
      /\ known' = [known EXCEPT ![d] = @ \union Explicit(w)]
      /\ made'  = made + 1
      /\ UNCHANGED <<wall, fiber, online, snap, delivered>>
  BY <1>1 DEF RollbackReissues, c, w, n
<1>7. /\ clock' \in [Devices -> ClockType] /\ cell' \in [Devices -> CellType]
      /\ known' \in [Devices -> SUBSET HlcType] /\ made' \in Nat
  BY <1>3, <1>5, <1>6 DEF TypeInv, TypeOK
<1>8. /\ jar' \in [Devices -> BOOLEAN] /\ log' \in Seq(WireType)
      /\ queue' \in [Devices -> WireType \union {NoWire}]
      /\ unapplied' \in [Devices -> SUBSET HlcType]
  <2>1. CASE /\ unapplied' = [unapplied EXCEPT ![d] = @ \union {w.hlc}]
             /\ UNCHANGED <<jar, log, queue>>
    BY <1>5, <2>1 DEF TypeInv, TypeOK
  <2>2. CASE /\ jar' = [jar EXCEPT ![d] = Live(w)]
             /\ PublishOrQueue(d, w)
             /\ UNCHANGED unapplied
    <3>1. Live(w) \in BOOLEAN
      BY DEF Live
    <3>2. log' \in Seq(WireType) /\ queue' \in [Devices -> WireType \union {NoWire}]
      BY <1>4, <2>2, PublishType DEF TypeInv
    <3> QED BY <2>2, <3>1, <3>2 DEF TypeInv, TypeOK
  <2> QED BY <1>1, <2>1, <2>2 DEF RollbackEnds, w, c
<1>9. TypeOK'
  BY <1>6, <1>7, <1>8 DEF TypeInv, TypeOK
<1> QED BY <1>6, <1>9 DEF TypeInv, InHand

LEMMA TypeRest ==
  ASSUME TypeInv, NEW d \in Devices,
         \/ Tick(d) \/ GoOffline(d) \/ GoOnline(d) \/ Snapshot(d) \/ Gc(d)
         \/ UNCHANGED vars
  PROVE  TypeInv'
<1>1. CASE Tick(d)
  BY <1>1 DEF Tick, TypeInv, TypeOK, InHand
<1>2. CASE GoOffline(d)
  BY <1>2 DEF GoOffline, TypeInv, TypeOK, InHand
<1>3. CASE GoOnline(d)
  <2>1. log' \in Seq(WireType)
    BY <1>3 DEF GoOnline, TypeInv, TypeOK
  <2>2. queue' \in [Devices -> WireType \union {NoWire}]
    BY <1>3 DEF GoOnline, TypeInv, TypeOK
  <2> QED BY <1>3, <2>1, <2>2 DEF GoOnline, TypeInv, TypeOK, InHand
<1>4. CASE Snapshot(d)
  <2>1. cell[d].rec \in WireType \union {NoWire}
    BY DEF TypeInv, TypeOK, CellType
  <2>2. snap' \in [Devices -> [taken : BOOLEAN, rec : WireType \union {NoWire}]]
    BY <1>4, <2>1 DEF Snapshot, TypeInv, TypeOK
  <2> QED BY <1>4, <2>2 DEF Snapshot, TypeInv, TypeOK, InHand
<1>5. CASE Gc(d)
  <2>1. EmptyCell \in CellType
    BY DEF EmptyCell, CellType
  <2> QED BY <1>5, <2>1 DEF Gc, TypeInv, TypeOK, InHand
<1>6. CASE UNCHANGED vars
  BY <1>6 DEF vars, TypeInv, TypeOK, InHand
<1> QED BY <1>1, <1>2, <1>3, <1>4, <1>5, <1>6

LEMMA TypeStep == TypeInv /\ [Next]_vars => TypeInv'
<1> SUFFICES ASSUME TypeInv, [Next]_vars PROVE TypeInv'
  OBVIOUS
<1>1. CASE UNCHANGED vars
  BY <1>1 DEF TypeInv, TypeOK, InHand, vars
<1>2. CASE Next
  <2>1. PICK d \in Devices :
           \/ Tick(d) \/ LocalStamp(d) \/ LocalStore(d) \/ Deliver(d)
           \/ \E q \in Queues : ApplyDone(d, q) \/ ApplyFails(d, q)
           \/ GoOffline(d) \/ GoOnline(d)
           \/ Snapshot(d) \/ Rollback(d) \/ Gc(d)
    BY <1>2, Zenon DEF Next
  <2> QED BY <2>1, TypeLocalStamp, TypeLocalStore, TypeDeliver, TypeApplyDone,
             TypeApplyFails, TypeRollback, TypeRest
<1> QED BY <1>1, <1>2

(* The replicas keep their shape, whatever the constants: what a task has  *)
(* in hand is a record.                                                    *)
THEOREM TypeOKAlways == Spec => []TypeOK
<1>1. Spec => []TypeInv
  BY TypeInit, TypeStep, PTL DEF Spec
<1>2. TypeInv => TypeOK
  BY DEF TypeInv
<1> QED BY <1>1, <1>2, PTL

(* ---- one task at a time ---- *)

TasksInv == \A d \in Devices : OneTask(fiber[d])

LEMMA StartsResting ==
  ASSUME ~Overlap, NEW d \in Devices, NEW q \in Queues, MayStart(d, q)
  PROVE  Resting(d)
BY DEF MayStart

LEMMA RestingIdle ==
  ASSUME TypeOK, NEW d \in Devices, Resting(d)
  PROVE  fiber[d] = AllIdle /\ \A q \in Queues : fiber[d][q] = Idle
BY DEF Resting, AllIdle

(* While a queue has a task, the other has none.                           *)
LEMMA OthersIdle ==
  ASSUME NEW F \in [Queues -> FiberType], OneTask(F), NEW q \in Queues,
         F[q].kind # "idle"
  PROVE  \A p \in Queues : p # q => F[p] = Idle
BY IdleKind DEF OneTask, Queues

(* Setting the task of a device that has no other.                         *)
LEMMA TasksSet ==
  ASSUME TypeInv, TasksInv, NEW d \in Devices, NEW q \in Queues, NEW f \in FiberType,
         \A p \in Queues : p # q => fiber[d][p] = Idle,
         f.kind = "idle" => f = Idle, f.kind = "stamped" => q = "capture",
         fiber' = [fiber EXCEPT ![d][q] = f]
  PROVE  /\ TasksInv'
         /\ fiber'[d] = [fiber[d] EXCEPT ![q] = f] /\ fiber'[d][q] = f
         /\ \A p \in Queues : p # q => fiber'[d][p] = Idle
         /\ \A e \in Devices : e # d => fiber'[e] = fiber[e]
<1>1. fiber \in [Devices -> [Queues -> FiberType]]
  BY DEF TypeInv, TypeOK
<1>2. /\ fiber'[d] = [fiber[d] EXCEPT ![q] = f]
      /\ \A e \in Devices : e # d => fiber'[e] = fiber[e]
  BY <1>1
<1>3. /\ OneTask([fiber[d] EXCEPT ![q] = f]) /\ [fiber[d] EXCEPT ![q] = f][q] = f
      /\ \A p \in Queues : p # q => [fiber[d] EXCEPT ![q] = f][p] = Idle
  BY <1>1, OneTaskSet
<1> QED BY <1>2, <1>3 DEF TasksInv

(* What each step does to the tasks: it leaves them alone, or it sets the  *)
(* only one of its device.                                                 *)
LEMMA TasksStep ==
  ASSUME ~Overlap, TypeInv, TasksInv, [Next]_vars
  PROVE  TasksInv'
<1>1. CASE UNCHANGED vars
  BY <1>1 DEF TasksInv, vars
<1>2. ASSUME NEW d \in Devices, LocalStamp(d) PROVE TasksInv'
  <2>1. PICK ch \in Changes :
         LET cause == CauseForChange(ch[1], ch[2])
             c     == ClockSend(clock[d], wall[d]) IN
         /\ MayStart(d, "capture") /\ cause # "none"
         /\ fiber' = [fiber EXCEPT ![d]["capture"] =
                        [kind |-> "stamped", wire |-> NewWire(d, c, cause),
                         retry |-> FALSE]]
    BY <1>2 DEF LocalStamp
  <2> DEFINE cause == CauseForChange(ch[1], ch[2])
             c     == ClockSend(clock[d], wall[d])
             f     == [kind |-> "stamped", wire |-> NewWire(d, c, cause), retry |-> FALSE]
  <2>2. c \in ClockType /\ cause \in Causes
    BY <2>1, CauseTypes DEF ClockSend, ClockType, TypeInv, TypeOK
  <2>3. NewWire(d, c, cause) \in WireType
    BY <2>2, NewWireType DEF TypeInv
  <2>4. f \in FiberType /\ f.kind = "stamped"
    BY <2>3 DEF FiberType
  <2>5. \A q \in Queues : fiber[d][q] = Idle
    BY <2>1, StartsResting, RestingIdle DEF TypeInv, Queues
  <2>6. fiber' = [fiber EXCEPT ![d]["capture"] = f] /\ "capture" \in Queues
    BY <2>1 DEF Queues
  <2> HIDE DEF f
  <2> QED BY <2>4, <2>5, <2>6, TasksSet
<1>3. ASSUME NEW d \in Devices, NEW q \in Queues, NEW c \in CellType, NEW clk \in ClockType,
             RetryParked(d, q, c, clk), \A p \in Queues : p # q => fiber[d][p] = Idle
      PROVE  TasksInv'
  <2>1. wall[d] \in Nat
    BY DEF TypeInv, TypeOK
  <2>2. /\ RetryFiber(c) \in FiberType /\ RetryFiber(c).kind \in {"idle", "applying"}
        /\ RetryFiber(c).kind = "idle" => RetryFiber(c) = Idle
    BY <2>1, RetryTypes
  <2> QED BY <1>3, <2>2, TasksSet DEF RetryParked
<1>4. ASSUME NEW d \in Devices, LocalStore(d) PROVE TasksInv'
  <2> DEFINE w == fiber[d]["capture"].wire
             c == Store(Learn(cell[d], w), w, wall[d])
  <2>1. /\ fiber[d]["capture"].kind = "stamped" /\ "capture" \in Queues
        /\ RetryParked(d, "capture", c, clock[d])
    BY <1>4 DEF LocalStore, Queues
  <2>2. w \in WireType /\ cell[d] \in CellType /\ clock[d] \in ClockType /\ wall[d] \in Nat
        /\ fiber[d] \in [Queues -> FiberType]
    BY <2>1 DEF TypeInv, TypeOK, InHand
  <2>3. c \in CellType
    BY <2>2, LearnFields, StoreType
  <2>4. \A p \in Queues : p # "capture" => fiber[d][p] = Idle
    BY <2>1, <2>2, OthersIdle DEF TasksInv
  <2> HIDE DEF c, w
  <2> QED BY <1>3, <2>1, <2>2, <2>3, <2>4
<1>5. ASSUME NEW d \in Devices, Deliver(d) PROVE TasksInv'
  <2>1. PICK i \in 1..Len(log) :
         /\ log[i] \in WireType
         /\ MayStart(d, "records")
         /\ DeliverStarts(d, log[i]) \/ DeliverRests(d, log[i])
    BY <1>5, DeliverParts DEF TypeInv, DeliverTaught
  <2> DEFINE w   == log[i]
             clk == ClockReceive(clock[d], wall[d], w.hlc)
             c   == Learn(cell[d], w)
             p   == IF Resolve(c, w) = "blocked" THEN Park(c, w) ELSE c
             f   == [kind |-> "applying", wire |-> Winner(c, w), retry |-> TRUE]
  <2>2. "records" \in Queues /\ \A q \in Queues : fiber[d][q] = Idle
    BY <2>1, StartsResting, RestingIdle DEF TypeInv, Queues
  <2>3. cell[d] \in CellType /\ clock[d] \in ClockType /\ wall[d] \in Nat
    BY DEF TypeInv, TypeOK
  <2>4. clk \in ClockType /\ p \in CellType /\ Winner(c, w) \in WireType
    BY <2>1, <2>3, ClockTypes, LearnFields, ParkType, WireFields, WinnerType
  <2>5. f \in FiberType /\ f.kind = "applying"
    BY <2>4 DEF FiberType
  <2>6. CASE DeliverStarts(d, w)
    <3>1. fiber' = [fiber EXCEPT ![d]["records"] = f]
      BY <2>6 DEF DeliverStarts
    <3> HIDE DEF f
    <3> QED BY <2>2, <2>5, <3>1, TasksSet
  <2>7. CASE DeliverRests(d, w)
    <3>1. RetryParked(d, "records", p, clk)
      BY <2>7 DEF DeliverRests
    <3> HIDE DEF p, clk
    <3> QED BY <1>3, <2>2, <2>4, <3>1
  <2> QED BY <2>1, <2>6, <2>7
<1>6. ASSUME NEW d \in Devices, NEW q \in Queues, ApplyDone(d, q) PROVE TasksInv'
  <2> DEFINE f == fiber[d][q]
             c == Store(cell[d], f.wire, wall[d])
  <2>1. /\ f.kind = "applying"
        /\ f.retry => RetryParked(d, q, c, clock[d])
        /\ ~f.retry => fiber' = [fiber EXCEPT ![d][q] = Idle]
    BY <1>6 DEF ApplyDone
  <2>2. f.wire \in WireType /\ cell[d] \in CellType /\ clock[d] \in ClockType
        /\ wall[d] \in Nat /\ fiber[d] \in [Queues -> FiberType]
    BY <2>1 DEF TypeInv, TypeOK, InHand
  <2>3. c \in CellType
    BY <2>2, StoreType
  <2>4. \A p \in Queues : p # q => fiber[d][p] = Idle
    BY <2>1, <2>2, OthersIdle DEF TasksInv
  <2> HIDE DEF c, f
  <2> QED BY <1>3, <2>1, <2>2, <2>3, <2>4, IdleKind, TasksSet
<1>7. ASSUME NEW d \in Devices, NEW q \in Queues, ApplyFails(d, q) PROVE TasksInv'
  <2>1. fiber[d][q].kind = "applying" /\ fiber' = [fiber EXCEPT ![d][q] = Idle]
        /\ fiber[d] \in [Queues -> FiberType]
    BY <1>7 DEF ApplyFails, TypeInv, TypeOK
  <2>2. \A p \in Queues : p # q => fiber[d][p] = Idle
    BY <2>1, OthersIdle DEF TasksInv
  <2> QED BY <2>1, <2>2, IdleKind, TasksSet
<1>8. ASSUME NEW d \in Devices,
             \/ Tick(d) \/ GoOffline(d) \/ GoOnline(d) \/ Snapshot(d) \/ Gc(d) \/ Rollback(d)
      PROVE  TasksInv'
  <2>1. UNCHANGED fiber
    BY <1>8 DEF Tick, GoOffline, GoOnline, Snapshot, Gc, Rollback
  <2> QED BY <2>1 DEF TasksInv
<1> QED BY <1>1, <1>2, <1>4, <1>5, <1>6, <1>7, <1>8 DEF Next

LEMMA TasksInit == Init => TasksInv
BY IdleKind DEF Init, TasksInv, OneTask, Queues

(* ---- the browser shows the record ---- *)

(* The cookie is in the store as the record has it, or as the change has   *)
(* it that is about to become the record.                                  *)
Shown(d) ==
  jar[d] = Live(IF fiber[d]["capture"].kind = "stamped"
                  THEN fiber[d]["capture"].wire ELSE cell[d].rec)

JarInv == TypeInv /\ TasksInv /\ \A d \in Devices : Shown(d)

LEMMA JarInit == Init => JarInv
<1> SUFFICES ASSUME Init PROVE \A d \in Devices : Shown(d)
  BY TypeInit, TasksInit DEF JarInv
<1> TAKE d \in Devices
<1>1. jar[d] = FALSE /\ cell[d].rec = NoWire
  BY DEF Init, EmptyCell
<1>2. fiber[d]["capture"].kind # "stamped"
  BY IdleKind DEF Init, Queues
<1>3. Live(NoWire) = FALSE
  BY CausesSplit DEF Live
<1> QED BY <1>1, <1>2, <1>3 DEF Shown

LEMMA JarElsewhere ==
  ASSUME JarInv, NEW e \in Devices,
         jar'[e] = jar[e], cell'[e].rec = cell[e].rec, fiber'[e] = fiber[e]
  PROVE  Shown(e)'
BY DEF JarInv, Shown

(* Retrying the parked write leaves the record alone and stamps nothing.   *)
LEMMA JarRetry ==
  ASSUME JarInv, NEW d \in Devices, NEW q \in Queues, NEW c \in CellType,
         NEW clk \in ClockType, RetryParked(d, q, c, clk),
         \A p \in Queues : p # q => fiber[d][p] = Idle,
         jar'[d] = Live(c.rec), \A e \in Devices : e # d => jar'[e] = jar[e]
  PROVE  \A e \in Devices : Shown(e)'
<1>1. wall[d] \in Nat /\ cell \in [Devices -> CellType]
  BY DEF JarInv, TypeInv, TypeOK
<1>2. /\ RetryFiber(c) \in FiberType /\ RetryFiber(c).kind \in {"idle", "applying"}
      /\ RetryFiber(c).kind = "idle" => RetryFiber(c) = Idle
      /\ Retried(c).rec = c.rec
  BY <1>1, RetryTypes
<1>6. TypeInv /\ TasksInv /\ fiber' = [fiber EXCEPT ![d][q] = RetryFiber(c)]
  BY DEF JarInv, RetryParked
<1>3. /\ fiber'[d][q] = RetryFiber(c)
      /\ \A p \in Queues : p # q => fiber'[d][p] = Idle
      /\ \A e \in Devices : e # d => fiber'[e] = fiber[e]
  <2> DEFINE f == RetryFiber(c)
  <2>1. /\ f \in FiberType /\ f.kind \in {"idle", "applying"}
        /\ f.kind = "idle" => f = Idle
        /\ fiber' = [fiber EXCEPT ![d][q] = f]
    BY <1>2, <1>6
  <2> HIDE DEF f
  <2>2. /\ fiber'[d][q] = f
        /\ \A p \in Queues : p # q => fiber'[d][p] = Idle
        /\ \A e \in Devices : e # d => fiber'[e] = fiber[e]
    <3>1. f.kind = "stamped" => q = "capture"
      BY <2>1
    <3>2. \A p \in Queues : p # q => fiber[d][p] = Idle
      OBVIOUS
    <3>3. TypeInv /\ TasksInv
      BY <1>6
    <3> QED BY <2>1, <3>1, <3>2, <3>3, TasksSet
  <2> QED BY <2>2 DEF f
<1>4. cell'[d] = Retried(c) /\ \A e \in Devices : e # d => cell'[e] = cell[e]
  BY <1>1 DEF RetryParked
<1>5. fiber'[d]["capture"].kind # "stamped"
  BY <1>2, <1>3, IdleKind DEF Queues
<1>7. Shown(d)'
  BY <1>2, <1>4, <1>5 DEF Shown
<1> QED BY <1>3, <1>4, <1>7, JarElsewhere

LEMMA JarStep ==
  ASSUME ~Overlap, ~(MayFail /\ MayRollBack), JarInv, [Next]_vars,
         \A d \in Devices : snap[d].taken => MayRollBack
  PROVE  JarInv'
<1> USE DEF JarInv
<1>0. TypeInv' /\ TasksInv'
  BY TypeStep, TasksStep
<1>t. /\ jar \in [Devices -> BOOLEAN] /\ cell \in [Devices -> CellType]
      /\ fiber \in [Devices -> [Queues -> FiberType]]
      /\ "capture" \in Queues /\ "records" \in Queues
  BY DEF TypeInv, TypeOK, Queues
<1> SUFFICES \A e \in Devices : Shown(e)'
  BY <1>0
<1>1. CASE UNCHANGED vars
  BY <1>1 DEF Shown, vars
<1>2. ASSUME NEW d \in Devices, LocalStamp(d) PROVE \A e \in Devices : Shown(e)'
  <2>1. PICK ch \in Changes :
         LET cause == CauseForChange(ch[1], ch[2])
             c     == ClockSend(clock[d], wall[d]) IN
         /\ cause # "none"
         /\ jar' = [jar EXCEPT ![d] = ~ch[2]]
         /\ fiber' = [fiber EXCEPT ![d]["capture"] =
                        [kind |-> "stamped", wire |-> NewWire(d, c, cause),
                         retry |-> FALSE]]
         /\ UNCHANGED cell
    BY <1>2 DEF LocalStamp
  <2> DEFINE cause == CauseForChange(ch[1], ch[2])
             c     == ClockSend(clock[d], wall[d])
             w     == NewWire(d, c, cause)
  <2>2. c \in ClockType /\ cause \in Causes
    BY <2>1, CauseTypes DEF ClockSend, ClockType, TypeInv, TypeOK
  <2>3. w \in WireType /\ w.cause = cause
    BY <2>2, NewWireType DEF TypeInv
  <2>4. w # NoWire /\ (Live(w) <=> cause \in WriteCauses)
    BY <2>3, WireFields, CausesSplit DEF Live, Wires
  <2>5. ch[2] \in BOOLEAN
    BY ReplicaAssumption
  <2>6. cause \in WriteCauses <=> ~ch[2]
    BY <2>1, <2>5 DEF CauseForChange, WriteCauses
  <2> HIDE DEF cause, c
  <2>7. fiber'[d]["capture"] = [kind |-> "stamped", wire |-> w, retry |-> FALSE]
        /\ \A e \in Devices : e # d => fiber'[e] = fiber[e]
    BY <1>t, <2>1 DEF cause, c
  <2>8. jar'[d] = ~ch[2] /\ \A e \in Devices : e # d => jar'[e] = jar[e]
    BY <1>t, <2>1
  <2> HIDE DEF w
  <2>9. Live(w) \in BOOLEAN
    BY DEF Live
  <2>10. jar'[d] = Live(w)
    BY <2>4, <2>5, <2>6, <2>8, <2>9
  <2>11. Shown(d)'
    BY <2>7, <2>10 DEF Shown
  <2> QED BY <2>1, <2>7, <2>8, <2>11, JarElsewhere
<1>3. ASSUME NEW d \in Devices, LocalStore(d) PROVE \A e \in Devices : Shown(e)'
  <2> DEFINE w == fiber[d]["capture"].wire
             c == Store(Learn(cell[d], w), w, wall[d])
  <2>1. /\ fiber[d]["capture"].kind = "stamped"
        /\ RetryParked(d, "capture", c, clock[d]) /\ UNCHANGED jar
    BY <1>3 DEF LocalStore
  <2>2. w \in WireType /\ cell[d] \in CellType /\ clock[d] \in ClockType /\ wall[d] \in Nat
        /\ fiber[d] \in [Queues -> FiberType]
    BY <1>t, <2>1 DEF TypeInv, TypeOK, InHand
  <2>3. c \in CellType /\ c.rec = w
    BY <2>2, LearnFields, StoreType
  <2>4. \A p \in Queues : p # "capture" => fiber[d][p] = Idle
    BY <1>t, <2>1, <2>2, OthersIdle DEF TasksInv
  <2>5. jar[d] = Live(w)
    BY <2>1 DEF Shown
  <2> HIDE DEF c, w
  <2> QED BY <1>t, <2>1, <2>2, <2>3, <2>4, <2>5, JarRetry
<1>4. ASSUME NEW d \in Devices, Deliver(d) PROVE \A e \in Devices : Shown(e)'
  <2>1. PICK i \in 1..Len(log) :
         /\ log[i] \in WireType /\ DeliverTaught(d, i)
         /\ DeliverStarts(d, log[i]) \/ DeliverRests(d, log[i])
    BY <1>4, DeliverParts DEF TypeInv
  <2> DEFINE w   == log[i]
             clk == ClockReceive(clock[d], wall[d], w.hlc)
             c   == Learn(cell[d], w)
             p   == IF Resolve(c, w) = "blocked" THEN Park(c, w) ELSE c
             f   == [kind |-> "applying", wire |-> Winner(c, w), retry |-> TRUE]
  <2>2. \A q \in Queues : fiber[d][q] = Idle
    BY <1>t, <2>1, StartsResting, RestingIdle DEF TypeInv, DeliverTaught
  <2>3. cell[d] \in CellType /\ clock[d] \in ClockType /\ wall[d] \in Nat
    BY DEF TypeInv, TypeOK
  <2>4. clk \in ClockType /\ c \in CellType /\ p \in CellType
        /\ c.rec = cell[d].rec /\ p.rec = cell[d].rec
    BY <2>1, <2>3, ClockTypes, LearnFields, ParkType, WireFields
  <2>5. UNCHANGED jar /\ jar[d] = Live(cell[d].rec)
    BY <1>t, <2>1, <2>2, IdleKind DEF DeliverTaught, Shown
  <2>6. CASE DeliverStarts(d, w)
    <3>1. fiber' = [fiber EXCEPT ![d]["records"] = f] /\ cell' = [cell EXCEPT ![d] = c]
      BY <2>6 DEF DeliverStarts
    <3> HIDE DEF f, c
    <3>2. fiber'[d]["capture"] = Idle /\ \A e \in Devices : e # d => fiber'[e] = fiber[e]
      BY <1>t, <2>2, <3>1
    <3>3. cell'[d] = c /\ \A e \in Devices : e # d => cell'[e] = cell[e]
      BY <1>t, <3>1
    <3>4. Shown(d)'
      BY <2>4, <2>5, <3>2, <3>3, IdleKind DEF Shown
    <3> QED BY <2>5, <3>2, <3>3, <3>4, JarElsewhere
  <2>7. CASE DeliverRests(d, w)
    <3>1. RetryParked(d, "records", p, clk)
      BY <2>7 DEF DeliverRests
    <3> HIDE DEF p, clk
    <3> QED BY <1>t, <2>2, <2>4, <2>5, <3>1, JarRetry
  <2> QED BY <2>1, <2>6, <2>7
<1>5. ASSUME NEW d \in Devices, NEW q \in Queues, ApplyDone(d, q)
      PROVE  \A e \in Devices : Shown(e)'
  <2> DEFINE f == fiber[d][q]
             c == Store(cell[d], f.wire, wall[d])
  <2>1. /\ f.kind = "applying"
        /\ f.retry => RetryParked(d, q, c, clock[d])
        /\ ~f.retry => /\ fiber' = [fiber EXCEPT ![d][q] = Idle]
                       /\ cell' = [cell EXCEPT ![d] = c]
        /\ jar' = [jar EXCEPT ![d] = Live(f.wire)]
    BY <1>5 DEF ApplyDone
  <2>2. f.wire \in WireType /\ cell[d] \in CellType /\ clock[d] \in ClockType
        /\ wall[d] \in Nat /\ fiber[d] \in [Queues -> FiberType]
    BY <2>1 DEF TypeInv, TypeOK, InHand
  <2>3. c \in CellType /\ c.rec = f.wire
    BY <2>2, StoreType
  <2>4. \A p \in Queues : p # q => fiber[d][p] = Idle
    BY <2>1, <2>2, OthersIdle DEF TasksInv
  <2> HIDE DEF c, f
  <2>5. jar'[d] = Live(c.rec) /\ \A e \in Devices : e # d => jar'[e] = jar[e]
    BY <1>t, <2>1, <2>3
  <2>6. CASE f.retry
    BY <2>1, <2>2, <2>3, <2>4, <2>5, <2>6, JarRetry
  <2>7. CASE ~f.retry
    <3>1. /\ fiber'[d]["capture"] = Idle
          /\ \A e \in Devices : e # d => fiber'[e] = fiber[e] /\ cell'[e] = cell[e]
          /\ cell'[d] = c
      BY <1>t, <2>1, <2>4, <2>7 DEF Queues
    <3>2. Shown(d)'
      BY <2>5, <3>1, IdleKind DEF Shown
    <3> QED BY <2>5, <3>1, <3>2, JarElsewhere
  <2> QED BY <2>6, <2>7
<1>6. ASSUME NEW d \in Devices, NEW q \in Queues, ApplyFails(d, q)
      PROVE  \A e \in Devices : Shown(e)'
  <2>1. /\ fiber[d][q].kind = "applying" /\ fiber' = [fiber EXCEPT ![d][q] = Idle]
        /\ UNCHANGED <<jar, cell>>
    BY <1>6 DEF ApplyFails
  <2>2. \A p \in Queues : p # q => fiber[d][p] = Idle
    BY <1>t, <2>1, OthersIdle DEF TasksInv
  <2>3. fiber[d]["capture"].kind # "stamped"
    BY <1>t, <2>1, <2>2, IdleKind
  <2>4. fiber'[d]["capture"] = Idle /\ \A e \in Devices : e # d => fiber'[e] = fiber[e]
    BY <1>t, <2>1, <2>2 DEF Queues
  <2>5. Shown(d)'
    BY <2>1, <2>3, <2>4, IdleKind DEF Shown
  <2> QED BY <2>1, <2>4, <2>5, JarElsewhere
<1>7. ASSUME NEW d \in Devices, Rollback(d) PROVE \A e \in Devices : Shown(e)'
  <2>1. PICK cause \in Causes : RollbackReissues(d, cause) /\ RollbackEnds(d, cause)
    BY <1>7, RollbackParts DEF TypeInv
  <2> DEFINE c == ClockSend(clock[d], wall[d])
             w == NewWire(d, c, cause)
             n == Store(Learn(cell[d], w), w, wall[d])
  <2>2. cell[d] \in CellType /\ c \in ClockType /\ wall[d] \in Nat
    BY DEF TypeInv, TypeOK, ClockSend, ClockType
  <2>3. w \in WireType
    BY <2>2, NewWireType DEF TypeInv
  <2>4. n.rec = w
    BY <2>2, <2>3, LearnFields, StoreType
  <2>5. ~MayFail
    BY <1>7 DEF Rollback
  <2>6. jar' = [jar EXCEPT ![d] = Live(w)]
    BY <2>1, <2>5 DEF RollbackEnds
  <2>7. UNCHANGED fiber /\ cell' = [cell EXCEPT ![d] = n] /\ Resting(d)
    BY <2>1 DEF RollbackReissues
  <2> HIDE DEF w, n
  <2>8. /\ jar'[d] = Live(w) /\ cell'[d] = n
        /\ \A e \in Devices : e # d => jar'[e] = jar[e] /\ cell'[e] = cell[e]
    BY <1>t, <2>6, <2>7
  <2>9. fiber'[d]["capture"] = Idle
    BY <1>t, <2>7, RestingIdle DEF TypeInv
  <2>10. Shown(d)'
    BY <2>4, <2>8, <2>9, IdleKind DEF Shown
  <2> QED BY <2>7, <2>8, <2>10, JarElsewhere
<1>8. ASSUME NEW d \in Devices, Gc(d) PROVE \A e \in Devices : Shown(e)'
  <2>1. /\ cell' = [cell EXCEPT ![d] = EmptyCell] /\ UNCHANGED <<jar, fiber>>
        /\ Resting(d) /\ IsDeletion(cell[d].rec)
    BY <1>8 DEF Gc, Collectable
  <2>2. fiber[d]["capture"] = Idle
    BY <1>t, <2>1, RestingIdle DEF TypeInv
  <2>3. Live(cell[d].rec) = FALSE /\ Live(EmptyCell.rec) = FALSE
    BY <2>1, CausesSplit DEF Live, EmptyCell
  <2>4. cell'[d] = EmptyCell /\ \A e \in Devices : e # d => cell'[e] = cell[e]
    BY <1>t, <2>1
  <2>5. Shown(d)'
    BY <2>1, <2>2, <2>3, <2>4, IdleKind DEF Shown
  <2> QED BY <2>1, <2>4, <2>5, JarElsewhere
<1>9. ASSUME NEW d \in Devices, \/ Tick(d) \/ GoOffline(d) \/ GoOnline(d) \/ Snapshot(d)
      PROVE  \A e \in Devices : Shown(e)'
  <2>1. UNCHANGED <<jar, cell, fiber>>
    BY <1>9 DEF Tick, GoOffline, GoOnline, Snapshot
  <2> QED BY <2>1, JarElsewhere
<1> QED BY <1>1, <1>2, <1>3, <1>4, <1>5, <1>6, <1>7, <1>8, <1>9 DEF Next

(* The browser shows what the engine recorded, on devices that run one     *)
(* task at a time.  (A refused rollback is the exception the code makes:   *)
(* reissue stores before the cookie store is asked.)                       *)
THEOREM JarMatchesRecordAlways ==
  ASSUME ~Overlap, ~(MayFail /\ MayRollBack)
  PROVE  Spec => []JarMatchesRecord
<1> DEFINE Snaps == \A d \in Devices : snap[d].taken => MayRollBack
           I == JarInv /\ Snaps
<1>1. Init => I
  BY JarInit DEF Init, NoSnap
<1>2. I /\ [Next]_vars => I'
  <2> SUFFICES ASSUME I, [Next]_vars PROVE I'
    OBVIOUS
  <2>1. JarInv'
    BY JarStep
  <2>2. UNCHANGED snap \/ MayRollBack
    BY DEF Next, vars, Tick, LocalStamp, LocalStore, Deliver, ApplyDone, ApplyFails,
           GoOffline, GoOnline, Snapshot, Rollback, Gc
  <2>3. Snaps'
    BY <2>2
  <2> QED BY <2>1, <2>3
<1>3. I => JarMatchesRecord
  <2> SUFFICES ASSUME I, NEW d \in Devices, Resting(d)
               PROVE  jar[d] = Live(cell[d].rec)
    BY DEF JarMatchesRecord
  <2>1. fiber[d]["capture"] = Idle
    BY RestingIdle DEF JarInv, TypeInv, Queues
  <2> QED BY <2>1, IdleKind DEF JarInv, Shown
<1> QED BY <1>1, <1>2, <1>3, PTL DEF Spec

(* ---- clocks ---- *)

(* Reading n is reached from reading c.                                    *)
ClockFrom(c, n) == n = c \/ ClockBefore(c, n)

LEMMA ClockOrder ==
  ASSUME NEW c \in ClockType, NEW n \in ClockType, ClockFrom(c, n)
  PROVE  /\ \A h \in HlcType : ~ClockBefore(c, h) => ~ClockBefore(n, h)
         /\ \A m \in ClockType : ClockFrom(n, m) => ClockFrom(c, m)
BY DEF ClockType, HlcType, ClockFrom, ClockBefore

LEMMA SendMoves ==
  ASSUME NEW c \in ClockType, NEW now \in Nat, NEW d \in Nat
  PROVE  LET n == ClockSend(c, now) IN
         /\ n \in ClockType /\ ClockBefore(c, n) /\ n.phys \in {c.phys, now}
         /\ Stamp(n, d) \in HlcType /\ Stamp(n, d).dev = d
         /\ ~ClockBefore(n, Stamp(n, d)) /\ ClockBefore(c, Stamp(n, d))
         /\ \A h \in HlcType : ~ClockBefore(c, h) => Before(h, Stamp(n, d))
<1> DEFINE n == ClockSend(c, now)
<1>1. n \in ClockType /\ ClockBefore(c, n) /\ n.phys \in {c.phys, now}
  BY DEF ClockSend, ClockType, ClockBefore
<1> HIDE DEF n
<1>2. /\ Stamp(n, d) \in HlcType /\ Stamp(n, d).dev = d
      /\ ~ClockBefore(n, Stamp(n, d)) /\ ClockBefore(c, Stamp(n, d))
      /\ \A h \in HlcType : ~ClockBefore(c, h) => Before(h, Stamp(n, d))
  BY <1>1 DEF ClockType, ClockBefore, HlcType, Before, Stamp
<1> QED BY <1>1, <1>2 DEF n

LEMMA ReceiveMoves ==
  ASSUME NEW c \in ClockType, NEW now \in Nat, NEW r \in HlcType
  PROVE  LET n == ClockReceive(c, now, r) IN
         /\ n \in ClockType /\ ClockBefore(c, n)
         /\ n.phys = c.phys \/ n.phys = now \/ n.phys <= r.phys
         /\ r.phys <= now + MaxClockDrift => ~ClockBefore(n, r)
<1> DEFINE n == ClockReceive(c, now, r)
           rp == Clamp(r.phys, now)
           phys == Maximum(now, Maximum(rp, c.phys))
           logi == IF phys = c.phys
                     THEN (IF phys = rp THEN Maximum(c.logi, r.logi) ELSE c.logi) + 1
                     ELSE IF phys = rp THEN r.logi + 1 ELSE 0
<1>1. /\ c.phys \in Nat /\ c.logi \in Nat /\ r.phys \in Nat /\ r.logi \in Nat
      /\ MaxClockDrift \in Nat
  BY DriftAssumption DEF ClockType, HlcType
<1>2. /\ rp \in Nat /\ rp <= r.phys
      /\ r.phys <= now + MaxClockDrift => rp = r.phys
  BY <1>1 DEF Clamp, Minimum
<1>3. n.phys = phys /\ n.logi = logi /\ n \in ClockType
  BY ClockTypes DEF ClockReceive
<1> HIDE DEF n, rp
<1>4. phys \in Nat /\ phys >= now /\ phys >= rp /\ phys >= c.phys
      /\ phys \in {now, rp, c.phys}
  BY <1>1, <1>2 DEF Maximum
<1> HIDE DEF phys
<1>5. phys = c.phys => logi > c.logi
  BY <1>1 DEF Maximum
<1>6. phys = rp => logi > r.logi
  BY <1>1 DEF Maximum
<1> HIDE DEF logi
<1>8. n.phys \in Nat /\ n.logi \in Nat
  BY <1>3 DEF ClockType
<1>7. /\ ClockBefore(c, n)
      /\ n.phys = c.phys \/ n.phys = now \/ n.phys <= r.phys
      /\ r.phys <= now + MaxClockDrift => ~ClockBefore(n, r)
  BY <1>1, <1>2, <1>3, <1>4, <1>5, <1>6, <1>8 DEF ClockBefore
<1> QED BY <1>3, <1>7 DEF n

(* ---- the guard holds ---- *)

(* No two wall clocks are further apart than the drift bound: no merge is  *)
(* cut by it.                                                              *)
ClocksClose == \A d, e \in Devices : wall[d] <= wall[e] + MaxClockDrift

(* No physical time runs ahead of every wall clock.                        *)
Shows(phys) == \E e \in Devices : phys <= wall[e]

(* The clock of d is not behind what d has issued or learned of.           *)
ClockKept(d, W) ==
  /\ \A x \in W : x.hlc.dev = d => ~ClockBefore(clock[d], x.hlc)
  /\ \A h \in known[d] : ~ClockBefore(clock[d], h)
  /\ Shows(clock[d].phys)

DeviceKept(d, W) ==
  /\ CellDrawn(cell[d], W) /\ CellFenced(cell[d], known[d], W)
  /\ TaskStands(d, cell[d], fiber[d], known[d], unapplied[d], W)

(* All that is stored, queued, published or under way is among the records *)
(* made, and every device keeps its clock, its fence and its record in     *)
(* step with them.                                                         *)
GuardInv(W) ==
  /\ History(W) /\ \A x \in W : Shows(x.hlc.phys)
  /\ \A i \in 1..Len(log) : log[i] \in W
  /\ \A d \in Devices : queue[d] \in W \union {NoWire}
  /\ \A d \in Devices : ClockKept(d, W) /\ DeviceKept(d, W)

Kept(W) == TypeInv /\ TasksInv /\ GuardInv(W)

(* With more records made, nothing that is kept is lost.                   *)
LEMMA DeviceElsewhere ==
  ASSUME NEW W, NEW V, W \subseteq V, NEW e \in Devices, DeviceKept(e, W),
         cell'[e] = cell[e], fiber'[e] = fiber[e], known'[e] = known[e],
         unapplied'[e] = unapplied[e]
  PROVE  DeviceKept(e, V)'
<1>1. CellDrawn(cell[e], V)
  BY DEF DeviceKept, CellDrawn, EdgesTrue
<1>2. CellFenced(cell[e], known[e], V)
  BY DEF DeviceKept, CellFenced
<1>3. TaskStands(e, cell[e], fiber[e], known[e], unapplied[e], V)
  BY DEF DeviceKept, TaskStands
<1> QED BY <1>1, <1>2, <1>3 DEF DeviceKept

(* A clock that moves on, and what its device learns or makes meanwhile.   *)
LEMMA ClocksElsewhere ==
  ASSUME NEW W, Kept(W), NEW d \in Devices, NEW n \in ClockType,
         ClockFrom(clock[d], n), Shows(n.phys),
         clock' = [clock EXCEPT ![d] = n], UNCHANGED wall,
         NEW L, L \subseteq HlcType, known' = [known EXCEPT ![d] = @ \union L],
         \A h \in L : ~ClockBefore(n, h),
         NEW V, \A x \in V \ W : x.hlc.dev = d /\ ~ClockBefore(n, x.hlc)
  PROVE  \A e \in Devices : ClockKept(e, V)'
<1>0. /\ clock \in [Devices -> ClockType] /\ known \in [Devices -> SUBSET HlcType]
      /\ \A x \in W : x.hlc \in HlcType
      /\ \A e \in Devices : ClockKept(e, W)
  BY DEF Kept, TypeInv, TypeOK, GuardInv, History, WireType
<1> TAKE e \in Devices
<1>1. CASE e # d
  <2>1. clock'[e] = clock[e] /\ known'[e] = known[e]
    BY <1>0, <1>1
  <2>2. \A x \in V : x.hlc.dev = e => x \in W
    BY <1>1
  <2> QED BY <1>0, <2>1, <2>2 DEF ClockKept, Shows
<1>2. CASE e = d
  <2>1. clock'[d] = n /\ known'[d] = known[d] \union L
    BY <1>0
  <2>2. \A h \in HlcType : ~ClockBefore(clock[d], h) => ~ClockBefore(n, h)
    BY <1>0, ClockOrder
  <2>3. ASSUME NEW x \in V, x.hlc.dev = d PROVE ~ClockBefore(n, x.hlc)
    BY <1>0, <2>2, <2>3 DEF ClockKept
  <2>4. ASSUME NEW h \in known[d] \union L PROVE ~ClockBefore(n, h)
    BY <1>0, <2>2, <2>4 DEF ClockKept
  <2> QED BY <1>2, <2>1, <2>3, <2>4 DEF ClockKept, Shows
<1> QED BY <1>1, <1>2

LEMMA RetryClockMoves ==
  ASSUME NEW W, Kept(W), NEW d \in Devices, NEW c \in CellType, CellDrawn(c, W),
         NEW clk \in ClockType, Shows(clk.phys)
  PROVE  LET n == RetryClock(c, clk, wall[d]) IN
         n \in ClockType /\ ClockFrom(clk, n) /\ Shows(n.phys)
<1>0. wall[d] \in Nat /\ wall \in [Devices -> Nat]
  BY DEF Kept, TypeInv, TypeOK
<1>1. CASE RetryClock(c, clk, wall[d]) = clk
  BY <1>1 DEF ClockFrom
<1>2. CASE RetryClock(c, clk, wall[d]) # clk
  <2>1. /\ RetryClock(c, clk, wall[d]) = ClockReceive(clk, wall[d], c.parked.hlc)
        /\ c.parked # NoWire
    BY <1>2 DEF RetryClock, Unparks
  <2>2. c.parked \in W /\ c.parked.hlc \in HlcType /\ Shows(c.parked.hlc.phys)
    BY <2>1 DEF CellDrawn, Kept, GuardInv, History, WireType
  <2> DEFINE n == ClockReceive(clk, wall[d], c.parked.hlc)
  <2>3. /\ n \in ClockType /\ ClockBefore(clk, n)
        /\ n.phys = clk.phys \/ n.phys = wall[d] \/ n.phys <= c.parked.hlc.phys
    BY <1>0, <2>2, ReceiveMoves
  <2> HIDE DEF n
  <2>4. n.phys \in Nat /\ c.parked.hlc.phys \in Nat /\ clk.phys \in Nat
    BY <2>2, <2>3 DEF ClockType, HlcType
  <2>5. Shows(n.phys)
    BY <1>0, <2>2, <2>3, <2>4 DEF Shows
  <2> QED BY <2>1, <2>3, <2>5 DEF n, ClockFrom
<1> QED BY <1>1, <1>2

LEMMA PublishDrawn ==
  ASSUME NEW W, Kept(W), NEW d \in Devices, NEW w \in WireType, PublishOrQueue(d, w),
         NEW V, W \subseteq V, w \in V
  PROVE  /\ \A i \in 1..Len(log') : log'[i] \in V
         /\ \A e \in Devices : queue'[e] \in V \union {NoWire}
<1>0. log \in Seq(WireType) /\ queue \in [Devices -> WireType \union {NoWire}]
  BY DEF Kept, TypeInv, TypeOK
<1>1. \A i \in 1..Len(log) : log[i] \in V
  BY DEF Kept, GuardInv
<1>2. \A e \in Devices : queue[e] \in V \union {NoWire}
  BY DEF Kept, GuardInv
<1>3. \A i \in 1..Len(log') : log'[i] \in V
  BY <1>0, <1>1 DEF PublishOrQueue
<1>4. \A e \in Devices : queue'[e] \in V \union {NoWire}
  BY <1>0, <1>2 DEF PublishOrQueue, Later
<1> QED BY <1>3, <1>4

(* Storing a record that may stand.                                        *)
LEMMA StoreStands ==
  ASSUME NEW c, NEW K, NEW W, CellKept(c, K, W), NEW U, NEW x \in W,
         SoundFor(c, U, x), Explicit(x) \subseteq K, NEW now \in Nat
  PROVE  /\ CellKept(Store(c, x, now), K, W)
         /\ SoundFor(Store(c, x, now), U, Store(c, x, now).rec)
<1> DEFINE n == Store(c, x, now)
<1>1. x \in WireType /\ c \in CellType
  BY DEF CellKept, History
<1>2. /\ n \in CellType /\ n.rec = x /\ n.fence = c.fence
      /\ n.tomb = c.tomb /\ n.edges = c.edges /\ n.parked = c.parked
  BY <1>1, StoreType
<1> HIDE DEF n
<1>3. CellDrawn(n, W)
  BY <1>2 DEF CellKept, CellDrawn
<1>4. CellFenced(n, K, W)
  BY <1>2 DEF CellKept, CellFenced
<1> QED BY <1>2, <1>3, <1>4 DEF CellKept, SoundFor, n

(* A record whose writer knew all that the device has learned, and that is *)
(* later than all of it, may be stored as soon as it is learned.           *)
LEMMA OwnStored ==
  ASSUME NEW c, NEW K, NEW W, CellKept(c, K, W), NEW U, NEW w \in W,
         K \subseteq w.past, \A h \in K : Before(h, w.hlc), NEW now \in Nat
  PROVE  LET n == Store(Learn(c, w), w, now) IN
         CellKept(n, K \union Explicit(w), W) /\ SoundFor(n, U, n.rec)
<1> DEFINE l == Learn(c, w)
<1>1. w \in WireType /\ w \in Wires /\ w.hlc \in HlcType /\ c \in CellType /\ History(W)
  BY WireFields DEF CellKept, History, Wires
<1>2. l.fence = NoteFence(c.fence, w) /\ l \in CellType
  BY <1>1, LearnFields
<1>3. CellKept(l, K \union Explicit(w), W)
  BY <1>1, <1>2, LearnKeeps DEF CellKept
<1> HIDE DEF l
<1>4. c.fence = NoHlc \/ (c.fence \in K /\ Before(c.fence, w.hlc) /\ c.fence \in w.past)
  BY DEF CellKept, CellFenced
<1>5. SoundFor(l, U, w)
  <2>1. CASE w.cause = "EXPLICIT_DELETE"
    <3>1. Before(c.fence, w.hlc)
      BY <1>1, <1>4, TimesOrdered
    <3>2. l.fence = w.hlc
      BY <1>2, <2>1, <3>1 DEF NoteFence
    <3> QED BY <1>1, <2>1, <3>2, CausesSplit DEF SoundFor, AtMost, Live
  <2>2. CASE w.cause # "EXPLICIT_DELETE"
    <3>1. l.fence = c.fence
      BY <1>2, <2>2 DEF NoteFence
    <3> QED BY <1>4, <3>1 DEF SoundFor, AtMost
  <2> QED BY <2>1, <2>2
<1> QED BY <1>3, <1>5, StoreStands DEF l

(* A record that was just made joins the history.                          *)
LEMMA HistoryGrows ==
  ASSUME NEW W, Kept(W), NEW d \in Devices, NEW n \in ClockType,
         ClockBefore(clock[d], Stamp(n, d)), NEW cause \in Causes
  PROVE  LET w == NewWire(d, n, cause) IN
         History(W \union {w})
<1> DEFINE w == NewWire(d, n, cause)
<1>1. /\ w \in WireType /\ w.hlc = Stamp(n, d) /\ w.parent = cell[d].rec.hlc
      /\ w.past = known[d] \union cell[d].rec.past
  BY NewWireType DEF Kept, TypeInv
<1> HIDE DEF w
<1>2. History(W) /\ ClockKept(d, W) /\ DeviceKept(d, W)
  BY DEF Kept, GuardInv
<1>3. \A x \in W : x.hlc # w.hlc
  <2>1. Stamp(n, d).dev = d
    BY DEF Stamp
  <2> QED BY <1>1, <1>2, <2>1 DEF ClockKept
<1>4. \/ w.parent = NoHlc
      \/ \E y \in W : y.hlc = w.parent /\ y.past \union Explicit(y) \subseteq w.past
  <2>1. CASE cell[d].rec = NoWire
    BY <1>1, <2>1, WireFields
  <2>2. CASE cell[d].rec # NoWire
    <3>1. cell[d].rec \in W /\ Explicit(cell[d].rec) \subseteq known[d]
      BY <1>2, <2>2 DEF DeviceKept, CellDrawn, CellFenced
    <3> QED BY <1>1, <3>1
  <2> QED BY <2>1, <2>2
<1>5. History(W \union {w})
  BY <1>1, <1>2, <1>3, <1>4 DEF History
<1> QED BY <1>5 DEF w

LEMMA CellIsKept ==
  ASSUME NEW W, Kept(W), NEW d \in Devices
  PROVE  /\ CellKept(cell[d], known[d], W) /\ cell[d] \in CellType
         /\ clock[d] \in ClockType /\ wall[d] \in Nat /\ fiber[d] \in [Queues -> FiberType]
         /\ OneTask(fiber[d]) /\ ClockKept(d, W) /\ d \in Nat
         /\ TaskStands(d, cell[d], fiber[d], known[d], unapplied[d], W)
         /\ known[d] \subseteq HlcType /\ W \subseteq WireType
BY ReplicaAssumption
   DEF Kept, TypeInv, TypeOK, TasksInv, GuardInv, DeviceKept, CellKept, History

(* After a retry the device is in order again.                             *)
LEMMA RetryKeeps ==
  ASSUME NEW W, Kept(W), NEW d \in Devices, NEW q \in Queues, NEW c, NEW clk \in ClockType,
         RetryParked(d, q, c, clk), \A p \in Queues : p # q => fiber[d][p] = Idle,
         CellKept(c, known'[d], W), SoundFor(c, unapplied'[d], c.rec), Shows(clk.phys)
  PROVE  /\ DeviceKept(d, W)'
         /\ \A e \in Devices : e # d => cell'[e] = cell[e] /\ fiber'[e] = fiber[e]
         /\ LET n == RetryClock(c, clk, wall[d]) IN
            /\ n \in ClockType /\ ClockFrom(clk, n) /\ Shows(n.phys)
            /\ clock' = [clock EXCEPT ![d] = n]
<1> DEFINE F == fiber[d]
           G == [F EXCEPT ![q] = RetryFiber(c)]
<1>1. /\ F \in [Queues -> FiberType] /\ cell \in [Devices -> CellType]
      /\ fiber \in [Devices -> [Queues -> FiberType]]
      /\ c \in CellType /\ CellDrawn(c, W)
  BY DEF Kept, TypeInv, TypeOK, CellKept
<1>2. /\ cell' = [cell EXCEPT ![d] = Retried(c)]
      /\ clock' = [clock EXCEPT ![d] = RetryClock(c, clk, wall[d])]
      /\ fiber' = [fiber EXCEPT ![d][q] = RetryFiber(c)]
  BY DEF RetryParked
<1>3. cell'[d] = Retried(c) /\ fiber'[d] = G
  BY <1>1, <1>2
<1>4. CellKept(Retried(c), known'[d], W)
  BY RetriedKept
<1>5. TaskStands(d, Retried(c), G, known'[d], unapplied'[d], W)
  BY <1>1, RetriedStands
<1> HIDE DEF G
<1>6. DeviceKept(d, W)'
  BY <1>3, <1>4, <1>5 DEF DeviceKept, CellKept
<1>7. \A e \in Devices : e # d => cell'[e] = cell[e] /\ fiber'[e] = fiber[e]
  BY <1>1, <1>2
<1> QED BY <1>1, <1>2, <1>6, <1>7, RetryClockMoves

(* ---- each step keeps the guard ---- *)

LEMMA GuardInit == Init => GuardInv({})
<1> SUFFICES ASSUME Init PROVE GuardInv({})
  OBVIOUS
<1>1. History({}) /\ Len(log) = 0 /\ \A d \in Devices : queue[d] = NoWire
  BY DEF Init, History
<1>2. ASSUME NEW d \in Devices PROVE ClockKept(d, {})
  BY <1>2 DEF Init, ClockKept, Shows, ZeroClock
<1>3. ASSUME NEW d \in Devices PROVE DeviceKept(d, {})
  <2>1. cell[d] = EmptyCell /\ known[d] = {} /\ fiber[d] = AllIdle
    BY DEF Init, AllIdle
  <2>2. CellDrawn(EmptyCell, {})
    BY DEF EmptyCell, CellDrawn, EdgesTrue
  <2>3. CellFenced(EmptyCell, {}, {})
    BY WireFields DEF EmptyCell, CellFenced, AtMost, WriteCauses
  <2>4. \A q \in Queues : fiber[d][q].kind = "idle"
    BY <2>1, IdleKind DEF AllIdle
  <2>5. TaskStands(d, EmptyCell, fiber[d], {}, unapplied[d], {})
    BY <2>4 DEF TaskStands, SoundFor, EmptyCell, Queues
  <2> QED BY <2>1, <2>2, <2>3, <2>5 DEF DeviceKept
<1> QED BY <1>1, <1>2, <1>3 DEF GuardInv

LEMMA GuardLocalStamp ==
  ASSUME ~Overlap, NEW W, Kept(W), NEW d \in Devices, LocalStamp(d)
  PROVE  \E V : GuardInv(V)'
<1>1. PICK ch \in Changes :
         LET cause == CauseForChange(ch[1], ch[2])
             c     == ClockSend(clock[d], wall[d]) IN
         /\ MayStart(d, "capture") /\ cause # "none"
         /\ clock' = [clock EXCEPT ![d] = c]
         /\ fiber' = [fiber EXCEPT ![d]["capture"] =
                        [kind |-> "stamped", wire |-> NewWire(d, c, cause),
                         retry |-> FALSE]]
         /\ UNCHANGED <<wall, cell, online, queue, snap, log, delivered, known, unapplied>>
  BY DEF LocalStamp
<1> DEFINE cause == CauseForChange(ch[1], ch[2])
           n == ClockSend(clock[d], wall[d])
           w == NewWire(d, n, cause)
<1>v. PICK V : V = W \union {w}
  OBVIOUS
<1>2. /\ clock[d] \in ClockType /\ wall[d] \in Nat /\ d \in Nat /\ cause \in Causes
      /\ TypeInv /\ TypeOK /\ fiber[d] \in [Queues -> FiberType]
      /\ fiber \in [Devices -> [Queues -> FiberType]]
  BY <1>1, CellIsKept, CauseTypes DEF Kept, TypeInv, TypeOK
<1>3. /\ n \in ClockType /\ ClockBefore(clock[d], n) /\ n.phys \in {clock[d].phys, wall[d]}
      /\ Stamp(n, d).dev = d
      /\ ~ClockBefore(n, Stamp(n, d)) /\ ClockBefore(clock[d], Stamp(n, d))
      /\ \A h \in HlcType : ~ClockBefore(clock[d], h) => Before(h, Stamp(n, d))
  <2>1. clock[d] \in ClockType /\ wall[d] \in Nat /\ d \in Nat
    BY <1>2
  <2> QED BY <2>1, SendMoves
<1> HIDE DEF n, cause
<1>4. /\ w \in WireType /\ w.hlc = Stamp(n, d)
      /\ w.past = known[d] \union cell[d].rec.past
  BY <1>2, <1>3, NewWireType
<1>5. History(V)
  <2>1. History(W \union {NewWire(d, n, cause)})
    BY <1>2, <1>3, HistoryGrows
  <2> QED BY <1>v, <2>1
<1> HIDE DEF w
<1>6. Shows(n.phys) /\ Shows(w.hlc.phys)
  <2>1. Shows(n.phys)
    BY <1>2, <1>3, CellIsKept DEF Shows, ClockKept
  <2> QED BY <1>4, <2>1 DEF Stamp
<1>7. \A e \in Devices : ClockKept(e, V)'
  <2>1. \A x \in V \ W : x.hlc.dev = d /\ ~ClockBefore(n, x.hlc)
    BY <1>3, <1>4, <1>v
  <2>0. PICK L : L = {}
    OBVIOUS
  <2>2. L \subseteq HlcType /\ known' = [known EXCEPT ![d] = @ \union L]
    BY <1>1, <1>2, <2>0 DEF TypeOK
  <2>3. clock' = [clock EXCEPT ![d] = n] /\ UNCHANGED wall
    BY <1>1 DEF n
  <2>4. /\ ClockFrom(clock[d], n) /\ n \in ClockType /\ Shows(n.phys)
        /\ \A h \in L : ~ClockBefore(n, h)
    BY <1>3, <1>6, <2>0 DEF ClockFrom
  <2> QED BY <2>1, <2>2, <2>3, <2>4, ClocksElsewhere
<1> DEFINE f == [kind |-> "stamped", wire |-> w, retry |-> FALSE]
           G == [fiber[d] EXCEPT !["capture"] = f]
<1>8. /\ \A q \in Queues : fiber[d][q] = Idle
  BY <1>1, <1>2, StartsResting, RestingIdle DEF Queues
<1>9. fiber'[d] = G /\ \A e \in Devices : e # d => fiber'[e] = fiber[e]
  BY <1>1, <1>2 DEF w, n, cause
<1>10. f \in FiberType /\ f.kind = "stamped" /\ f.wire = w
  BY <1>4 DEF FiberType
<1> HIDE DEF f
<1>11. /\ G["capture"] = f /\ \A p \in Queues : p # "capture" => G[p] = Idle
       /\ G = AllIdle => f = Idle
  BY <1>2, <1>8, <1>10, OneTaskSet DEF Queues
<1>12. DeviceKept(d, V)'
  <2>1. CellDrawn(cell[d], V) /\ CellFenced(cell[d], known[d], V)
    BY <1>v, CellIsKept DEF CellKept, CellDrawn, EdgesTrue, CellFenced
  <2>2. \A h \in known[d] : Before(h, w.hlc)
    BY <1>3, <1>4, CellIsKept DEF ClockKept
  <2> HIDE DEF G
  <2>3. \A q \in Queues : G[q].kind # "applying"
    BY <1>10, <1>11, IdleKind
  <2>4. G # AllIdle
    BY <1>10, <1>11, IdleKind
  <2>5. TaskStands(d, cell[d], G, known[d], unapplied[d], V)
    BY <1>3, <1>4, <1>10, <1>11, <1>v, <2>2, <2>3, <2>4 DEF TaskStands, Queues
  <2>6. /\ cell'[d] = cell[d] /\ known'[d] = known[d] /\ unapplied'[d] = unapplied[d]
        /\ fiber'[d] = G
    BY <1>1, <1>9
  <2> QED BY <2>1, <2>5, <2>6 DEF DeviceKept
<1>13. \A e \in Devices : DeviceKept(e, V)'
  <2>1. \A e \in Devices : DeviceKept(e, W)
    BY DEF Kept, GuardInv
  <2>2. W \subseteq V
    BY <1>v
  <2>3. UNCHANGED <<cell, known, unapplied>>
    BY <1>1
  <2> HIDE DEF G
  <2>4. ASSUME NEW e \in Devices, e # d PROVE DeviceKept(e, V)'
    BY <1>9, <2>1, <2>2, <2>3, <2>4, DeviceElsewhere
  <2> QED BY <1>12, <2>4
<1>14. /\ \A x \in V : Shows(x.hlc.phys)'
       /\ \A i \in 1..Len(log') : log'[i] \in V
       /\ \A e \in Devices : queue'[e] \in V \union {NoWire}
  BY <1>1, <1>6, <1>v DEF Kept, GuardInv, Shows
<1> QED BY <1>5, <1>7, <1>13, <1>14 DEF GuardInv

LEMMA GuardLocalStore ==
  ASSUME NEW W, Kept(W), NEW d \in Devices, LocalStore(d)
  PROVE  GuardInv(W)'
<1> DEFINE w == fiber[d]["capture"].wire
           c == Store(Learn(cell[d], w), w, wall[d])
           n == RetryClock(c, clock[d], wall[d])
<1>1. /\ fiber[d]["capture"].kind = "stamped" /\ "capture" \in Queues
      /\ RetryParked(d, "capture", c, clock[d]) /\ PublishOrQueue(d, w)
      /\ known' = [known EXCEPT ![d] = @ \union Explicit(w)]
      /\ UNCHANGED <<jar, wall, online, snap, delivered, made, unapplied>>
  BY DEF LocalStore, Queues
<1>2. /\ w \in W /\ w.hlc.dev = d /\ known[d] \subseteq w.past
      /\ \A h \in known[d] : Before(h, w.hlc)
  BY <1>1, CellIsKept DEF TaskStands
<1>3. w \in WireType /\ w.hlc \in HlcType
  BY <1>2, CellIsKept DEF WireType
<1>4. \A p \in Queues : p # "capture" => fiber[d][p] = Idle
  BY <1>1, CellIsKept, OthersIdle
<1>5. /\ CellKept(c, known[d] \union Explicit(w), W)
      /\ SoundFor(c, unapplied[d], c.rec)
  BY <1>2, CellIsKept, OwnStored
<1>6. known'[d] = known[d] \union Explicit(w) /\ known \in [Devices -> SUBSET HlcType]
  BY <1>1 DEF Kept, TypeInv, TypeOK
<1>c. clock[d] \in ClockType /\ Shows(clock[d].phys) /\ ClockKept(d, W)
  BY CellIsKept DEF ClockKept
<1>u. unapplied' = unapplied /\ wall' = wall
  BY <1>1
<1> HIDE DEF w, c
<1>7. /\ DeviceKept(d, W)'
      /\ \A e \in Devices : e # d => cell'[e] = cell[e] /\ fiber'[e] = fiber[e]
      /\ n \in ClockType /\ ClockFrom(clock[d], n) /\ Shows(n.phys)
      /\ clock' = [clock EXCEPT ![d] = n]
  <2>1. CellKept(c, known'[d], W) /\ SoundFor(c, unapplied'[d], c.rec)
    BY <1>5, <1>6, <1>u
  <2>2. RetryParked(d, "capture", c, clock[d]) /\ "capture" \in Queues
    BY <1>1 DEF c
  <2> QED BY <1>4, <1>c, <2>1, <2>2, RetryKeeps
<1> HIDE DEF n
<1>8. Explicit(w) \subseteq HlcType /\ \A h \in Explicit(w) : ~ClockBefore(n, h)
  BY <1>2, <1>3, <1>7, <1>c, ClockOrder DEF Explicit, ClockKept
<1>9. \A e \in Devices : ClockKept(e, W)'
  BY <1>1, <1>7, <1>8, ClocksElsewhere
<1>10. \A e \in Devices : DeviceKept(e, W)'
  <2>1. \A e \in Devices : DeviceKept(e, W)
    BY DEF Kept, GuardInv
  <2>2. \A e \in Devices : e # d => known'[e] = known[e]
    BY <1>1, <1>6
  <2> QED BY <1>7, <1>u, <2>1, <2>2, DeviceElsewhere
<1>11. /\ \A i \in 1..Len(log') : log'[i] \in W
       /\ \A e \in Devices : queue'[e] \in W \union {NoWire}
  BY <1>1, <1>2, <1>3, PublishDrawn
<1> QED BY <1>9, <1>10, <1>11, <1>u DEF Kept, GuardInv, Shows

LEMMA GuardDeliver ==
  ASSUME ~Overlap, ClocksClose, NEW W, Kept(W), NEW d \in Devices, Deliver(d)
  PROVE  GuardInv(W)'
<1>1. PICK i \in 1..Len(log) :
         /\ DeliverTaught(d, i)
         /\ DeliverStarts(d, log[i]) \/ DeliverRests(d, log[i])
  BY DeliverParts DEF Kept, TypeInv
<1> DEFINE w   == log[i]
           clk == ClockReceive(clock[d], wall[d], w.hlc)
           c   == Learn(cell[d], w)
           L   == known[d] \union Explicit(w)
<1>2. w \in W /\ w \in WireType /\ w.hlc \in HlcType /\ Shows(w.hlc.phys)
  BY CellIsKept DEF Kept, GuardInv, WireType
<1>3. /\ known'[d] = L /\ known' = [known EXCEPT ![d] = @ \union Explicit(w)]
      /\ known \in [Devices -> SUBSET HlcType]
      /\ UNCHANGED <<wall, log, queue, unapplied>>
  BY <1>1 DEF DeliverTaught, Kept, TypeInv, TypeOK
<1>4. "records" \in Queues /\ fiber[d] = AllIdle /\ \A q \in Queues : fiber[d][q] = Idle
  BY <1>1, StartsResting, RestingIdle DEF DeliverTaught, Kept, TypeInv, Queues
<1>5. CellKept(cell[d], known[d], W) /\ SoundFor(cell[d], unapplied[d], cell[d].rec)
  BY <1>4, CellIsKept DEF TaskStands
<1>6. CellKept(c, L, W)
  BY <1>2, <1>5, LearnKeeps, LearnFields DEF CellKept
<1>7. /\ clk \in ClockType /\ ClockFrom(clock[d], clk) /\ Shows(clk.phys)
      /\ ~ClockBefore(clk, w.hlc)
  <2>1. /\ clock[d] \in ClockType /\ wall[d] \in Nat /\ wall \in [Devices -> Nat]
        /\ Shows(clock[d].phys)
    BY CellIsKept DEF ClockKept, Kept, TypeInv, TypeOK
  <2>2. w.hlc.phys <= wall[d] + MaxClockDrift
    <3>1. PICK e \in Devices : w.hlc.phys <= wall[e]
      BY <1>2 DEF Shows
    <3>2. wall[e] <= wall[d] + MaxClockDrift /\ w.hlc.phys \in Nat /\ wall[e] \in Nat
      BY <1>2, <2>1 DEF ClocksClose, HlcType
    <3> QED BY <2>1, <3>1, <3>2, DriftAssumption
  <2>3. /\ clk \in ClockType /\ ClockBefore(clock[d], clk)
        /\ clk.phys = clock[d].phys \/ clk.phys = wall[d] \/ clk.phys <= w.hlc.phys
        /\ ~ClockBefore(clk, w.hlc)
    BY <1>2, <2>1, <2>2, ReceiveMoves
  <2> HIDE DEF clk
  <2>4. clk.phys \in Nat /\ clock[d].phys \in Nat /\ w.hlc.phys \in Nat
    BY <1>2, <2>1, <2>3 DEF ClockType, HlcType
  <2>5. Shows(clk.phys)
    BY <1>2, <2>1, <2>3, <2>4 DEF Shows
  <2> QED BY <2>3, <2>5 DEF ClockFrom
<1>8. \E n \in ClockType :
        /\ ClockFrom(clk, n) /\ Shows(n.phys) /\ clock' = [clock EXCEPT ![d] = n]
        /\ DeviceKept(d, W)'
        /\ \A e \in Devices : e # d => cell'[e] = cell[e] /\ fiber'[e] = fiber[e]
  <2>1. CASE DeliverStarts(d, w)
    <3> DEFINE x == Winner(c, w)
               f == [kind |-> "applying", wire |-> x, retry |-> TRUE]
               G == [fiber[d] EXCEPT !["records"] = f]
    <3>1. x \in W /\ SoundFor(c, unapplied[d], x) /\ Explicit(x) \subseteq L
      BY <1>2, <1>5, <2>1, AppliedStands DEF DeliverStarts
    <3>2. f \in FiberType /\ f.kind = "applying" /\ f.wire = x
      BY <3>1, CellIsKept DEF FiberType
    <3>3. /\ cell' = [cell EXCEPT ![d] = c] /\ clock' = [clock EXCEPT ![d] = clk]
          /\ fiber' = [fiber EXCEPT ![d]["records"] = f]
          /\ cell \in [Devices -> CellType] /\ fiber \in [Devices -> [Queues -> FiberType]]
      BY <2>1 DEF DeliverStarts, Kept, TypeInv, TypeOK
    <3> HIDE DEF f, x, c, clk, L, w
    <3>4. /\ cell'[d] = c /\ fiber'[d] = G
          /\ \A e \in Devices : e # d => cell'[e] = cell[e] /\ fiber'[e] = fiber[e]
      BY <3>3
    <3>5. /\ G["records"] = f /\ \A p \in Queues : p # "records" => G[p] = Idle
          /\ G = AllIdle => f = Idle
      BY <1>4, <3>2, <3>3, OneTaskSet
    <3> HIDE DEF G
    <3>6. G # AllIdle /\ G["capture"].kind # "stamped"
      BY <3>2, <3>5, IdleKind DEF Queues
    <3>7. ASSUME NEW q \in Queues, G[q].kind = "applying" PROVE G[q].wire = x
      BY <3>2, <3>5, <3>7, IdleKind
    <3>8. TaskStands(d, c, G, L, unapplied[d], W)
      BY <3>1, <3>6, <3>7 DEF TaskStands
    <3>9. DeviceKept(d, W)'
      BY <1>3, <1>6, <3>4, <3>8 DEF DeviceKept, CellKept
    <3> QED BY <1>7, <3>3, <3>4, <3>9 DEF ClockFrom
  <2>2. CASE DeliverRests(d, w)
    <3> DEFINE p == IF Resolve(c, w) = "blocked" THEN Park(c, w) ELSE c
    <3>1. RetryParked(d, "records", p, clk) /\ Resolve(c, w) # "applied"
      BY <2>2 DEF DeliverRests
    <3>2. SoundFor(c, unapplied[d], cell[d].rec) /\ c.rec = cell[d].rec
      BY <1>2, <1>5, <3>1, NotApplied, LearnFields, CellIsKept
    <3>3. CellKept(p, L, W) /\ SoundFor(p, unapplied[d], p.rec)
      <4>1. CASE Resolve(c, w) # "blocked"
        BY <1>6, <3>2, <4>1
      <4>2. CASE Resolve(c, w) = "blocked"
        <5>1. w.cause \in WriteCauses
          <6>1. LastWriterWins(c, w) # "blocked"
            BY DEF LastWriterWins
          <6> QED BY <4>2, <6>1 DEF Resolve, Blocked
        <5> DEFINE k == Park(c, w)
        <5> HIDE DEF c, L, w
        <5>2. /\ k \in CellType /\ k.rec = c.rec /\ k.fence = c.fence /\ k.tomb = c.tomb
              /\ k.edges = c.edges /\ k.parked \in {c.parked, w}
          BY <1>2, <1>6, ParkType DEF CellKept
        <5> HIDE DEF k
        <5>3. CellDrawn(k, W)
          BY <1>2, <1>6, <5>2 DEF CellKept, CellDrawn
        <5>4. CellFenced(k, L, W)
          BY <1>6, <5>1, <5>2 DEF CellKept, CellFenced
        <5>5. CellKept(k, L, W) /\ SoundFor(k, unapplied[d], k.rec)
          BY <1>6, <3>2, <5>2, <5>3, <5>4 DEF CellKept, SoundFor
        <5> QED BY <4>2, <5>5 DEF k
      <4> QED BY <4>1, <4>2
    <3> HIDE DEF p, c, w, clk
    <3>4. CellKept(p, known'[d], W) /\ SoundFor(p, unapplied'[d], p.rec)
      BY <1>3, <3>3
    <3> QED BY <1>4, <1>7, <3>1, <3>4, RetryKeeps
  <2> QED BY <1>1, <2>1, <2>2
<1>9. PICK n \in ClockType :
        /\ ClockFrom(clk, n) /\ Shows(n.phys) /\ clock' = [clock EXCEPT ![d] = n]
        /\ DeviceKept(d, W)'
        /\ \A e \in Devices : e # d => cell'[e] = cell[e] /\ fiber'[e] = fiber[e]
  BY <1>8
<1>10. /\ ClockFrom(clock[d], n) /\ ~ClockBefore(n, w.hlc)
  BY <1>2, <1>7, <1>9, ClockOrder, CellIsKept
<1>11. Explicit(w) \subseteq HlcType /\ \A h \in Explicit(w) : ~ClockBefore(n, h)
  BY <1>2, <1>10 DEF Explicit
<1> HIDE DEF w, clk, c, L
<1>12. \A e \in Devices : ClockKept(e, W)'
  BY <1>3, <1>9, <1>10, <1>11, ClocksElsewhere
<1>13. \A e \in Devices : DeviceKept(e, W)'
  <2>1. \A e \in Devices : DeviceKept(e, W)
    BY DEF Kept, GuardInv
  <2>2. \A e \in Devices : e # d => known'[e] = known[e]
    BY <1>3
  <2> QED BY <1>3, <1>9, <2>1, <2>2, DeviceElsewhere
<1> QED BY <1>3, <1>12, <1>13 DEF Kept, GuardInv, Shows

(* A device whose clock, cell and task alone change.                       *)
LEMMA GuardOneDevice ==
  ASSUME NEW W, Kept(W), NEW d \in Devices, NEW n \in ClockType,
         ClockFrom(clock[d], n), Shows(n.phys), clock' = [clock EXCEPT ![d] = n],
         UNCHANGED <<wall, known, log, queue>>,
         DeviceKept(d, W)',
         \A e \in Devices : e # d => /\ cell'[e] = cell[e] /\ fiber'[e] = fiber[e]
                                     /\ unapplied'[e] = unapplied[e]
  PROVE  GuardInv(W)'
<1>0. PICK L : L = {}
  OBVIOUS
<1>1. /\ L \subseteq HlcType /\ \A h \in L : ~ClockBefore(n, h)
      /\ known' = [known EXCEPT ![d] = @ \union L] /\ UNCHANGED wall
      /\ \A x \in W \ W : x.hlc.dev = d /\ ~ClockBefore(n, x.hlc)
  BY <1>0 DEF Kept, TypeInv, TypeOK
<1>2. \A e \in Devices : ClockKept(e, W)'
  BY <1>1, ClocksElsewhere
<1>3. ASSUME NEW e \in Devices, e # d PROVE DeviceKept(e, W)'
  <2>1. DeviceKept(e, W) /\ W \subseteq W /\ known'[e] = known[e]
    BY DEF Kept, GuardInv
  <2> QED BY <1>3, <2>1, DeviceElsewhere
<1>4. \A e \in Devices : DeviceKept(e, W)'
  BY <1>3
<1> QED BY <1>2, <1>4 DEF Kept, GuardInv, Shows

LEMMA GuardApplyDone ==
  ASSUME NEW W, Kept(W), NEW d \in Devices, NEW q \in Queues, ApplyDone(d, q)
  PROVE  GuardInv(W)'
<1> DEFINE f == fiber[d][q]
           c == Store(cell[d], f.wire, wall[d])
<1>1. /\ f.kind = "applying"
      /\ f.retry => RetryParked(d, q, c, clock[d])
      /\ ~f.retry => /\ fiber' = [fiber EXCEPT ![d][q] = Idle]
                     /\ cell' = [cell EXCEPT ![d] = c] /\ UNCHANGED clock
      /\ UNCHANGED <<wall, online, queue, snap, log, delivered, made, known, unapplied>>
  BY DEF ApplyDone
<1>2. /\ f.wire \in W /\ SoundFor(cell[d], unapplied[d], f.wire)
      /\ Explicit(f.wire) \subseteq known[d]
      /\ CellKept(cell[d], known[d], W)
  BY <1>1, CellIsKept DEF TaskStands
<1>3. CellKept(c, known[d], W) /\ SoundFor(c, unapplied[d], c.rec)
  <2>1. wall[d] \in Nat
    BY CellIsKept
  <2> QED BY <1>2, <2>1, StoreStands
<1>4. \A p \in Queues : p # q => fiber[d][p] = Idle
  BY <1>1, CellIsKept, OthersIdle
<1>5. clock[d] \in ClockType /\ Shows(clock[d].phys) /\ clock \in [Devices -> ClockType]
      /\ cell \in [Devices -> CellType] /\ fiber \in [Devices -> [Queues -> FiberType]]
  BY CellIsKept DEF ClockKept, Kept, TypeInv, TypeOK
<1>6. UNCHANGED <<wall, known, log, queue>> /\ unapplied' = unapplied
  BY <1>1
<1> HIDE DEF c
<1>7. CASE f.retry
  <2>1. CellKept(c, known'[d], W) /\ SoundFor(c, unapplied'[d], c.rec)
    BY <1>3, <1>6
  <2>2. RetryParked(d, q, c, clock[d])
    BY <1>1, <1>7
  <2> DEFINE n == RetryClock(c, clock[d], wall[d])
  <2>3. /\ DeviceKept(d, W)'
        /\ \A e \in Devices : e # d => cell'[e] = cell[e] /\ fiber'[e] = fiber[e]
        /\ n \in ClockType /\ ClockFrom(clock[d], n) /\ Shows(n.phys)
        /\ clock' = [clock EXCEPT ![d] = n]
    BY <1>4, <1>5, <2>1, <2>2, RetryKeeps
  <2> HIDE DEF n
  <2> QED BY <1>6, <2>3, GuardOneDevice
<1>8. CASE ~f.retry
  <2> DEFINE G == [fiber[d] EXCEPT ![q] = Idle]
  <2>1. /\ cell'[d] = c /\ fiber'[d] = G
        /\ \A e \in Devices : e # d => cell'[e] = cell[e] /\ fiber'[e] = fiber[e]
        /\ clock' = [clock EXCEPT ![d] = clock[d]] /\ ClockFrom(clock[d], clock[d])
    BY <1>1, <1>5, <1>8 DEF ClockFrom
  <2>2. \A p \in Queues : G[p] = Idle
    BY <1>4, <1>5
  <2> HIDE DEF G
  <2>3. TaskStands(d, c, G, known[d], unapplied[d], W)
    BY <1>3, <2>2, IdleKind DEF TaskStands, Queues
  <2>4. DeviceKept(d, W)'
    BY <1>3, <1>6, <2>1, <2>3 DEF DeviceKept, CellKept
  <2> QED BY <1>5, <1>6, <2>1, <2>4, GuardOneDevice
<1> QED BY <1>7, <1>8

(* A refused apply leaves the record: what was refused is as new as the    *)
(* fence, or the fence is behind a refusal already.                        *)
LEMMA GuardApplyFails ==
  ASSUME NEW W, Kept(W), NEW d \in Devices, NEW q \in Queues, ApplyFails(d, q)
  PROVE  GuardInv(W)'
<1> DEFINE x == fiber[d][q].wire
           U == unapplied[d] \union {x.hlc}
           G == [fiber[d] EXCEPT ![q] = Idle]
<1>1. /\ fiber[d][q].kind = "applying" /\ fiber' = [fiber EXCEPT ![d][q] = Idle]
      /\ unapplied' = [unapplied EXCEPT ![d] = @ \union {x.hlc}]
      /\ UNCHANGED <<jar, wall, clock, cell, online, queue, snap, log, delivered, made, known>>
  BY DEF ApplyFails
<1>2. /\ x \in W /\ SoundFor(cell[d], unapplied[d], x)
      /\ CellKept(cell[d], known[d], W) /\ cell[d] \in CellType /\ W \subseteq WireType
  BY <1>1, CellIsKept DEF TaskStands
<1>3. \A p \in Queues : p # q => fiber[d][p] = Idle
  BY <1>1, CellIsKept, OthersIdle
<1>5. clock[d] \in ClockType /\ Shows(clock[d].phys) /\ clock \in [Devices -> ClockType]
      /\ fiber \in [Devices -> [Queues -> FiberType]]
      /\ unapplied \in [Devices -> SUBSET HlcType]
  BY CellIsKept DEF ClockKept, Kept, TypeInv, TypeOK
<1>6. /\ fiber'[d] = G /\ unapplied'[d] = U
      /\ \A e \in Devices : e # d => /\ cell'[e] = cell[e] /\ fiber'[e] = fiber[e]
                                     /\ unapplied'[e] = unapplied[e]
      /\ clock' = [clock EXCEPT ![d] = clock[d]] /\ ClockFrom(clock[d], clock[d])
      /\ UNCHANGED <<wall, known, log, queue>> /\ cell' = cell
  BY <1>1, <1>5 DEF ClockFrom
<1>7. \A p \in Queues : G[p] = Idle
  BY <1>3, <1>5
<1>8. x.hlc \in HlcType /\ cell[d].fence \in Times
  BY <1>2, CellFields DEF WireType
<1> HIDE DEF x, G
<1>9. SoundFor(cell[d], U, cell[d].rec)
  <2>1. CASE \E h \in unapplied[d] : ~Before(h, cell[d].fence)
    BY <2>1 DEF SoundFor
  <2>2. CASE AtMost(cell[d].fence, x.hlc)
    <3>1. ~Before(x.hlc, cell[d].fence)
      BY <1>8, <2>2, TimesOrdered DEF AtMost, Times
    <3> QED BY <3>1 DEF SoundFor
  <2> QED BY <1>2, <2>1, <2>2 DEF SoundFor
<1> HIDE DEF U
<1>10. TaskStands(d, cell[d], G, known[d], U, W)
  BY <1>7, <1>9, IdleKind DEF TaskStands, Queues
<1>11. DeviceKept(d, W)'
  BY <1>2, <1>6, <1>10 DEF DeviceKept, CellKept
<1> QED BY <1>5, <1>6, <1>11, GuardOneDevice

LEMMA GuardRollback ==
  ASSUME NEW W, Kept(W), NEW d \in Devices, Rollback(d)
  PROVE  \E V : GuardInv(V)'
<1>1. PICK cause \in Causes : RollbackReissues(d, cause) /\ RollbackEnds(d, cause)
  BY RollbackParts DEF Kept, TypeInv
<1> DEFINE n == ClockSend(clock[d], wall[d])
           w == NewWire(d, n, cause)
           c == Store(Learn(cell[d], w), w, wall[d])
<1>2. /\ clock[d] \in ClockType /\ wall[d] \in Nat /\ d \in Nat /\ TypeOK
      /\ cell[d] \in CellType /\ known[d] \subseteq HlcType /\ ClockKept(d, W)
      /\ CellKept(cell[d], known[d], W)
  BY CellIsKept DEF Kept, TypeInv
<1>3. /\ n \in ClockType /\ ClockBefore(clock[d], n) /\ n.phys \in {clock[d].phys, wall[d]}
      /\ Stamp(n, d).dev = d /\ Stamp(n, d) \in HlcType
      /\ ~ClockBefore(n, Stamp(n, d)) /\ ClockBefore(clock[d], Stamp(n, d))
      /\ \A h \in HlcType : ~ClockBefore(clock[d], h) => Before(h, Stamp(n, d))
  <2>1. clock[d] \in ClockType /\ wall[d] \in Nat /\ d \in Nat
    BY <1>2
  <2> QED BY <2>1, SendMoves
<1> HIDE DEF n
<1>4. w \in WireType /\ w.hlc = Stamp(n, d) /\ w.past = known[d] \union cell[d].rec.past
  BY <1>2, <1>3, NewWireType
<1>5. PICK V : V = W \union {w}
  OBVIOUS
<1>6. History(V)
  <2>1. History(W \union {w})
    BY <1>3, HistoryGrows
  <2> QED BY <1>5, <2>1
<1> HIDE DEF w
<1>7. Shows(n.phys) /\ Shows(w.hlc.phys) /\ ClockFrom(clock[d], n)
  <2>1. Shows(n.phys)
    <3>1. Shows(clock[d].phys) /\ wall[d] \in Nat
      BY <1>2 DEF ClockKept
    <3> QED BY <1>3, <3>1 DEF Shows
  <2> QED BY <1>3, <1>4, <2>1 DEF Stamp, ClockFrom
<1>8. /\ clock' = [clock EXCEPT ![d] = n] /\ cell' = [cell EXCEPT ![d] = c]
      /\ known' = [known EXCEPT ![d] = @ \union Explicit(w)]
      /\ Resting(d) /\ UNCHANGED wall /\ UNCHANGED fiber
  BY <1>1 DEF RollbackReissues, n, w
<1>9. \/ /\ unapplied' = [unapplied EXCEPT ![d] = @ \union {w.hlc}]
         /\ UNCHANGED <<log, queue>>
      \/ PublishOrQueue(d, w) /\ UNCHANGED unapplied
  BY <1>1 DEF RollbackEnds, n, w
<1>10. \A e \in Devices : ClockKept(e, V)'
  <2>1. \A x \in V \ W : x.hlc.dev = d /\ ~ClockBefore(n, x.hlc)
    BY <1>3, <1>4, <1>5
  <2>2. Explicit(w) \subseteq HlcType /\ \A h \in Explicit(w) : ~ClockBefore(n, h)
    BY <1>3, <1>4 DEF Explicit
  <2> QED BY <1>3, <1>7, <1>8, <2>1, <2>2, ClocksElsewhere
<1>11. CellKept(cell[d], known[d], V) /\ w \in V /\ W \subseteq V
  <2>1. w \in V /\ W \subseteq V
    BY <1>5
  <2>2. CellDrawn(cell[d], V)
    BY <1>2, <2>1 DEF CellKept, CellDrawn, EdgesTrue
  <2>3. CellFenced(cell[d], known[d], V)
    BY <1>2, <2>1 DEF CellKept, CellFenced
  <2> QED BY <1>2, <1>6, <2>1, <2>2, <2>3 DEF CellKept
<1>12. known[d] \subseteq w.past /\ \A h \in known[d] : Before(h, w.hlc)
  BY <1>2, <1>3, <1>4 DEF ClockKept
<1>13. PICK U : U = unapplied'[d]
  OBVIOUS
<1>14. CellKept(c, known[d] \union Explicit(w), V) /\ SoundFor(c, U, c.rec)
  <2>1. CellKept(cell[d], known[d], V) /\ w \in V /\ wall[d] \in Nat
    BY <1>2, <1>11
  <2> QED BY <1>12, <2>1, OwnStored
<1> HIDE DEF c
<1>15. /\ cell'[d] = c /\ known'[d] = known[d] \union Explicit(w) /\ fiber'[d] = AllIdle
       /\ \A e \in Devices : e # d => /\ cell'[e] = cell[e] /\ known'[e] = known[e]
                                      /\ fiber'[e] = fiber[e]
  BY <1>2, <1>8 DEF TypeOK, Resting, AllIdle
<1>16. \A e \in Devices : e # d => unapplied'[e] = unapplied[e]
  BY <1>2, <1>9 DEF TypeOK
<1>17. DeviceKept(d, V)'
  <2>1. \A q \in Queues : AllIdle[q] = Idle
    BY DEF AllIdle
  <2>2. TaskStands(d, c, AllIdle, known'[d], U, V)
    BY <1>14, <2>1, IdleKind DEF TaskStands, Queues
  <2> QED BY <1>13, <1>14, <1>15, <2>2 DEF DeviceKept, CellKept
<1>18. ASSUME NEW e \in Devices, e # d PROVE DeviceKept(e, V)'
  <2>1. DeviceKept(e, W)
    BY DEF Kept, GuardInv
  <2> QED BY <1>11, <1>15, <1>16, <1>18, <2>1, DeviceElsewhere
<1>19. \A x \in V : Shows(x.hlc.phys)'
  BY <1>5, <1>7, <1>8 DEF Kept, GuardInv, Shows
<1>20. /\ \A i \in 1..Len(log') : log'[i] \in V
       /\ \A e \in Devices : queue'[e] \in V \union {NoWire}
  <2>1. CASE UNCHANGED <<log, queue>>
    BY <1>11, <2>1 DEF Kept, GuardInv
  <2>2. CASE PublishOrQueue(d, w)
    BY <1>4, <1>11, <2>2, PublishDrawn
  <2> QED BY <1>9, <2>1, <2>2
<1>21. \A e \in Devices : DeviceKept(e, V)'
  BY <1>17, <1>18
<1> QED BY <1>6, <1>10, <1>19, <1>20, <1>21 DEF GuardInv

LEMMA GuardGc ==
  ASSUME NEW W, Kept(W), NEW d \in Devices, Gc(d)
  PROVE  GuardInv(W)'
<1>1. /\ Resting(d) /\ cell' = [cell EXCEPT ![d] = EmptyCell]
      /\ known' = [known EXCEPT ![d] = {}]
      /\ UNCHANGED <<wall, clock, fiber, log, queue, unapplied>>
  BY DEF Gc
<1>2. /\ cell'[d] = EmptyCell /\ known'[d] = {} /\ fiber'[d] = AllIdle
      /\ \A e \in Devices : e # d => cell'[e] = cell[e] /\ known'[e] = known[e]
  BY <1>1 DEF Kept, TypeInv, TypeOK, Resting, AllIdle
<1>3. CellDrawn(EmptyCell, W) /\ CellFenced(EmptyCell, {}, W)
  BY WireFields DEF EmptyCell, CellDrawn, EdgesTrue, CellFenced, AtMost, WriteCauses
<1>4. TaskStands(d, EmptyCell, AllIdle, {}, unapplied[d], W)
  <2>1. \A q \in Queues : AllIdle[q] = Idle
    BY DEF AllIdle
  <2>2. SoundFor(EmptyCell, unapplied[d], EmptyCell.rec)
    BY DEF SoundFor, EmptyCell
  <2> QED BY <2>1, <2>2, IdleKind DEF TaskStands, Queues
<1>5. DeviceKept(d, W)'
  BY <1>1, <1>2, <1>3, <1>4 DEF DeviceKept
<1>6. ASSUME NEW e \in Devices PROVE DeviceKept(e, W)'
  <2>1. DeviceKept(e, W) /\ W \subseteq W
    BY DEF Kept, GuardInv
  <2> QED BY <1>1, <1>2, <1>5, <2>1, DeviceElsewhere
<1>7. ASSUME NEW e \in Devices PROVE ClockKept(e, W)'
  BY <1>1, <1>2 DEF Kept, GuardInv, ClockKept, Shows
<1> QED BY <1>1, <1>6, <1>7 DEF Kept, GuardInv, Shows

LEMMA GuardRest ==
  ASSUME NEW W, Kept(W), NEW d \in Devices,
         Tick(d) \/ GoOffline(d) \/ GoOnline(d) \/ Snapshot(d)
  PROVE  GuardInv(W)'
<1>1. UNCHANGED <<clock, cell, fiber, known, unapplied>>
  BY DEF Tick, GoOffline, GoOnline, Snapshot
<1>2. \A phys \in Nat : Shows(phys) => Shows(phys)'
  <2>1. wall \in [Devices -> Nat]
    BY DEF Kept, TypeInv, TypeOK
  <2>2. \A e \in Devices : wall'[e] \in Nat /\ wall'[e] >= wall[e]
    BY <2>1 DEF Tick, GoOffline, GoOnline, Snapshot
  <2>3. ASSUME NEW phys \in Nat, NEW e \in Devices, phys <= wall[e]
        PROVE  phys <= wall'[e]
    BY <2>1, <2>2, <2>3
  <2> QED BY <2>3 DEF Shows
<1>3. /\ \A i \in 1..Len(log') : log'[i] \in W
      /\ \A e \in Devices : queue'[e] \in W \union {NoWire}
  <2>1. /\ log \in Seq(WireType) /\ queue \in [Devices -> WireType \union {NoWire}]
        /\ \A i \in 1..Len(log) : log[i] \in W
        /\ \A e \in Devices : queue[e] \in W \union {NoWire}
    BY DEF Kept, TypeInv, TypeOK, GuardInv
  <2>2. CASE UNCHANGED <<log, queue>>
    BY <2>1, <2>2
  <2>3. CASE GoOnline(d)
    BY <2>1, <2>3 DEF GoOnline
  <2> QED BY <2>2, <2>3 DEF Tick, GoOffline, Snapshot
<1>4. \A x \in W : Shows(x.hlc.phys)'
  <2>1. \A x \in W : x.hlc.phys \in Nat
    BY DEF Kept, GuardInv, History, WireType, HlcType
  <2> QED BY <1>2, <2>1 DEF Kept, GuardInv
<1>5. ASSUME NEW e \in Devices PROVE ClockKept(e, W)'
  <2>1. ClockKept(e, W) /\ clock[e].phys \in Nat
    BY DEF Kept, GuardInv, TypeInv, TypeOK, ClockType
  <2> QED BY <1>1, <1>2, <2>1 DEF ClockKept
<1>6. ASSUME NEW e \in Devices PROVE DeviceKept(e, W)'
  BY <1>1 DEF Kept, GuardInv, DeviceKept
<1> QED BY <1>3, <1>4, <1>5, <1>6 DEF Kept, GuardInv

LEMMA GuardStep ==
  ASSUME ~Overlap, ClocksClose, NEW W, Kept(W), [Next]_vars
  PROVE  \E V : Kept(V)'
<1>1. TypeInv' /\ TasksInv'
  BY TypeStep, TasksStep DEF Kept
<1>2. \E V : GuardInv(V)'
  <2>1. CASE UNCHANGED vars
    BY <2>1 DEF Kept, GuardInv, ClockKept, DeviceKept, Shows, vars
  <2>2. CASE Next
    <3>1. PICK d \in Devices :
             \/ Tick(d) \/ LocalStamp(d) \/ LocalStore(d) \/ Deliver(d)
             \/ \E q \in Queues : ApplyDone(d, q) \/ ApplyFails(d, q)
             \/ GoOffline(d) \/ GoOnline(d)
             \/ Snapshot(d) \/ Rollback(d) \/ Gc(d)
      BY <2>2, Zenon DEF Next
    <3>2. CASE LocalStamp(d) \/ Rollback(d)
      BY <3>2, GuardLocalStamp, GuardRollback
    <3>3. CASE LocalStore(d) \/ Deliver(d) \/ Gc(d)
      BY <3>3, GuardLocalStore, GuardDeliver, GuardGc
    <3>4. CASE Tick(d) \/ GoOffline(d) \/ GoOnline(d) \/ Snapshot(d)
      BY <3>4, GuardRest
    <3>5. ASSUME NEW q \in Queues, ApplyDone(d, q) \/ ApplyFails(d, q)
          PROVE  GuardInv(W)'
      BY <3>5, GuardApplyDone, GuardApplyFails
    <3> QED BY <3>1, <3>2, <3>3, <3>4, <3>5
  <2> QED BY <2>1, <2>2
<1> QED BY <1>1, <1>2 DEF Kept

(* The fence of a device is the newest explicit deletion it has learned.   *)
LEMMA FenceIsNewest ==
  ASSUME NEW W, Kept(W), NEW d \in Devices, known[d] # {}
  PROVE  NewestKnown(d) = cell[d].fence /\ cell[d].fence \in HlcType
<1>1. /\ cell[d].fence \in known[d] /\ known[d] \subseteq HlcType
      /\ \A g \in known[d] : AtMost(g, cell[d].fence)
  BY CellIsKept DEF CellKept, CellFenced
<1> DEFINE Newest(h) == \A g \in known[d] : AtMost(g, h)
           n == NewestKnown(d)
<1>2. n \in known[d] /\ Newest(n)
  BY <1>1 DEF NewestKnown
<1>3. AtMost(n, cell[d].fence) /\ AtMost(cell[d].fence, n) /\ n \in HlcType
  BY <1>1, <1>2
<1> HIDE DEF n
<1>4. n = cell[d].fence
  BY <1>1, <1>3, TimesOrdered DEF AtMost, Times
<1> QED BY <1>1, <1>4 DEF n

LEMMA GuardHolds ==
  ASSUME NEW W, Kept(W)
  PROVE  NoResurrection
<1> SUFFICES ASSUME NEW d \in Devices, Resting(d), Live(cell[d].rec), known[d] # {},
                    \A h \in unapplied[d] : Before(h, NewestKnown(d))
             PROVE  NewestKnown(d) \in cell[d].rec.past
  BY DEF NoResurrection
<1>1. NewestKnown(d) = cell[d].fence /\ cell[d].fence # NoHlc
  BY FenceIsNewest, TimesOrdered
<1>2. SoundFor(cell[d], unapplied[d], cell[d].rec)
  BY CellIsKept DEF TaskStands, Resting, AllIdle
<1> QED BY <1>1, <1>2 DEF SoundFor

(* No resurrection, for every number of devices, records and edges, on     *)
(* devices that run one task at a time and whose wall clocks stay within   *)
(* the drift bound of one another: the guard of resolve() and its descent  *)
(* walk, the fence, the parked write, retries, refusals and rollbacks.     *)
THEOREM NoResurrectionAlways ==
  ASSUME ~Overlap
  PROVE  Spec /\ []ClocksClose => []NoResurrection
<1> DEFINE I == \E W : Kept(W)
<1>1. Init => I
  BY TypeInit, TasksInit, GuardInit DEF Kept
<1>2. I /\ ClocksClose /\ [Next]_vars => I'
  BY GuardStep
<1>3. I => NoResurrection
  BY GuardHolds
<1> HIDE DEF I
<1> QED BY <1>1, <1>2, <1>3, PTL DEF Spec

(* Wall clocks that start together and end before the drift bound stay     *)
(* within it: the runs' clocks, and any below 24 hours of behaviour.       *)
LEMMA ClocksStayClose ==
  ASSUME MaxTime <= MaxClockDrift + 1
  PROVE  Spec => []ClocksClose
<1> DEFINE T == \A d \in Devices : wall[d] \in Nat /\ 1 <= wall[d] /\ wall[d] <= MaxClockDrift + 1
<1>0. MaxTime \in Nat /\ MaxClockDrift \in Nat
  BY ReplicaAssumption, DriftAssumption
<1>1. Init => T
  BY <1>0 DEF Init
<1>2. T /\ TypeOK /\ [Next]_vars => T'
  <2> SUFFICES ASSUME T, TypeOK, [Next]_vars PROVE T'
    OBVIOUS
  <2>1. CASE UNCHANGED wall
    BY <2>1
  <2>2. ASSUME NEW d \in Devices, Tick(d) PROVE T'
    BY <1>0, <2>2 DEF Tick, TypeOK
  <2> QED BY <2>1, <2>2
       DEF Next, vars, LocalStamp, LocalStore, Deliver, ApplyDone, ApplyFails,
           GoOffline, GoOnline, Snapshot, Rollback, Gc
<1>3. T => ClocksClose
  BY <1>0 DEF ClocksClose
<1> HIDE DEF T
<1>4. Spec => []TypeOK
  BY TypeOKAlways
<1> QED BY <1>1, <1>2, <1>3, <1>4, PTL DEF Spec

(* The same where wall clocks start together and end before the drift      *)
(* bound: in the runs, and in any day of behaviour.                        *)
THEOREM NoResurrectionWithinADay ==
  ASSUME ~Overlap, MaxTime <= MaxClockDrift + 1
  PROVE  Spec => []NoResurrection
<1>1. Spec => []ClocksClose
  BY ClocksStayClose
<1>2. Spec /\ []ClocksClose => []NoResurrection
  BY NoResurrectionAlways
<1> QED BY <1>1, <1>2, PTL

(* ---- walks compared ---- *)

(* Induction up to n, over a set of numbers.                               *)
LEMMA UpTo ==
  ASSUME NEW n \in Nat, NEW S, 0 \in S, \A m \in 0..n : m < n /\ m \in S => m + 1 \in S
  PROVE  0..n \subseteq S
<1> DEFINE T == {m \in 0..n : m \notin S}
<1>1. T \subseteq Nat /\ \A m \in T : m \in 0..n /\ m \notin S
  OBVIOUS
<1>2. \A m \in 0..n : m \notin S => m \in T
  OBVIOUS
<1> HIDE DEF T
<1>3. ASSUME T # {} PROVE FALSE
  <2>1. PICK m \in T : \A l \in T : m <= l
    BY <1>1, <1>3, NatMin
  <2>2. m \in 0..n /\ m # 0
    BY <1>1, <2>1
  <2>3. m - 1 \in 0..n /\ m - 1 < n /\ m - 1 \notin T
    BY <2>1, <2>2, <1>1
  <2>4. m - 1 \in S
    BY <1>2, <2>3
  <2>5. (m - 1) + 1 \in S
    BY <2>3, <2>4
  <2> QED BY <1>1, <2>1, <2>2, <2>5
<1> QED BY <1>2, <1>3

(* Whatever walk is built, it decides descent.                             *)
LEMMA WalkDecides ==
  ASSUME NEW edges, NEW start, NEW fence, NEW f,
         IsWalk(f, edges, start, fence, MaxAncestryWalk - 1)
  PROVE  Descends(edges, start, fence) <=>
           fence # NoHlc /\ \E k \in 0..(MaxAncestryWalk - 1) : f[k] = fence
<1>1. PICK n \in Nat : n = MaxAncestryWalk - 1
  BY AncestryAssumption
<1> DEFINE walk == CHOOSE walk : walk = [k \in 0..(MaxAncestryWalk - 1) |->
          IF k = 0 THEN start
          ELSE IF WalkStops(edges, fence, walk[k-1]) THEN walk[k-1]
          ELSE ParentIn(edges, walk[k-1])]
<1>2. walk = [k \in 0..(MaxAncestryWalk - 1) |->
          IF k = 0 THEN start
          ELSE IF WalkStops(edges, fence, walk[k-1]) THEN walk[k-1]
          ELSE ParentIn(edges, walk[k-1])]
  BY DEF WalkStep, IsWalk
<1>3. Descends(edges, start, fence) <=>
         fence # NoHlc /\ \E k \in 0..(MaxAncestryWalk - 1) : walk[k] = fence
  BY Zenon DEF Descends
<1> HIDE DEF walk
<1>4. PICK g : g = walk
  OBVIOUS
<1>5. \A k \in 0..n : g[k] = IF k = 0 THEN start ELSE WalkStep(edges, fence, g[k-1])
  BY <1>1, <1>2, <1>4 DEF WalkStep
<1>6. \A k \in 0..n : f[k] = IF k = 0 THEN start ELSE WalkStep(edges, fence, f[k-1])
  BY <1>1 DEF IsWalk
<1> DEFINE S == {k \in 0..n : g[k] = f[k]}
<1>7. 0 \in S
  BY <1>5, <1>6
<1>8. ASSUME NEW m \in 0..n, m < n, m \in S PROVE m + 1 \in S
  <2>1. m + 1 \in 0..n /\ m + 1 # 0 /\ (m + 1) - 1 = m /\ g[m] = f[m]
    BY <1>8
  <2>2. g[m+1] = WalkStep(edges, fence, g[m]) /\ f[m+1] = WalkStep(edges, fence, f[m])
    BY <1>5, <1>6, <2>1
  <2> QED BY <2>1, <2>2
<1>9. \A k \in 0..n : g[k] = f[k]
  <2>1. \A k \in S : g[k] = f[k]
    OBVIOUS
  <2> HIDE DEF S
  <2> QED BY <1>7, <1>8, <2>1, UpTo
<1> QED BY <1>1, <1>3, <1>4, <1>9

(* A timestamp at which a walk through edges may be.                       *)
Within(edges, t) == t = NoHlc \/ \E e \in edges : e.token = t

(* Edges that lead nowhere outside, one for each version.                  *)
Mapped(edges) == /\ \A e \in edges : Within(edges, e.parent) /\ e.token # NoHlc
                 /\ \A e, g \in edges : e.token = g.token => e = g

LEMMA StepWithin ==
  ASSUME NEW edges, Mapped(edges), NEW fence, NEW t, Within(edges, t)
  PROVE  /\ Within(edges, WalkStep(edges, fence, t))
         /\ \A more : edges \subseteq more /\ Mapped(more) =>
              WalkStep(more, fence, t) = WalkStep(edges, fence, t)
<1>1. CASE WalkStops(edges, fence, t)
  <2>1. WalkStep(edges, fence, t) = t
    BY <1>1 DEF WalkStep
  <2>2. t = NoHlc \/ t = fence \/ Before(t, fence)
    BY <1>1 DEF WalkStops, Within
  <2>3. \A more : WalkStep(more, fence, t) = t
    BY <2>2 DEF WalkStep, WalkStops
  <2> QED BY <2>1, <2>3
<1>2. CASE ~WalkStops(edges, fence, t)
  <2>1. PICK e \in edges : e.token = t
    BY <1>2 DEF WalkStops
  <2>2. \A more : edges \subseteq more /\ Mapped(more) => ParentIn(more, t) = e.parent
    BY <2>1 DEF ParentIn, Mapped
  <2>3. \A more : edges \subseteq more => ~WalkStops(more, fence, t)
    BY <1>2, <2>1 DEF WalkStops
  <2>4. WalkStep(edges, fence, t) = e.parent /\ Within(edges, e.parent)
    BY <1>2, <2>2 DEF WalkStep, Mapped
  <2> QED BY <2>2, <2>3, <2>4 DEF WalkStep
<1> QED BY <1>1, <1>2

(* A walk stays among the edges it started in, so that edges learned later *)
(* make no difference to it.                                               *)
LEMMA WalkWithin ==
  ASSUME NEW edges, Mapped(edges), NEW fence, NEW start, Within(edges, start)
  PROVE  /\ Descends(edges, start, fence) => \E e \in edges : e.token = fence
         /\ \A more : edges \subseteq more /\ Mapped(more) =>
              (Descends(more, start, fence) <=> Descends(edges, start, fence))
<1>1. PICK n \in Nat : n = MaxAncestryWalk - 1
  BY AncestryAssumption
<1>2. PICK f : IsWalk(f, edges, start, fence, n)
  BY WalkExists
<1>3. /\ f = [k \in 0..n |-> IF k = 0 THEN start ELSE WalkStep(edges, fence, f[k-1])]
      /\ \A k \in 0..n : f[k] = IF k = 0 THEN start ELSE WalkStep(edges, fence, f[k-1])
  BY <1>2 DEF IsWalk
<1> DEFINE S == {k \in 0..n : Within(edges, f[k])}
<1>4. 0 \in S
  BY <1>3
<1>5. ASSUME NEW m \in 0..n, m < n, m \in S PROVE m + 1 \in S
  <2>1. m + 1 \in 0..n /\ m + 1 # 0 /\ (m + 1) - 1 = m /\ Within(edges, f[m])
    BY <1>5
  <2>2. f[m+1] = WalkStep(edges, fence, f[m])
    BY <1>3, <2>1
  <2> QED BY <2>1, <2>2, StepWithin
<1>6. \A k \in 0..n : Within(edges, f[k])
  <2>1. \A k \in S : Within(edges, f[k])
    OBVIOUS
  <2> HIDE DEF S
  <2> QED BY <1>4, <1>5, <2>1, UpTo
<1>7. Descends(edges, start, fence) => \E e \in edges : e.token = fence
  BY <1>1, <1>2, <1>6, WalkDecides DEF Within
<1>8. ASSUME NEW more, edges \subseteq more, Mapped(more)
      PROVE  Descends(more, start, fence) <=> Descends(edges, start, fence)
  <2>1. ASSUME NEW k \in 0..n
        PROVE f[k] = IF k = 0 THEN start ELSE WalkStep(more, fence, f[k-1])
    <3>1. CASE k = 0
      BY <1>3, <3>1
    <3>2. CASE k # 0
      <4>1. k - 1 \in 0..n
        BY <3>2
      <4>2. Within(edges, f[k-1])
        BY <1>6, <4>1
      <4> QED BY <1>3, <1>8, <3>2, <4>2, StepWithin
    <3> QED BY <3>1, <3>2
  <2>2. f = [k \in 0..n |-> IF k = 0 THEN start ELSE WalkStep(more, fence, f[k-1])]
    BY <1>3, <2>1
  <2>3. IsWalk(f, more, start, fence, n)
    BY <2>2 DEF IsWalk
  <2> QED BY <1>1, <1>2, <2>3, WalkDecides
<1> QED BY <1>7, <1>8

(* A version whose parent descends descends itself, and its walk is not    *)
(* too long when versions are numbered from their parents up.              *)
LEMMA ChildDescends ==
  ASSUME NEW edges, Mapped(edges), NEW age,
         \A e \in edges : age[e.token] \in 1..MaxAncestryWalk,
         \A e, g \in edges : g.token = e.parent => age[g.token] < age[e.token],
         NEW fence \in HlcType, NEW e \in edges, e.token \in HlcType,
         Before(fence, e.token), Descends(edges, e.parent, fence)
  PROVE  Descends(edges, e.token, fence)
<1>1. PICK n \in Nat : n = MaxAncestryWalk - 1
  BY AncestryAssumption
<1>2. PICK f : IsWalk(f, edges, e.parent, fence, n)
  BY WalkExists
<1>3. \A k \in 0..n : f[k] = IF k = 0 THEN e.parent ELSE WalkStep(edges, fence, f[k-1])
  BY <1>2 DEF IsWalk
<1>4. fence # NoHlc /\ \E k \in 0..n : f[k] = fence
  BY <1>1, <1>2, WalkDecides
<1>5. PICK k \in 0..n : f[k] = fence /\ \A m \in 0..n : f[m] = fence => k <= m
  <2> DEFINE T == {m \in 0..n : f[m] = fence}
  <2>1. T \subseteq Nat /\ T # {}
    BY <1>4
  <2> HIDE DEF T
  <2>2. PICK k \in T : \A m \in T : k <= m
    BY <2>1, NatMin
  <2> QED BY <2>2 DEF T
<1>6. PICK last \in edges : last.token = fence
  BY Mapped(edges), WalkWithin DEF Mapped
<1>7. e.token # NoHlc /\ e.token # fence /\ ~Before(e.token, fence)
  BY TimesOrdered DEF Times
<1>8. WalkStep(edges, fence, e.token) = e.parent
  <2>1. ~WalkStops(edges, fence, e.token)
    BY <1>7 DEF WalkStops
  <2>2. ParentIn(edges, e.token) = e.parent
    BY DEF ParentIn, Mapped
  <2> QED BY <2>1, <2>2 DEF WalkStep
(* Before it is there the walk does not stop.                              *)
<1>9. ASSUME NEW j \in 0..n, j < k PROVE ~WalkStops(edges, fence, f[j])
  <2> SUFFICES ASSUME WalkStops(edges, fence, f[j]) PROVE FALSE
    OBVIOUS
  <2> DEFINE S == {m \in Nat : j + m <= n => f[j+m] = f[j]}
  <2>1. 0 \in S
    OBVIOUS
  <2>2. ASSUME NEW m \in 0..(k-j), m < k - j, m \in S PROVE m + 1 \in S
    <3>1. j + m \in 0..n /\ j + (m + 1) \in 0..n /\ j + (m + 1) # 0 /\ (j + (m + 1)) - 1 = j + m
      BY <1>9, <2>2
    <3>2. f[j+m] = f[j]
      BY <2>2, <3>1
    <3>3. f[j+(m+1)] = WalkStep(edges, fence, f[j+m])
      BY <1>3, <3>1
    <3> QED BY <3>2, <3>3 DEF WalkStep
  <2>3. k - j \in Nat /\ k - j \in 0..(k - j)
    BY <1>9
  <2>4. \A m \in S : j + m <= n => f[j+m] = f[j]
    OBVIOUS
  <2> HIDE DEF S
  <2>5. k - j \in S
    BY <2>1, <2>2, <2>3, UpTo
  <2>6. f[k] = f[j]
    BY <1>9, <2>3, <2>4, <2>5
  <2> QED BY <1>5, <1>9, <2>6
<1> DEFINE Old(j) == /\ \E g \in edges : g.token = f[j]
                     /\ age[f[j]] <= (age[e.token] - 1) - j
           S == {j \in 0..k : Old(j)}
<1>10. ASSUME NEW j \in 0..k PROVE \E g \in edges : g.token = f[j]
  <2>1. CASE j = k
    BY <1>5, <1>6, <2>1
  <2>2. CASE j < k
    BY <1>9, <2>2 DEF WalkStops
  <2> QED BY <2>1, <2>2
<1>11. 0 \in S
  <2>1. f[0] = e.parent
    BY <1>3
  <2>2. PICK g \in edges : g.token = f[0]
    BY <1>10
  <2>3. age[g.token] < age[e.token] /\ age[g.token] \in Nat /\ age[e.token] \in Nat
    BY <2>1, <2>2
  <2> QED BY <2>2, <2>3
<1>12. ASSUME NEW j \in 0..k, j < k, j \in S PROVE j + 1 \in S
  <2>1. /\ j + 1 \in 0..k /\ j + 1 \in 0..n /\ j \in 0..n /\ j + 1 # 0 /\ (j + 1) - 1 = j
        /\ Old(j)
    BY <1>12
  <2>2. f[j+1] = WalkStep(edges, fence, f[j])
    BY <1>3, <2>1
  <2>3. ~WalkStops(edges, fence, f[j])
    BY <1>9, <1>12, <2>1
  <2>4. PICK g \in edges : g.token = f[j]
    BY <2>1
  <2>5. f[j+1] = g.parent
    BY <2>2, <2>3, <2>4 DEF WalkStep, ParentIn, Mapped
  <2>6. PICK h \in edges : h.token = f[j+1]
    BY <1>10, <2>1
  <2>7. age[h.token] < age[g.token]
    BY <2>5, <2>6
  <2>8. age[h.token] \in Int /\ age[g.token] \in Int /\ age[e.token] \in Int
    OBVIOUS
  <2>9. age[f[j+1]] <= (age[e.token] - 1) - (j + 1)
    BY <2>1, <2>4, <2>6, <2>7, <2>8
  <2>10. Old(j+1)
    BY <2>6, <2>9
  <2> HIDE DEF Old
  <2> QED BY <2>1, <2>10
<1>13. k + 1 \in 0..n
  <2>1. k \in 0..k
    OBVIOUS
  <2>2. \A j \in S : Old(j)
    OBVIOUS
  <2> HIDE DEF S
  <2>3. Old(k)
    BY <1>11, <1>12, <2>1, <2>2, UpTo
  <2>4. age[f[k]] \in 1..MaxAncestryWalk /\ age[e.token] \in 1..MaxAncestryWalk
    BY <2>3
  <2>5. age[f[k]] <= (age[e.token] - 1) - k
    BY <2>3
  <2> HIDE DEF Old
  <2> QED BY <1>1, <2>4, <2>5, AncestryAssumption
<1> HIDE DEF S, Old
<1>14. PICK g : IsWalk(g, edges, e.token, fence, n)
  BY WalkExists
<1>15. \A m \in 0..n : g[m] = IF m = 0 THEN e.token ELSE WalkStep(edges, fence, g[m-1])
  BY <1>14 DEF IsWalk
<1> DEFINE R == {m \in 0..k : g[m+1] = f[m]}
<1>16. 0 \in R
  <2>1. 1 \in 0..n /\ 0 \in 0..n
    BY <1>13
  <2>2. g[0] = e.token /\ g[1] = WalkStep(edges, fence, g[0]) /\ f[0] = e.parent
    BY <1>3, <1>15, <2>1
  <2> QED BY <1>8, <2>2
<1>17. ASSUME NEW m \in 0..k, m < k, m \in R PROVE m + 1 \in R
  <2>1. /\ m + 1 \in 0..n /\ m + 1 # 0 /\ (m + 1) - 1 = m /\ m + 1 \in 0..k
        /\ (m + 1) + 1 \in 0..n /\ (m + 1) + 1 # 0 /\ ((m + 1) + 1) - 1 = m + 1
        /\ g[m+1] = f[m]
    BY <1>13, <1>17
  <2>2. f[m+1] = WalkStep(edges, fence, f[m])
    BY <1>3, <2>1
  <2>3. g[(m+1)+1] = WalkStep(edges, fence, g[m+1])
    BY <1>15, <2>1
  <2> QED BY <2>1, <2>2, <2>3
<1>18. g[k+1] = fence
  <2>1. \A m \in R : g[m+1] = f[m]
    OBVIOUS
  <2> HIDE DEF R
  <2>2. k \in R
    BY <1>16, <1>17, UpTo
  <2> QED BY <1>5, <2>1, <2>2
<1> QED BY <1>1, <1>4, <1>13, <1>14, <1>18, WalkDecides

(* ---- what a replica that has lost nothing holds ---- *)

EdgesOf(S) == {[token |-> w.hlc, parent |-> w.parent] : w \in S}

(* Records that name their parents and the deletions their writers knew    *)
(* among themselves.                                                       *)
Family(S) ==
  /\ S \subseteq WireType
  /\ \A v, w \in S : v.hlc = w.hlc => v = w
  /\ \A w \in S : w.cause \in WriteCauses \/ w.cause = "EXPLICIT_DELETE"
  /\ \A w \in S : w.parent = NoHlc \/ \E v \in S : v.hlc = w.parent
  /\ \A w \in S : \A h \in w.past : \E v \in S : v.hlc = h /\ v.cause = "EXPLICIT_DELETE"

(* The cell has learned the records of S and forgotten none of them.       *)
Taught(c, S) ==
  /\ c.edges = EdgesOf(S)
  /\ c.fence = c.tomb.hlc
  /\ c.tomb = NoWire \/ (c.tomb \in S /\ IsDeletion(c.tomb))
  /\ \A w \in S : IsDeletion(w) => AtMost(w.hlc, c.fence)
  /\ c.parked = NoWire \/ (c.parked \in S /\ c.parked.cause \in WriteCauses)

(* x is the record to show of S: the newest that is not blocked.           *)
Best(c, S, x) ==
  \/ S = {} /\ x = NoWire
  \/ /\ x \in S /\ ~Blocked(c, x)
     /\ \A y \in S : ~Blocked(c, y) => AtMost(y.hlc, x.hlc)

LEMMA FamilyMapped ==
  ASSUME NEW S, Family(S)
  PROVE  /\ Mapped(EdgesOf(S))
         /\ \A w \in S : Within(EdgesOf(S), w.hlc) /\ Within(EdgesOf(S), w.parent)
<1>1. ASSUME NEW w \in S
      PROVE  \E e \in EdgesOf(S) : e.token = w.hlc /\ e.parent = w.parent
  <2> DEFINE e == [token |-> w.hlc, parent |-> w.parent]
  <2>1. e \in EdgesOf(S) /\ e.token = w.hlc /\ e.parent = w.parent
    BY DEF EdgesOf
  <2> QED BY <2>1
<1>2. \A e \in EdgesOf(S) : \E w \in S : e = [token |-> w.hlc, parent |-> w.parent]
  BY DEF EdgesOf
<1>0. \A w \in S : w.parent = NoHlc \/ \E v \in S : v.hlc = w.parent
  BY DEF Family
<1>3. \A w \in S : Within(EdgesOf(S), w.hlc) /\ Within(EdgesOf(S), w.parent)
  <2> HIDE DEF EdgesOf
  <2> TAKE w \in S
  <2>1. Within(EdgesOf(S), w.hlc)
    BY <1>1 DEF Within
  <2>2. CASE w.parent = NoHlc
    BY <2>1, <2>2 DEF Within
  <2>3. ASSUME NEW v \in S, v.hlc = w.parent PROVE Within(EdgesOf(S), w.parent)
    BY <1>1, <2>3 DEF Within
  <2> QED BY <1>0, <2>1, <2>2, <2>3
<1>4. ASSUME NEW e \in EdgesOf(S) PROVE Within(EdgesOf(S), e.parent) /\ e.token # NoHlc
  <2>1. PICK w \in S : e = [token |-> w.hlc, parent |-> w.parent]
    BY <1>2
  <2>2. e.token = w.hlc /\ e.parent = w.parent /\ w.hlc \in HlcType
    BY <2>1, WireFields DEF Family
  <2> QED BY <1>3, <2>2, TimesOrdered
<1>5. ASSUME NEW e \in EdgesOf(S), NEW g \in EdgesOf(S), e.token = g.token PROVE e = g
  <2>1. PICK v \in S : e = [token |-> v.hlc, parent |-> v.parent]
    BY <1>2
  <2>2. PICK w \in S : g = [token |-> w.hlc, parent |-> w.parent]
    BY <1>2
  <2>3. v = w
    BY <1>5, <2>1, <2>2 DEF Family
  <2> QED BY <2>1, <2>2, <2>3
<1> QED BY <1>3, <1>4, <1>5 DEF Mapped

(* What is learned later does not change what descends from what.          *)
LEMMA DescentStays ==
  ASSUME NEW S, NEW T, Family(S), Family(T), S \subseteq T,
         NEW start, Within(EdgesOf(S), start), NEW fence
  PROVE  /\ Descends(EdgesOf(T), start, fence) <=> Descends(EdgesOf(S), start, fence)
         /\ Descends(EdgesOf(S), start, fence) => \E v \in S : v.hlc = fence
<1>1. Mapped(EdgesOf(S)) /\ Mapped(EdgesOf(T)) /\ EdgesOf(S) \subseteq EdgesOf(T)
  BY FamilyMapped DEF EdgesOf
<1>2. \A e \in EdgesOf(S) : \E w \in S : e.token = w.hlc
  BY DEF EdgesOf
<1>3. Descends(EdgesOf(S), start, fence) => \E e \in EdgesOf(S) : e.token = fence
  BY <1>1, WalkWithin
<1>4. Descends(EdgesOf(T), start, fence) <=> Descends(EdgesOf(S), start, fence)
  BY <1>1, WalkWithin
<1> QED BY <1>2, <1>3, <1>4

(* Learning one more record of a family.                                   *)
LEMMA LearnTaught ==
  ASSUME NEW S, NEW w, w \notin S, Family(S \union {w}),
         Cardinality(EdgesOf(S \union {w})) <= MaxAncestryEdges,
         NEW c \in CellType, Taught(c, S)
  PROVE  /\ Taught(Learn(c, w), S \union {w}) /\ Learn(c, w) \in CellType
         /\ Learn(c, w).rec = c.rec /\ Learn(c, w).parked = c.parked
         /\ w.cause = "EXPLICIT_DELETE" /\ Before(c.fence, w.hlc) =>
              Learn(c, w).fence = w.hlc /\ Learn(c, w).tomb = w
         /\ ~(w.cause = "EXPLICIT_DELETE" /\ Before(c.fence, w.hlc)) =>
              Learn(c, w).fence = c.fence /\ Learn(c, w).tomb = c.tomb
<1> DEFINE n == Learn(c, w)
           e == [token |-> w.hlc, parent |-> w.parent]
<1>0. /\ w \in WireType /\ w \in Wires /\ w.hlc \in HlcType /\ w.hlc \in Times
      /\ w.cause \in WriteCauses \/ w.cause = "EXPLICIT_DELETE"
      /\ IsDeletion(w) <=> w.cause = "EXPLICIT_DELETE"
  BY WireFields, CausesSplit DEF Family, Wires, Times, WriteCauses
<1>1. /\ n \in CellType /\ n.rec = c.rec /\ n.parked = c.parked
      /\ n.edges = NoteAncestry(c.edges, w)
      /\ n.fence = NoteFence(c.fence, w) /\ n.tomb = NoteTombstone(c.tomb, w)
  BY <1>0, LearnFields
<1> HIDE DEF n
<1>2. c.edges \union {e} = EdgesOf(S \union {w})
  BY DEF Taught, EdgesOf
<1>3. \A v \in S : v.hlc # w.hlc
  BY DEF Family
<1>4. ~\E g \in c.edges : g.token = w.hlc
  BY <1>3 DEF Taught, EdgesOf
<1>5. n.edges = EdgesOf(S \union {w})
  BY <1>1, <1>2, <1>4 DEF NoteAncestry
<1>6. c.fence = c.tomb.hlc /\ c.fence \in Times
  BY CellFields DEF Taught
<1>7. CASE w.cause = "EXPLICIT_DELETE" /\ Before(c.fence, w.hlc)
  <2>1. n.fence = w.hlc /\ n.tomb = w /\ IsDeletion(w)
    BY <1>0, <1>1, <1>6, <1>7 DEF NoteFence, NoteTombstone, Later
  <2>2. \A v \in S : IsDeletion(v) => v.hlc \in Times /\ AtMost(v.hlc, w.hlc)
    BY <1>0, <1>6, <1>7, TimesOrdered, WireFields DEF Taught, AtMost, Family, Times
  <2> QED BY <1>1, <1>5, <1>7, <2>1, <2>2 DEF Taught, AtMost, n
<1>8. CASE ~(w.cause = "EXPLICIT_DELETE" /\ Before(c.fence, w.hlc))
  <2>1. n.fence = c.fence /\ n.tomb = c.tomb
    BY <1>0, <1>1, <1>6, <1>8 DEF NoteFence, NoteTombstone, Later
  <2>2. IsDeletion(w) => AtMost(w.hlc, c.fence)
    BY <1>0, <1>6, <1>8, TimesOrdered DEF AtMost
  <2> QED BY <1>1, <1>5, <1>8, <2>1, <2>2 DEF Taught, n
<1> QED BY <1>7, <1>8

(* A newer deletion blocks exactly the writes later than it: none that was *)
(* learned before can descend from it.                                     *)
LEMMA NewFence ==
  ASSUME NEW S, NEW w, w \notin S, Family(S), Family(S \union {w}),
         Cardinality(EdgesOf(S \union {w})) <= MaxAncestryEdges,
         NEW c \in CellType, Taught(c, S),
         w.cause = "EXPLICIT_DELETE", Before(c.fence, w.hlc), NEW y \in S
  PROVE  /\ Blocked(Learn(c, w), y) <=> y.cause \in WriteCauses /\ Before(w.hlc, y.hlc)
         /\ ~Descends(Learn(c, w).edges, y.hlc, w.hlc)
<1> DEFINE T == S \union {w}
           n == Learn(c, w)
<1>1. n.edges = EdgesOf(T) /\ n.fence = w.hlc
  BY LearnTaught DEF Taught
<1>2. w.hlc # NoHlc
  BY WireFields, TimesOrdered DEF Family
<1>3. ~\E v \in S : v.hlc = w.hlc
  BY DEF Family
<1> HIDE DEF n
<1>4. ~Descends(EdgesOf(T), y.parent, w.hlc) /\ ~Descends(EdgesOf(T), y.hlc, w.hlc)
  BY <1>3, DescentStays, FamilyMapped
<1> QED BY <1>1, <1>2, <1>4 DEF Blocked, n

(* Any other record leaves what is blocked as it was.                      *)
LEMMA SameFence ==
  ASSUME NEW S, NEW w, w \notin S, Family(S), Family(S \union {w}),
         Cardinality(EdgesOf(S \union {w})) <= MaxAncestryEdges,
         NEW c \in CellType, Taught(c, S),
         ~(w.cause = "EXPLICIT_DELETE" /\ Before(c.fence, w.hlc)), NEW y \in S
  PROVE  Blocked(Learn(c, w), y) <=> Blocked(c, y)
<1> DEFINE T == S \union {w}
           n == Learn(c, w)
<1>1. n.edges = EdgesOf(T) /\ n.fence = c.fence /\ c.edges = EdgesOf(S)
  BY LearnTaught DEF Taught
<1> HIDE DEF n
<1>2. Descends(EdgesOf(T), y.parent, c.fence) <=> Descends(EdgesOf(S), y.parent, c.fence)
  BY DescentStays, FamilyMapped
<1> QED BY <1>1, <1>2 DEF Blocked, n

(* What resolve() decides on a record that arrives is the best choice      *)
(* again: what it applies, or what it leaves in place.                     *)
LEMMA ResolvesBest ==
  ASSUME NEW S, NEW w, w \notin S, Family(S), Family(S \union {w}),
         Cardinality(EdgesOf(S \union {w})) <= MaxAncestryEdges,
         NEW c \in CellType, Taught(c, S), Best(c, S, c.rec)
  PROVE  LET n == Learn(c, w) IN
         IF Resolve(n, w) = "applied" THEN Best(n, S \union {w}, Winner(n, w))
                                      ELSE Best(n, S \union {w}, c.rec)
<1> DEFINE n == Learn(c, w)
           T == S \union {w}
<1>0. /\ w \in WireType /\ w \in Wires /\ w.hlc \in HlcType /\ w.hlc \in Times
      /\ w.cause \in WriteCauses \/ w.cause = "EXPLICIT_DELETE"
      /\ w.cause = "EXPLICIT_DELETE" => w.cause \notin WriteCauses
      /\ IsDeletion(w) <=> w.cause = "EXPLICIT_DELETE"
  BY WireFields, CausesSplit DEF Family, Wires, Times, WriteCauses
<1>3. c.fence = c.tomb.hlc /\ c.fence \in Times
  BY CellFields DEF Taught
<1>1. /\ n \in CellType /\ n.rec = c.rec /\ Taught(n, T)
      /\ w.cause = "EXPLICIT_DELETE" /\ Before(c.fence, w.hlc) =>
           n.fence = w.hlc /\ n.tomb = w
      /\ ~(w.cause = "EXPLICIT_DELETE" /\ Before(c.fence, w.hlc)) =>
           n.fence = c.fence /\ n.tomb = c.tomb
  <2>1. n \in CellType /\ n.rec = c.rec
    BY <1>0, LearnFields
  <2>2. Taught(n, T)
    BY LearnTaught
  <2>3. w.cause = "EXPLICIT_DELETE" /\ Before(c.fence, w.hlc) =>
           n.fence = w.hlc /\ n.tomb = w
    BY LearnTaught
  <2>4. ~(w.cause = "EXPLICIT_DELETE" /\ Before(c.fence, w.hlc)) =>
           n.fence = c.fence /\ n.tomb = c.tomb
    <3>1. n.fence = NoteFence(c.fence, w) /\ n.tomb = NoteTombstone(c.tomb, w)
      BY <1>0, LearnFields
    <3> HIDE DEF n
    <3> QED BY <1>0, <1>3, <3>1 DEF NoteFence, NoteTombstone, Later
  <2> QED BY <2>1, <2>2, <2>3, <2>4
<1>2. \A y \in S : y.hlc \in HlcType /\ y.hlc \in Times /\ y \in Wires /\ y # NoWire /\ y.hlc # w.hlc
  BY WireFields DEF Family, Wires, Times
<1>4. c.rec = NoWire <=> S = {}
  BY <1>2 DEF Best
<1>5. CASE w.cause = "EXPLICIT_DELETE" /\ Before(c.fence, w.hlc)
  <2>1. n.fence = w.hlc /\ n.tomb = w
    BY <1>1, <1>5
  <2>2. \A y \in S : /\ Blocked(n, y) <=> y.cause \in WriteCauses /\ Before(w.hlc, y.hlc)
                     /\ ~Descends(n.edges, y.hlc, w.hlc)
    BY <1>5, NewFence
  <2> HIDE DEF n
  <2>3. ~Blocked(n, w) /\ Winner(n, w) = w
    BY <1>0, <1>5, <2>1 DEF Blocked, Winner
  <2>4. ASSUME NEW y \in S, ~Blocked(n, y) PROVE AtMost(y.hlc, w.hlc)
    <3>1. CASE IsDeletion(y)
      BY <1>0, <1>2, <1>3, <1>5, <3>1, TimesOrdered DEF Taught, AtMost
    <3>2. CASE ~IsDeletion(y)
      BY <1>0, <1>2, <2>2, <2>4, <3>2, CausesSplit, TimesOrdered DEF AtMost
    <3> QED BY <3>1, <3>2
  <2>5. Best(n, T, w)
    BY <2>3, <2>4 DEF Best, AtMost
  <2>6. Resolve(n, w) = "applied"
    <3>1. CASE c.rec = NoWire \/ Before(c.rec.hlc, w.hlc)
      <4>1. c.rec # NoWire => c.rec.hlc # w.hlc
        BY <1>2 DEF Best
      <4> QED BY <1>1, <2>3, <3>1, <4>1 DEF Resolve, LastWriterWins
    <3>2. CASE c.rec # NoWire /\ ~Before(c.rec.hlc, w.hlc)
      <4>1. c.rec \in S /\ c.rec.hlc # w.hlc
        BY <1>2, <3>2 DEF Best
      <4>2. Before(w.hlc, c.rec.hlc)
        BY <1>0, <1>2, <3>2, <4>1, TimesOrdered
      <4>3. ~IsDeletion(c.rec)
        BY <1>0, <1>2, <1>3, <1>5, <4>1, <4>2, TimesOrdered DEF Taught, AtMost
      <4>4. LateDeletionWins(n, w)
        BY <1>1, <1>5, <2>1, <2>2, <4>1, <4>2, <4>3 DEF LateDeletionWins
      <4> QED BY <1>1, <2>3, <3>2, <4>4 DEF Resolve
    <3> QED BY <3>1, <3>2
  <2> QED BY <2>3, <2>5, <2>6 DEF n
<1>6. CASE ~(w.cause = "EXPLICIT_DELETE" /\ Before(c.fence, w.hlc))
  <2>1. n.fence = c.fence /\ n.tomb = c.tomb
    BY <1>1, <1>6
  <2>2. \A y \in S : Blocked(n, y) <=> Blocked(c, y)
    BY <1>6, SameFence
  <2> HIDE DEF n
  <2>3. ~LateDeletionWins(n, w)
    <3>1. CASE w.cause # "EXPLICIT_DELETE"
      BY <3>1 DEF LateDeletionWins
    <3>2. CASE w.cause = "EXPLICIT_DELETE" /\ ~Before(c.fence, w.hlc)
      <4>1. c.fence # w.hlc
        BY <1>0, <1>2, <1>3, TimesOrdered, WireFields DEF Taught
      <4> QED BY <2>1, <4>1 DEF LateDeletionWins
    <3> QED BY <1>6, <3>1, <3>2
  <2>4. CASE Blocked(n, w)
    <3>1. Resolve(n, w) # "applied"
      BY <2>4 DEF Resolve
    <3>2. c.fence # NoHlc /\ S # {}
      BY <1>3, <2>1, <2>4, WireFields DEF Blocked, Taught
    <3>3. Best(n, T, c.rec)
      BY <2>2, <2>4, <3>2 DEF Best
    <3> QED BY <3>1, <3>3 DEF n
  <2>5. CASE ~Blocked(n, w)
    <3>1. Resolve(n, w) = LastWriterWins(n, w)
      BY <2>3, <2>5 DEF Resolve
    <3>2. CASE S = {}
      <4>1. Resolve(n, w) = "applied" /\ c.fence = NoHlc /\ c.tomb = NoWire
        BY <1>1, <1>4, <3>1, <3>2, WireFields, <1>3 DEF LastWriterWins, Taught
      <4>2. ~IsDeletion(w)
        BY <1>0, <1>6, <4>1, TimesOrdered
      <4>3. Best(n, T, w) /\ Winner(n, w) = w
        BY <2>5, <3>2, <4>2 DEF Best, Winner, AtMost
      <4> QED BY <4>1, <4>3 DEF n
    <3>3. CASE S # {} /\ Before(c.rec.hlc, w.hlc)
      <4>1. c.rec \in S /\ c.rec # NoWire /\ c.rec.hlc # w.hlc /\ ~Blocked(c, c.rec)
        BY <1>2, <3>3 DEF Best
      <4>2. Resolve(n, w) = "applied"
        BY <1>1, <3>1, <3>3, <4>1 DEF LastWriterWins
      <4>3. ~IsDeletion(w)
        <5> SUFFICES ASSUME IsDeletion(w) PROVE FALSE
          OBVIOUS
        <5>1. ~Before(c.fence, w.hlc)
          BY <1>0, <1>6
        <5>2. c.tomb \in S /\ IsDeletion(c.tomb)
          BY <1>0, <1>3, <5>1, WireFields, TimesOrdered DEF Taught
        <5>3. ~Blocked(c, c.tomb)
          BY <1>2, <5>2, CausesSplit DEF Blocked
        <5>4. AtMost(c.tomb.hlc, c.rec.hlc)
          BY <5>2, <5>3, <3>3 DEF Best
        <5> QED BY <1>0, <1>2, <1>3, <3>3, <4>1, <5>1, <5>2, <5>4, TimesOrdered DEF AtMost
      <4>4. \A y \in S : ~Blocked(n, y) => AtMost(y.hlc, w.hlc)
        BY <1>0, <1>2, <2>2, <3>3, <4>1, TimesOrdered DEF Best, AtMost
      <4>5. Best(n, T, w) /\ Winner(n, w) = w
        BY <2>5, <4>3, <4>4 DEF Best, Winner, AtMost
      <4> QED BY <4>2, <4>5 DEF n
    <3>4. CASE S # {} /\ ~Before(c.rec.hlc, w.hlc)
      <4>1. c.rec \in S /\ c.rec # NoWire /\ c.rec.hlc # w.hlc /\ ~Blocked(c, c.rec)
        BY <1>2, <3>4 DEF Best
      <4>2. Resolve(n, w) # "applied"
        BY <1>1, <3>1, <3>4, <4>1 DEF LastWriterWins
      <4>3. AtMost(w.hlc, c.rec.hlc)
        BY <1>0, <1>2, <3>4, <4>1, TimesOrdered DEF AtMost
      <4>4. Best(n, T, c.rec)
        BY <2>2, <3>4, <4>1, <4>3 DEF Best
      <4> QED BY <4>2, <4>4 DEF n
    <3> QED BY <3>2, <3>3, <3>4
  <2> QED BY <2>4, <2>5
<1> QED BY <1>5, <1>6

(* What is blocked and best depends on the edges and the fence alone.      *)
LEMMA BestAlike ==
  ASSUME NEW c, NEW n, n.edges = c.edges, n.fence = c.fence, NEW S
  PROVE  /\ \A x : Blocked(n, x) <=> Blocked(c, x)
         /\ \A x : Best(n, S, x) <=> Best(c, S, x)
<1>1. \A x : Blocked(n, x) <=> Blocked(c, x)
  BY DEF Blocked
<1> QED BY <1>1 DEF Best

(* With the best record in place a retry applies nothing: it drops a       *)
(* parked write that is no longer blocked, as one newer is stored.         *)
LEMMA RetryRests ==
  ASSUME NEW S, Family(S), NEW c \in CellType, Taught(c, S), Best(c, S, c.rec),
         NEW clk, NEW now
  PROVE  LET n == Retried(c) IN
         /\ RetryFiber(c) = Idle /\ RetryClock(c, clk, now) = clk
         /\ n \in CellType /\ n.rec = c.rec /\ Taught(n, S) /\ Best(n, S, n.rec)
         /\ n.parked = NoWire \/ Blocked(n, n.parked)
<1>1. CASE ~Unparks(c)
  <2>1. Retried(c) = c /\ RetryFiber(c) = Idle /\ RetryClock(c, clk, now) = clk
    BY <1>1 DEF Retried, RetryFiber, RetryApplies, RetryClock
  <2> QED BY <1>1, <2>1 DEF Unparks
<1>2. CASE Unparks(c)
  <2> DEFINE p == c.parked
             r == [c EXCEPT !.parked = NoWire]
  <2>1. p \in S /\ p.cause \in WriteCauses /\ ~Blocked(c, p)
    BY <1>2 DEF Unparks, Taught
  <2>2. c.rec \in S /\ AtMost(p.hlc, c.rec.hlc)
    BY <2>1 DEF Best
  <2>3. p.hlc \in Times /\ c.rec.hlc \in Times /\ p # NoWire /\ c.rec # NoWire /\ p \in Wires
    BY <2>1, <2>2, WireFields DEF Family, Times, Wires
  <2>4. ~LateDeletionWins(c, p)
    BY <2>1 DEF LateDeletionWins, WriteCauses
  <2>5. Resolve(c, p) # "applied"
    BY <2>1, <2>2, <2>3, <2>4, TimesOrdered DEF Resolve, LastWriterWins, AtMost
  <2>6. RetryFiber(c) = Idle /\ RetryClock(c, clk, now) = clk /\ Retried(c) = r
    BY <1>2, <2>5 DEF Retried, RetryFiber, RetryApplies, RetryClock
  <2>7. /\ r \in CellType /\ r.rec = c.rec /\ r.parked = NoWire
        /\ r.edges = c.edges /\ r.fence = c.fence /\ r.tomb = c.tomb
    BY DEF CellType
  <2> HIDE DEF r
  <2>8. Taught(r, S)
    BY <2>7 DEF Taught
  <2>9. Best(r, S, r.rec)
    BY <2>7, BestAlike
  <2> QED BY <2>6, <2>7, <2>8, <2>9
<1> QED BY <1>1, <1>2

(* The record shown of a family with a deletion descends from the newest   *)
(* one, in fewer steps than there are records.                             *)
LEMMA FenceShown ==
  ASSUME NEW S, Family(S), NEW age, \A w \in S : age[w.hlc] \in 1..MaxAncestryWalk,
         \A v, w \in S : v.hlc = w.parent => age[v.hlc] < age[w.hlc],
         NEW c \in CellType, Taught(c, S), Best(c, S, c.rec), c.fence # NoHlc
  PROVE  c.rec \in S /\ Descends(c.edges, c.rec.hlc, c.fence)
<1>1. c.tomb \in S /\ IsDeletion(c.tomb) /\ c.fence = c.tomb.hlc
  BY WireFields DEF Taught
<1>2. \A w \in S : w.hlc \in HlcType /\ w.hlc \in Times /\ w \in Wires
  BY WireFields DEF Family, Wires, Times
<1>3. c.rec \in S /\ AtMost(c.fence, c.rec.hlc) /\ ~Blocked(c, c.rec)
  BY <1>1, <1>2, CausesSplit DEF Best, Blocked
<1>4. c.edges = EdgesOf(S)
  BY DEF Taught
<1>5. CASE c.rec.hlc = c.fence
  <2>1. PICK n \in Nat : n = MaxAncestryWalk - 1
    BY AncestryAssumption
  <2>2. PICK f : IsWalk(f, c.edges, c.rec.hlc, c.fence, n)
    BY WalkExists
  <2>3. 0 \in 0..n /\ f[0] = c.rec.hlc
    BY <2>2 DEF IsWalk
  <2> QED BY <1>3, <1>5, <2>1, <2>2, <2>3, WalkDecides
<1>6. CASE Before(c.fence, c.rec.hlc)
  <2> DEFINE w == c.rec
             e == [token |-> w.hlc, parent |-> w.parent]
  <2>1. ~IsDeletion(w)
    BY <1>1, <1>2, <1>3, <1>6, TimesOrdered DEF Taught, AtMost
  <2>2. Descends(c.edges, w.parent, c.fence)
    BY <1>2, <1>3, <1>6, <2>1, CausesSplit DEF Blocked
  <2>3. e \in EdgesOf(S) /\ e.token = w.hlc /\ e.parent = w.parent
    BY <1>3 DEF EdgesOf
  <2>4. ASSUME NEW g \in EdgesOf(S)
        PROVE  \E v \in S : g.token = v.hlc /\ g.parent = v.parent
    BY DEF EdgesOf
  <2> HIDE DEF w, e
  <2>5. \A g \in EdgesOf(S) : age[g.token] \in 1..MaxAncestryWalk
    BY <2>4
  <2>6. \A g, h \in EdgesOf(S) : h.token = g.parent => age[h.token] < age[g.token]
    BY <2>4
  <2>7. w.hlc \in HlcType /\ c.fence \in HlcType
    BY <1>1, <1>2, <1>3 DEF w
  <2>8. Mapped(EdgesOf(S))
    BY FamilyMapped
  <2>9. Descends(EdgesOf(S), e.token, c.fence)
    BY <1>4, <1>6, <2>2, <2>3, <2>5, <2>6, <2>7, <2>8, ChildDescends DEF w
  <2> QED BY <1>3, <1>4, <2>3, <2>9 DEF w
<1> QED BY <1>3, <1>5, <1>6 DEF AtMost

(* The user's own change is the best choice once it is learned.            *)
LEMMA OwnBest ==
  ASSUME NEW S, NEW w, w \notin S, Family(S), Family(S \union {w}),
         Cardinality(EdgesOf(S \union {w})) <= MaxAncestryEdges,
         NEW age, \A v \in S : age[v.hlc] \in 1..MaxAncestryWalk,
         \A v, x \in S : v.hlc = x.parent => age[v.hlc] < age[x.hlc],
         NEW c \in CellType, Taught(c, S), Best(c, S, c.rec),
         w.parent = c.rec.hlc, \A v \in S : Before(v.hlc, w.hlc)
  PROVE  Best(Learn(c, w), S \union {w}, w)
<1> DEFINE n == Learn(c, w)
           T == S \union {w}
<1>0. w \in WireType /\ w \in Wires /\ (w.cause \in WriteCauses \/ w.cause = "EXPLICIT_DELETE")
  BY DEF Family, Wires
<1>1. n.edges = EdgesOf(T) /\ c.edges = EdgesOf(S)
  BY LearnTaught DEF Taught
<1>2. n.fence = NoteFence(c.fence, w)
  BY <1>0, LearnFields
<1> HIDE DEF n
<1>3. ~Blocked(n, w)
  <2>1. CASE w.cause \notin WriteCauses
    BY <2>1 DEF Blocked
  <2>2. CASE w.cause \in WriteCauses /\ c.fence = NoHlc
    BY <1>2, <2>2 DEF Blocked, NoteFence, WriteCauses
  <2>3. CASE w.cause \in WriteCauses /\ c.fence # NoHlc
    <3>1. n.fence = c.fence
      BY <1>2, <2>3 DEF NoteFence, WriteCauses
    <3>2. c.rec \in S /\ Descends(EdgesOf(S), c.rec.hlc, c.fence)
      BY <1>1, <2>3, FenceShown
    <3>3. Descends(EdgesOf(T), c.rec.hlc, c.fence)
      BY <3>2, DescentStays, FamilyMapped
    <3> QED BY <1>1, <3>1, <3>3 DEF Blocked
  <2> QED BY <2>1, <2>2, <2>3
<1> QED BY <1>3 DEF Best, AtMost, n

(* ---- the log ---- *)

Logs(L) == {L[i] : i \in 1..Len(L)}

(* Each record is published once, after its parent and after the deletions *)
(* its writer knew; none is an expiry or an eviction.                      *)
Ordered(L) ==
  /\ \A i, j \in 1..Len(L) : L[i].hlc = L[j].hlc => i = j
  /\ \A i \in 1..Len(L) : L[i].cause \in WriteCauses \/ L[i].cause = "EXPLICIT_DELETE"
  /\ \A i \in 1..Len(L) : \/ L[i].parent = NoHlc
                          \/ \E j \in 1..Len(L) : j < i /\ L[j].hlc = L[i].parent
  /\ \A i \in 1..Len(L) : \A h \in L[i].past :
        \E j \in 1..Len(L) : j < i /\ L[j].hlc = h /\ L[j].cause = "EXPLICIT_DELETE"

(* A record descends from the newest deletion its writer knew.             *)
Follows(S, w) ==
  \/ w.past = {}
  \/ \E v \in S : /\ v.cause = "EXPLICIT_DELETE"
                  /\ \A h \in w.past : AtMost(h, v.hlc)
                  /\ Descends(EdgesOf(S), w.parent, v.hlc)

LEMMA LogFamily ==
  ASSUME NEW L \in Seq(WireType), Ordered(L)
  PROVE  Family(Logs(L))
<1>1. Logs(L) \subseteq WireType
  BY DEF Logs
<1>2. \A v, w \in Logs(L) : v.hlc = w.hlc => v = w
  BY DEF Logs, Ordered
<1>3. \A w \in Logs(L) : w.cause \in WriteCauses \/ w.cause = "EXPLICIT_DELETE"
  BY DEF Logs, Ordered
<1>4. \A w \in Logs(L) : w.parent = NoHlc \/ \E v \in Logs(L) : v.hlc = w.parent
  BY DEF Logs, Ordered
<1>5. \A w \in Logs(L) : \A h \in w.past :
         \E v \in Logs(L) : v.hlc = h /\ v.cause = "EXPLICIT_DELETE"
  BY DEF Logs, Ordered
<1> QED BY <1>1, <1>2, <1>3, <1>4, <1>5 DEF Family

(* There are no more edges than records.                                   *)
LEMMA EdgesCounted ==
  ASSUME NEW L \in Seq(WireType), NEW S, S \subseteq Logs(L)
  PROVE  Cardinality(EdgesOf(S)) <= Len(L) /\ Cardinality(EdgesOf(S)) \in Nat
<1> DEFINE f == [i \in 1..Len(L) |-> [token |-> L[i].hlc, parent |-> L[i].parent]]
           T == EdgesOf(Logs(L))
<1>0. Len(L) \in Nat
  OBVIOUS
<1>1. IsFiniteSet(1..Len(L)) /\ Cardinality(1..Len(L)) = Len(L)
  BY <1>0, FS_Interval
<1>2. \A e \in T : \E i \in 1..Len(L) : e = f[i]
  BY DEF EdgesOf, Logs
<1>3. \A i \in 1..Len(L) : f[i] \in T
  BY DEF EdgesOf, Logs
<1>4. f = [i \in 1..Len(L) |-> f[i]]
  OBVIOUS
<1>5. EdgesOf(S) \in SUBSET T
  BY DEF EdgesOf
<1> HIDE DEF f, T
<1>6. f \in Surjection(1..Len(L), T)
  BY <1>2, <1>3, <1>4 DEF Surjection
<1>7. IsFiniteSet(T) /\ Cardinality(T) <= Cardinality(1..Len(L))
  BY <1>1, <1>6, FS_Surjection
<1>8. IsFiniteSet(EdgesOf(S)) /\ Cardinality(EdgesOf(S)) <= Cardinality(T)
  BY <1>5, <1>7, FS_Subset
<1>9. Cardinality(EdgesOf(S)) \in Nat /\ Cardinality(T) \in Nat
  BY <1>7, <1>8, FS_CardinalityType
<1> QED BY <1>0, <1>1, <1>7, <1>8, <1>9

(* Places in the log number the records from their parents up.             *)
LEMMA LogAges ==
  ASSUME NEW L \in Seq(WireType), Ordered(L), Len(L) <= MaxAncestryWalk
  PROVE  \E age : /\ \A w \in Logs(L) : age[w.hlc] \in 1..MaxAncestryWalk
                  /\ \A v, w \in Logs(L) : v.hlc = w.parent => age[v.hlc] < age[w.hlc]
<1> DEFINE age == [h \in HlcType |-> CHOOSE i \in 1..Len(L) : L[i].hlc = h]
<1>0. Len(L) \in Nat /\ MaxAncestryWalk \in Nat
  BY AncestryAssumption
<1>1. ASSUME NEW i \in 1..Len(L) PROVE age[L[i].hlc] = i
  <2>1. L[i].hlc \in HlcType
    BY WireFields
  <2>2. \A j \in 1..Len(L) : L[j].hlc = L[i].hlc => j = i
    BY DEF Ordered
  <2> QED BY <2>1, <2>2
<1> HIDE DEF age
<1>2. \A w \in Logs(L) : age[w.hlc] \in 1..MaxAncestryWalk
  BY <1>0, <1>1 DEF Logs
<1>3. ASSUME NEW i \in 1..Len(L), NEW j \in 1..Len(L), L[j].hlc = L[i].parent
      PROVE  age[L[j].hlc] < age[L[i].hlc]
  <2>1. L[j].hlc # NoHlc
    BY WireFields, TimesOrdered
  <2>2. PICK k \in 1..Len(L) : k < i /\ L[k].hlc = L[i].parent
    BY <1>3, <2>1 DEF Ordered
  <2> QED BY <1>1, <1>3, <2>2
<1>4. \A v, w \in Logs(L) : v.hlc = w.parent => age[v.hlc] < age[w.hlc]
  BY <1>3 DEF Logs
<1> QED BY <1>2, <1>4

(* A record that names what is in the log may be published.                *)
LEMMA LogGrows ==
  ASSUME NEW L \in Seq(WireType), Ordered(L), NEW w \in WireType,
         \A v \in Logs(L) : v.hlc # w.hlc,
         w.cause \in WriteCauses \/ w.cause = "EXPLICIT_DELETE",
         w.parent = NoHlc \/ \E v \in Logs(L) : v.hlc = w.parent,
         \A h \in w.past : \E v \in Logs(L) : v.hlc = h /\ v.cause = "EXPLICIT_DELETE"
  PROVE  /\ Append(L, w) \in Seq(WireType) /\ Ordered(Append(L, w))
         /\ Logs(Append(L, w)) = Logs(L) \union {w}
         /\ Len(Append(L, w)) = Len(L) + 1
<1> DEFINE M == Append(L, w)
<1>1. /\ M \in Seq(WireType) /\ Len(M) = Len(L) + 1 /\ Len(L) \in Nat /\ M[Len(L) + 1] = w
      /\ \A i \in 1..Len(L) : M[i] = L[i] /\ i \in 1..Len(M) /\ i < Len(L) + 1
      /\ Len(L) + 1 \in 1..Len(M)
      /\ \A i \in 1..Len(M) : i \in 1..Len(L) \/ i = Len(L) + 1
  OBVIOUS
<1> HIDE DEF M
<1>2. Logs(M) = Logs(L) \union {w}
  BY <1>1 DEF Logs
<1>3. \A i \in 1..Len(L) : L[i].hlc # w.hlc
  BY DEF Logs
<1>4. \A i, j \in 1..Len(M) : M[i].hlc = M[j].hlc => i = j
  BY <1>1, <1>3 DEF Ordered
<1>5. \A i \in 1..Len(M) : M[i].cause \in WriteCauses \/ M[i].cause = "EXPLICIT_DELETE"
  BY <1>1 DEF Ordered
<1>6. ASSUME NEW i \in 1..Len(M)
      PROVE  \/ M[i].parent = NoHlc
             \/ \E j \in 1..Len(M) : j < i /\ M[j].hlc = M[i].parent
  <2>1. CASE i \in 1..Len(L)
    <3>1. \/ L[i].parent = NoHlc
          \/ \E j \in 1..Len(L) : j < i /\ L[j].hlc = L[i].parent
      BY <2>1 DEF Ordered
    <3> QED BY <1>1, <2>1, <3>1
  <2>2. CASE i = Len(L) + 1
    <3>1. w.parent = NoHlc \/ \E j \in 1..Len(L) : L[j].hlc = w.parent
      BY DEF Logs
    <3> QED BY <1>1, <2>2, <3>1
  <2> QED BY <1>1, <2>1, <2>2
<1>7. ASSUME NEW i \in 1..Len(M), NEW h \in M[i].past
      PROVE  \E j \in 1..Len(M) : j < i /\ M[j].hlc = h /\ M[j].cause = "EXPLICIT_DELETE"
  <2>1. CASE i \in 1..Len(L)
    <3>1. \E j \in 1..Len(L) : j < i /\ L[j].hlc = h /\ L[j].cause = "EXPLICIT_DELETE"
      BY <1>1, <1>7, <2>1 DEF Ordered
    <3> QED BY <1>1, <2>1, <3>1
  <2>2. CASE i = Len(L) + 1
    <3>1. \E j \in 1..Len(L) : L[j].hlc = h /\ L[j].cause = "EXPLICIT_DELETE"
      BY <1>1, <1>7, <2>2 DEF Logs
    <3> QED BY <1>1, <2>2, <3>1
  <2> QED BY <1>1, <2>1, <2>2
<1>8. Ordered(M)
  BY <1>4, <1>5, <1>6, <1>7 DEF Ordered
<1> QED BY <1>1, <1>2, <1>8 DEF M

(* What a record follows it still follows when more is published.          *)
LEMMA FollowsStays ==
  ASSUME NEW S, NEW T, Family(S), Family(T), S \subseteq T,
         NEW w, Within(EdgesOf(S), w.parent), Follows(S, w)
  PROVE  Follows(T, w)
<1>1. CASE w.past = {}
  BY <1>1 DEF Follows
<1>2. CASE w.past # {}
  <2>1. PICK v \in S : /\ v.cause = "EXPLICIT_DELETE" /\ \A h \in w.past : AtMost(h, v.hlc)
                       /\ Descends(EdgesOf(S), w.parent, v.hlc)
    BY <1>2 DEF Follows
  <2>2. Descends(EdgesOf(T), w.parent, v.hlc)
    BY <2>1, DescentStays
  <2> QED BY <2>1, <2>2 DEF Follows
<1> QED BY <1>1, <1>2

(* ---- replicas that follow the log ---- *)

(* Sessions, logouts and rollbacks made online, one task at a time, handed *)
(* over in order to cookie stores that take them, with room for every edge *)
(* and no tombstone old enough to be collected.                            *)
Orderly ==
  /\ InOrder /\ ~Overlap /\ ~MayFail /\ ~MayGoOffline
  /\ MaxTime < Retention
  /\ MaxVersions <= MaxAncestryEdges /\ MaxVersions <= MaxAncestryWalk
  /\ \A ch \in Changes : CauseForChange(ch[1], ch[2]) \notin {"EXPIRED", "EVICTED"}

(* The records d has stored itself or was handed.                          *)
Got(d)  == {i \in 1..Len(log) : i \in delivered[d] \/ log[i].hlc.dev = d}
Seen(d) == {log[i] : i \in Got(d)}

(* The user's change that d is about to store.                             *)
OwnNext(d, S, c, w) ==
  /\ w.parent = c.rec.hlc /\ w.hlc.dev = d
  /\ w.cause \in WriteCauses \/ w.cause = "EXPLICIT_DELETE"
  /\ \A v \in S : Before(v.hlc, w.hlc)
  /\ \A h \in w.past : \E v \in S : v.hlc = h /\ v.cause = "EXPLICIT_DELETE"

(* The records seen are later than nothing the clock has reached, and the  *)
(* deletions known are among them.                                         *)
Abreast(S, clk, K) ==
  /\ \A w \in S : ~ClockBefore(clk, w.hlc)
  /\ \A h \in K : \E v \in S : v.hlc = h /\ v.cause = "EXPLICIT_DELETE"

(* A replica that has seen S shows the best record of it, or is about to.  *)
(* Nothing it parks was written after the fence: what is blocked was not,  *)
(* and a rollback leaves parked what its new deletion has outrun.          *)
Holds(d, S, c, F, clk, K) ==
  /\ Family(S) /\ Taught(c, S) /\ Abreast(S, clk, K)
  /\ F["capture"].kind # "applying"
  /\ F["records"].kind = "applying" =>
       F["records"].retry /\ Best(c, S, F["records"].wire)
  /\ F["records"].kind # "applying" => Best(c, S, c.rec)
  /\ F["capture"].kind = "stamped" => OwnNext(d, S, c, F["capture"].wire)
  /\ F = AllIdle => \/ c.parked = NoWire \/ Blocked(c, c.parked)
                    \/ c.fence \notin c.parked.past

InStep(d) ==
  /\ online[d] /\ delivered[d] \subseteq 1..Len(log)
  /\ wall[d] <= Retention
  /\ Holds(d, Seen(d), cell[d], fiber[d], clock[d], known[d])

(* Every record made has been published or is being stored.                *)
Stamping == {d \in Devices : fiber[d]["capture"].kind = "stamped"}
Counted  == /\ IsFiniteSet(Stamping)
            /\ Len(log) + Cardinality(Stamping) <= made /\ made <= MaxVersions

LogFollows == Ordered(log) /\ \A w \in Logs(log) : Follows(Logs(log), w)

InLine == LogFollows /\ Counted /\ \A d \in Devices : InStep(d)

(* At rest after a retry.                                                  *)
LEMMA HoldsRest ==
  ASSUME NEW S, Family(S), NEW c \in CellType, Taught(c, S), Best(c, S, c.rec),
         NEW d, NEW clk, NEW K, Abreast(S, clk, K), NEW now
  PROVE  /\ RetryFiber(c) = Idle /\ RetryClock(c, clk, now) = clk
         /\ Holds(d, S, Retried(c), AllIdle, clk, K)
<1>1. LET n == Retried(c) IN
      /\ RetryFiber(c) = Idle /\ RetryClock(c, clk, now) = clk
      /\ Taught(n, S) /\ Best(n, S, n.rec)
      /\ n.parked = NoWire \/ Blocked(n, n.parked)
  BY RetryRests
<1>2. AllIdle["capture"].kind = "idle" /\ AllIdle["records"].kind = "idle"
  BY IdleKind DEF AllIdle, Queues
<1> QED BY <1>1, <1>2 DEF Holds

(* Storing a record that is the best one.                                  *)
LEMMA StoredBest ==
  ASSUME NEW S, NEW c \in CellType, Taught(c, S), NEW x \in WireType, Best(c, S, x),
         NEW now \in Nat
  PROVE  LET n == Store(c, x, now) IN
         n \in CellType /\ Taught(n, S) /\ Best(n, S, n.rec)
<1> DEFINE n == Store(c, x, now)
<1>1. /\ n \in CellType /\ n.rec = x /\ n.fence = c.fence
      /\ n.tomb = c.tomb /\ n.edges = c.edges /\ n.parked = c.parked
  BY StoreType
<1> HIDE DEF n
<1>2. Taught(n, S)
  BY <1>1 DEF Taught
<1> QED BY <1>1, <1>2, BestAlike DEF n

(* The steps of one replica, on what it has seen.                          *)
LEMMA HoldsStamp ==
  ASSUME NEW d, NEW S, NEW c, NEW clk \in ClockType, NEW K,
         Holds(d, S, c, AllIdle, clk, K),
         NEW n \in ClockType, ClockBefore(clk, n), NEW w, w.hlc.dev = d,
         w.parent = c.rec.hlc, w.past = K \union c.rec.past,
         w.cause \in WriteCauses \/ w.cause = "EXPLICIT_DELETE",
         \A h \in HlcType : ~ClockBefore(clk, h) => Before(h, w.hlc),
         NEW F, F["records"] = Idle, F["capture"].kind = "stamped", F["capture"].wire = w
  PROVE  Holds(d, S, c, F, n, K)
<1>0. AllIdle["capture"].kind = "idle" /\ AllIdle["records"].kind = "idle"
      /\ Idle.kind = "idle" /\ F # AllIdle
  BY IdleKind DEF AllIdle, Queues
<1>1. /\ Family(S) /\ Taught(c, S) /\ Abreast(S, clk, K) /\ Best(c, S, c.rec)
  BY <1>0 DEF Holds
<1>2. \A v \in S : v.hlc \in HlcType /\ ~ClockBefore(clk, v.hlc)
  BY <1>1, WireFields DEF Family, Abreast
<1>3. Abreast(S, n, K)
  BY <1>1, <1>2, ClockOrder DEF Abreast, ClockFrom
<1>4. \A h \in c.rec.past : \E v \in S : v.hlc = h /\ v.cause = "EXPLICIT_DELETE"
  BY <1>1, WireFields DEF Best, Family
<1>5. OwnNext(d, S, c, w)
  BY <1>1, <1>2, <1>4 DEF OwnNext, Abreast
<1> QED BY <1>0, <1>1, <1>3, <1>5 DEF Holds

(* A record of its own, learned and stored, is the best one.               *)
LEMMA OwnKeptBest ==
  ASSUME NEW S, NEW c \in CellType,
         Taught(c, S), NEW w, w \notin S,
         Family(S), Family(S \union {w}), Best(Learn(c, w), S \union {w}, w),
         Cardinality(EdgesOf(S \union {w})) <= MaxAncestryEdges, NEW now \in Nat
  PROVE  LET n == Store(Learn(c, w), w, now) IN
         /\ n \in CellType /\ Taught(n, S \union {w}) /\ Best(n, S \union {w}, n.rec)
         /\ n.fence = Learn(c, w).fence /\ n.edges = Learn(c, w).edges
         /\ n.parked = c.parked
<1> DEFINE T == S \union {w}
           l == Learn(c, w)
           n == Store(l, w, now)
<1>2. w \in WireType
  BY DEF Family
<1>3. l \in CellType
  BY <1>2, LearnFields
<1>4. Taught(l, T)
  BY LearnTaught
<1>5. Best(l, T, w)
  OBVIOUS
<1>7. l.parked = c.parked
  BY <1>2, LearnFields
<1> HIDE DEF l, T
<1>8. n \in CellType /\ Taught(n, T) /\ Best(n, T, n.rec)
  BY <1>2, <1>3, <1>4, <1>5, StoredBest
<1>9. n.fence = l.fence /\ n.edges = l.edges /\ n.parked = l.parked
  BY <1>2, <1>3, StoreType
<1> HIDE DEF n
<1> QED BY <1>7, <1>8, <1>9 DEF n, T, l

LEMMA HoldsStore ==
  ASSUME NEW d, NEW S, NEW c \in CellType, NEW F, NEW clk \in ClockType, NEW K,
         Holds(d, S, c, F, clk, K), F["capture"].kind = "stamped", F["records"] = Idle,
         NEW w, F["capture"].wire = w, w \notin S, Family(S \union {w}),
         ~ClockBefore(clk, w.hlc),
         Cardinality(EdgesOf(S \union {w})) <= MaxAncestryEdges,
         NEW age, \A v \in S : age[v.hlc] \in 1..MaxAncestryWalk,
         \A v, x \in S : v.hlc = x.parent => age[v.hlc] < age[x.hlc], NEW now \in Nat
  PROVE  LET n == Store(Learn(c, w), w, now) IN
         /\ RetryFiber(n) = Idle /\ RetryClock(n, clk, now) = clk
         /\ Holds(d, S \union {w}, Retried(n), AllIdle, clk, K \union Explicit(w))
<1> DEFINE T == S \union {w}
           n == Store(Learn(c, w), w, now)
<1>0. /\ Family(S) /\ Taught(c, S) /\ Abreast(S, clk, K) /\ Best(c, S, c.rec)
      /\ OwnNext(d, S, c, w)
  BY IdleKind DEF Holds
<1>7. Best(Learn(c, w), S \union {w}, w)
  BY <1>0, OwnBest DEF OwnNext
<1>8. Abreast(T, clk, K \union Explicit(w))
  BY <1>0 DEF Abreast, Explicit
<1>1. /\ n \in CellType /\ Taught(n, T) /\ Best(n, T, n.rec)
  <2>1. n \in CellType
    BY <1>0, <1>7, OwnKeptBest
  <2>2. Taught(n, T)
    BY <1>0, <1>7, OwnKeptBest
  <2>3. Best(n, T, n.rec)
    BY <1>0, <1>7, OwnKeptBest
  <2> QED BY <2>1, <2>2, <2>3
<1> HIDE DEF n
<1>2. Family(T)
  OBVIOUS
<1> HIDE DEF T
<1>3. /\ RetryFiber(n) = Idle /\ RetryClock(n, clk, now) = clk
      /\ Holds(d, T, Retried(n), AllIdle, clk, K \union Explicit(w))
  <2>1. n \in CellType /\ Family(T) /\ Taught(n, T) /\ Best(n, T, n.rec)
    BY <1>1, <1>2
  <2>2. Abreast(T, clk, K \union Explicit(w))
    BY <1>8
  <2>3. RetryFiber(n) = Idle /\ RetryClock(n, clk, now) = clk
    BY <2>1, RetryRests
  <2>4. Holds(d, T, Retried(n), AllIdle, clk, K \union Explicit(w))
    BY <2>1, <2>2, HoldsRest
  <2> QED BY <2>3, <2>4
<1> QED BY <1>3 DEF n, T

(* The same of a record reissued, after which nothing is retried.          *)
LEMMA HoldsReissue ==
  ASSUME NEW d, NEW S, NEW c \in CellType, NEW F, NEW clk \in ClockType, NEW K,
         Holds(d, S, c, F, clk, K), F["capture"].kind = "stamped", F["records"] = Idle,
         NEW w, F["capture"].wire = w, w \notin S, Family(S \union {w}),
         ~ClockBefore(clk, w.hlc),
         Cardinality(EdgesOf(S \union {w})) <= MaxAncestryEdges,
         NEW age, \A v \in S : age[v.hlc] \in 1..MaxAncestryWalk,
         \A v, x \in S : v.hlc = x.parent => age[v.hlc] < age[x.hlc], NEW now \in Nat,
         \/ c.parked = NoWire \/ Blocked(c, c.parked) \/ c.fence \notin c.parked.past
  PROVE  LET n == Store(Learn(c, w), w, now) IN
         Holds(d, S \union {w}, n, AllIdle, clk, K \union Explicit(w))
<1> DEFINE T == S \union {w}
           l == Learn(c, w)
           n == Store(l, w, now)
<1>0. /\ Family(S) /\ Taught(c, S) /\ Abreast(S, clk, K) /\ Best(c, S, c.rec)
      /\ OwnNext(d, S, c, w)
  BY IdleKind DEF Holds
<1>7. Best(Learn(c, w), S \union {w}, w)
  BY <1>0, OwnBest DEF OwnNext
<1>8. Abreast(T, clk, K \union Explicit(w))
  BY <1>0 DEF Abreast, Explicit
<1>1. /\ n \in CellType /\ Taught(n, T) /\ Best(n, T, n.rec)
      /\ n.fence = l.fence /\ n.edges = l.edges
      /\ n.parked = c.parked
  <2>1. n \in CellType
    BY <1>0, <1>7, OwnKeptBest
  <2>2. Taught(n, T)
    BY <1>0, <1>7, OwnKeptBest
  <2>3. Best(n, T, n.rec)
    BY <1>0, <1>7, OwnKeptBest
  <2>4. w \in WireType /\ l \in CellType /\ l.parked = c.parked
    BY LearnFields DEF Family
  <2> HIDE DEF l
  <2>5. n.fence = l.fence /\ n.edges = l.edges /\ n.parked = l.parked
    BY <2>4, StoreType
  <2> HIDE DEF n
  <2> QED BY <2>1, <2>2, <2>3, <2>4, <2>5
<1> HIDE DEF n
<1>6. w \in WireType
  BY DEF Family
<1>2. AllIdle["capture"].kind = "idle" /\ AllIdle["records"].kind = "idle"
  BY IdleKind DEF AllIdle, Queues
<1>3. l.fence = IF w.cause = "EXPLICIT_DELETE" /\ Before(c.fence, w.hlc)
                  THEN w.hlc ELSE c.fence
  BY <1>6, LearnFields DEF NoteFence
<1>4. n.parked = NoWire \/ Blocked(n, n.parked) \/ n.fence \notin n.parked.past
  <2>1. CASE c.parked = NoWire
    BY <1>1, <2>1
  <2>2. CASE c.parked # NoWire /\ w.cause = "EXPLICIT_DELETE" /\ Before(c.fence, w.hlc)
    <3>1. c.parked \in S /\ n.fence = w.hlc
      BY <1>0, <1>1, <1>3, <2>2 DEF Taught
    <3>2. \A v \in S : v.hlc # w.hlc
      BY DEF Family
    <3>3. w.hlc \notin c.parked.past
      BY <1>0, <3>1, <3>2 DEF Family
    <3> QED BY <1>1, <3>1, <3>3
  <2>3. CASE c.parked # NoWire /\ ~(w.cause = "EXPLICIT_DELETE" /\ Before(c.fence, w.hlc))
    <3>1. c.parked \in S /\ n.fence = c.fence
      BY <1>0, <1>1, <1>3, <2>3 DEF Taught
    <3>2. Blocked(l, c.parked) <=> Blocked(c, c.parked)
      BY <1>0, <2>3, <3>1, SameFence
    <3> HIDE DEF l
    <3>3. Blocked(n, c.parked) <=> Blocked(l, c.parked)
      BY <1>1, BestAlike
    <3> QED BY <1>1, <3>1, <3>2, <3>3
  <2> QED BY <2>1, <2>2, <2>3
<1>5. Holds(d, T, n, AllIdle, clk, K \union Explicit(w))
  BY <1>0, <1>1, <1>2, <1>4, <1>8 DEF Holds
<1> QED BY <1>5 DEF n

(* A record that arrives: learned, and the clock past it.                  *)
LEMMA LearnsBest ==
  ASSUME NEW d, NEW S, NEW c \in CellType, NEW clk \in ClockType, NEW K,
         Holds(d, S, c, AllIdle, clk, K), NEW w, w \notin S, Family(S \union {w}),
         Cardinality(EdgesOf(S \union {w})) <= MaxAncestryEdges,
         NEW m \in ClockType, ClockBefore(clk, m), ~ClockBefore(m, w.hlc),
         NEW l, l = Learn(c, w)
  PROVE  /\ l \in CellType /\ w \in WireType /\ Taught(l, S \union {w})
         /\ Resolve(l, w) = "applied" => Best(l, S \union {w}, Winner(l, w))
         /\ Resolve(l, w) # "applied" => Best(l, S \union {w}, l.rec)
         /\ Abreast(S \union {w}, m, K \union Explicit(w))
<1>0. AllIdle["capture"].kind = "idle" /\ AllIdle["records"].kind = "idle"
  BY IdleKind DEF AllIdle, Queues
<1>1. /\ Family(S) /\ Taught(c, S) /\ Abreast(S, clk, K) /\ Best(c, S, c.rec)
  BY <1>0 DEF Holds
<1>2. w \in WireType /\ \A v \in S : v.hlc \in HlcType
  BY WireFields DEF Family
<1>3. l \in CellType /\ l.rec = c.rec
  BY <1>2, LearnFields
<1>4. Taught(l, S \union {w})
  BY <1>1, LearnTaught
<1>5. IF Resolve(l, w) = "applied" THEN Best(l, S \union {w}, Winner(l, w))
                                  ELSE Best(l, S \union {w}, l.rec)
  BY <1>1, <1>3, ResolvesBest
<1>6. \A v \in S : ~ClockBefore(m, v.hlc)
  BY <1>1, <1>2, ClockOrder DEF Abreast, ClockFrom
<1>7. Abreast(S \union {w}, m, K \union Explicit(w))
  BY <1>1, <1>6 DEF Abreast, Explicit
<1> QED BY <1>2, <1>3, <1>4, <1>5, <1>7

(* It is applied, or turned down and the parked write retried.             *)
LEMMA HoldsStart ==
  ASSUME NEW d, NEW T, Family(T), NEW l, Taught(l, T), NEW w, Best(l, T, w),
         NEW m, NEW L, Abreast(T, m, L), NEW F, F["capture"] = Idle,
         F["records"].kind = "applying", F["records"].retry, F["records"].wire = w
  PROVE  Holds(d, T, l, F, m, L)
<1>1. F # AllIdle /\ Idle.kind = "idle"
  BY IdleKind DEF AllIdle, Queues
<1> QED BY <1>1 DEF Holds

LEMMA TurnedDownBest ==
  ASSUME NEW T, NEW l \in CellType, Taught(l, T), Best(l, T, l.rec),
         NEW w \in WireType, w \in T
  PROVE  LET p == IF Resolve(l, w) = "blocked" THEN Park(l, w) ELSE l IN
         p \in CellType /\ Taught(p, T) /\ Best(p, T, p.rec)
<1> DEFINE p == IF Resolve(l, w) = "blocked" THEN Park(l, w) ELSE l
<1>1. /\ p \in CellType /\ p.rec = l.rec /\ p.fence = l.fence /\ p.tomb = l.tomb
      /\ p.edges = l.edges /\ p.parked \in {l.parked, w}
      /\ p.parked # l.parked => w.cause \in WriteCauses
  <2>1. CASE Resolve(l, w) = "blocked"
    <3>1. w.cause \in WriteCauses
      BY <2>1 DEF Resolve, LastWriterWins, Blocked
    <3> QED BY <2>1, <3>1, ParkType
  <2>2. CASE Resolve(l, w) # "blocked"
    BY <2>2
  <2> QED BY <2>1, <2>2
<1> HIDE DEF p
<1>2. Taught(p, T)
  BY <1>1 DEF Taught
<1>3. Best(p, T, p.rec)
  BY <1>1, BestAlike
<1> QED BY <1>1, <1>2, <1>3 DEF p

LEMMA HoldsApply ==
  ASSUME NEW d, NEW S, NEW c \in CellType, NEW F, NEW clk, NEW K,
         Holds(d, S, c, F, clk, K), F["records"].kind = "applying",
         F["records"].wire \in WireType, NEW now \in Nat
  PROVE  LET n == Store(c, F["records"].wire, now) IN
         /\ RetryFiber(n) = Idle /\ RetryClock(n, clk, now) = clk
         /\ Holds(d, S, Retried(n), AllIdle, clk, K)
<1> DEFINE n == Store(c, F["records"].wire, now)
<1>1. /\ Family(S) /\ Taught(c, S) /\ Abreast(S, clk, K)
      /\ Best(c, S, F["records"].wire)
  BY DEF Holds
<1>2. n \in CellType /\ Taught(n, S) /\ Best(n, S, n.rec)
  BY <1>1, StoredBest
<1> HIDE DEF n
<1>3. /\ RetryFiber(n) = Idle /\ RetryClock(n, clk, now) = clk
      /\ Holds(d, S, Retried(n), AllIdle, clk, K)
  BY <1>1, <1>2, HoldsRest
<1> QED BY <1>3 DEF n

(* What others do, and what others publish, leaves a replica in step.      *)
LEMMA StepElsewhere ==
  ASSUME TypeOK, NEW e \in Devices, InStep(e),
         cell'[e] = cell[e], clock'[e] = clock[e], fiber'[e] = fiber[e],
         known'[e] = known[e], delivered'[e] = delivered[e],
         online'[e] = online[e], wall'[e] <= Retention,
         log' = log \/ \E w \in WireType : log' = Append(log, w) /\ w.hlc.dev # e
  PROVE  InStep(e)'
<1>0. log \in Seq(WireType) /\ delivered[e] \subseteq 1..Len(log)
  BY DEF TypeOK, InStep
<1>1. /\ delivered[e] \subseteq 1..Len(log')
      /\ \A i \in 1..Len(log) : i \in 1..Len(log') /\ log'[i] = log[i]
      /\ \A i \in 1..Len(log') : i \notin 1..Len(log) =>
            i \notin delivered[e] /\ log'[i].hlc.dev # e
  <2>1. CASE log' = log
    BY <1>0, <2>1
  <2>2. CASE \E w \in WireType : log' = Append(log, w) /\ w.hlc.dev # e
    <3>1. PICK w \in WireType : log' = Append(log, w) /\ w.hlc.dev # e
      BY <2>2
    <3>2. /\ Len(log') = Len(log) + 1 /\ log'[Len(log) + 1] = w /\ Len(log) \in Nat
          /\ \A i \in 1..Len(log) : log'[i] = log[i]
      BY <1>0, <3>1
    <3> QED BY <1>0, <3>1, <3>2
  <2> QED BY <2>1, <2>2
<1>2. Got(e)' = Got(e)
  BY <1>1 DEF Got
<1>3. Seen(e)' = Seen(e)
  BY <1>1, <1>2 DEF Seen, Got
<1> QED BY <1>1, <1>3 DEF InStep

(* A replica that takes a step of its own and publishes nothing.           *)
LEMMA SeenStays ==
  ASSUME NEW d \in Devices, UNCHANGED <<log, delivered>>
  PROVE  Seen(d)' = Seen(d)
BY DEF Seen, Got

LEMMA LogStays ==
  ASSUME LogFollows, UNCHANGED log
  PROVE  LogFollows'
BY DEF LogFollows

LEMMA CountedStays ==
  ASSUME Counted, UNCHANGED <<log, made>>,
         \A e \in Devices : fiber'[e]["capture"].kind = "stamped"
                              <=> fiber[e]["capture"].kind = "stamped"
  PROVE  Counted'
<1>1. Stamping' = Stamping
  BY DEF Stamping
<1> QED BY <1>1 DEF Counted

(* A replica steps, without publishing: the others stay where they are.    *)
LEMMA LineStays ==
  ASSUME TypeOK, InLine, NEW d \in Devices, UNCHANGED <<log, made, online, wall>>,
         \A e \in Devices : e # d =>
            /\ cell'[e] = cell[e] /\ clock'[e] = clock[e] /\ fiber'[e] = fiber[e]
            /\ known'[e] = known[e] /\ delivered'[e] = delivered[e],
         fiber'[d]["capture"].kind = "stamped" <=> fiber[d]["capture"].kind = "stamped",
         delivered'[d] \subseteq 1..Len(log),
         Holds(d, Seen(d)', cell'[d], fiber'[d], clock'[d], known'[d])
  PROVE  InLine'
<1>1. LogFollows'
  BY LogStays DEF InLine
<1>2. Counted'
  BY CountedStays DEF InLine
<1>3. ASSUME NEW e \in Devices PROVE InStep(e)'
  <2>1. InStep(e)
    BY DEF InLine
  <2>2. CASE e # d
    <3>1. wall'[e] <= Retention
      BY <2>1 DEF InStep
    <3> QED BY <2>1, <2>2, <3>1, StepElsewhere
  <2>3. CASE e = d
    BY <2>1, <2>3 DEF InStep
  <2> QED BY <2>2, <2>3
<1> QED BY <1>1, <1>2, <1>3 DEF InLine

LEMMA LineTick ==
  ASSUME TypeInv, InLine, Orderly, NEW d \in Devices, Tick(d)
  PROVE  InLine'
<1>0. /\ wall[d] < MaxTime /\ wall' = [wall EXCEPT ![d] = @ + 1] /\ wall \in [Devices -> Nat]
      /\ UNCHANGED <<jar, clock, cell, fiber, online, queue, snap, log, delivered, made,
                     known, unapplied>>
  BY DEF Tick, TypeInv, TypeOK
<1>1. LogFollows'
  BY <1>0, LogStays DEF InLine
<1>2. Counted'
  BY <1>0, CountedStays DEF InLine
<1>3. ASSUME NEW e \in Devices PROVE InStep(e)'
  <2>1. InStep(e) /\ wall[e] <= Retention
    BY DEF InLine, InStep
  <2>2. wall'[e] <= Retention
    BY <1>0, <2>1, ReplicaAssumption DEF Orderly
  <2> QED BY <1>0, <2>1, <2>2, StepElsewhere DEF TypeInv
<1> QED BY <1>1, <1>2, <1>3 DEF InLine

(* Records under way are counted as made.                                  *)
LEMMA LogBounded ==
  ASSUME TypeOK, Counted
  PROVE  /\ Len(log) <= MaxVersions /\ Len(log) \in Nat
         /\ Stamping # {} => Len(log) + 1 <= MaxVersions
<1>1. /\ Cardinality(Stamping) \in Nat /\ (Cardinality(Stamping) = 0 <=> Stamping = {})
      /\ Len(log) \in Nat /\ made \in Nat /\ MaxVersions \in Nat
  BY FS_CardinalityType, FS_EmptySet, ReplicaAssumption DEF Counted, TypeOK
<1> QED BY <1>1 DEF Counted

LEMMA LineLocalStamp ==
  ASSUME TypeInv, TasksInv, InLine, Orderly, NEW d \in Devices, LocalStamp(d)
  PROVE  InLine'
<1>1. PICK ch \in Changes :
         LET cause == CauseForChange(ch[1], ch[2])
             c     == ClockSend(clock[d], wall[d]) IN
         /\ MayStart(d, "capture") /\ cause # "none" /\ made < MaxVersions
         /\ clock' = [clock EXCEPT ![d] = c]
         /\ fiber' = [fiber EXCEPT ![d]["capture"] =
                        [kind |-> "stamped", wire |-> NewWire(d, c, cause),
                         retry |-> FALSE]]
         /\ made'  = made + 1
         /\ UNCHANGED <<wall, cell, online, queue, snap, log, delivered, known, unapplied>>
  BY DEF LocalStamp
<1> DEFINE cause == CauseForChange(ch[1], ch[2])
           c     == ClockSend(clock[d], wall[d])
           w     == NewWire(d, c, cause)
           f     == [kind |-> "stamped", wire |-> w, retry |-> FALSE]
<1>2. cause \in Causes /\ (cause \in WriteCauses \/ cause = "EXPLICIT_DELETE")
  BY <1>1, CauseTypes DEF Orderly, Causes, DeletionCauses
<1>3. /\ clock[d] \in ClockType /\ wall[d] \in Nat /\ d \in Nat
      /\ fiber \in [Devices -> [Queues -> FiberType]] /\ clock \in [Devices -> ClockType]
      /\ "capture" \in Queues /\ "records" \in Queues /\ made \in Nat /\ MaxVersions \in Nat
  BY ReplicaAssumption DEF TypeInv, TypeOK, Queues
<1>4. /\ c \in ClockType /\ ClockBefore(clock[d], c) /\ Stamp(c, d).dev = d
      /\ \A h \in HlcType : ~ClockBefore(clock[d], h) => Before(h, Stamp(c, d))
  BY <1>3, SendMoves
<1>5. /\ clock' = [clock EXCEPT ![d] = c] /\ fiber' = [fiber EXCEPT ![d]["capture"] = f]
      /\ made < MaxVersions /\ made' = made + 1 /\ MayStart(d, "capture")
      /\ UNCHANGED <<wall, cell, online, queue, snap, log, delivered, known, unapplied>>
  BY <1>1
<1> HIDE DEF c, cause
<1>6. /\ w.hlc = Stamp(c, d) /\ w.parent = cell[d].rec.hlc /\ w.cause = cause
      /\ w.past = known[d] \union cell[d].rec.past
  BY <1>2, <1>4, NewWireType DEF TypeInv
<1>7. fiber[d] = AllIdle /\ fiber[d]["records"] = Idle /\ fiber[d]["capture"] = Idle
  BY <1>3, <1>5, StartsResting, RestingIdle DEF TypeInv, Orderly
<1>8. f.kind = "stamped" /\ f.wire = w
  OBVIOUS
<1> HIDE DEF f, w
<1>9. /\ fiber'[d]["capture"] = f /\ fiber'[d]["records"] = Idle /\ clock'[d] = c
      /\ \A e \in Devices : e # d => fiber'[e] = fiber[e] /\ clock'[e] = clock[e]
  BY <1>3, <1>5, <1>7 DEF Queues
<1>10. LogFollows'
  BY <1>5, LogStays DEF InLine
<1>11. Counted'
  <2>1. d \notin Stamping
    BY <1>7, IdleKind DEF Stamping
  <2>2. Stamping' = Stamping \union {d}
    BY <1>8, <1>9 DEF Stamping
  <2>3. /\ IsFiniteSet(Stamping') /\ Cardinality(Stamping') = Cardinality(Stamping) + 1
        /\ Cardinality(Stamping) \in Nat
    BY <2>1, <2>2, FS_AddElement, FS_CardinalityType DEF InLine, Counted
  <2>4. Len(log) \in Nat /\ log' = log
    BY <1>5 DEF TypeInv, TypeOK
  <2> QED BY <1>3, <1>5, <2>3, <2>4 DEF InLine, Counted
<1>12. ASSUME NEW e \in Devices PROVE InStep(e)'
  <2>1. InStep(e) /\ wall'[e] <= Retention
    BY <1>5 DEF InLine, InStep
  <2>2. CASE e # d
    BY <1>5, <1>9, <2>1, <2>2, StepElsewhere DEF TypeInv
  <2>3. CASE e = d
    <3>1. Holds(d, Seen(d), cell[d], AllIdle, clock[d], known[d])
      BY <1>7, <2>1, <2>3 DEF InStep
    <3>2. PICK S : S = Seen(d)
      OBVIOUS
    <3>3. Holds(d, S, cell[d], fiber'[d], c, known[d])
      <4>1. PICK F : F = fiber'[d]
        OBVIOUS
      <4>2. /\ F["records"] = Idle /\ F["capture"].kind = "stamped"
            /\ F["capture"].wire = w
        BY <1>8, <1>9, <4>1
      <4>3. /\ w.hlc.dev = d
            /\ w.cause \in WriteCauses \/ w.cause = "EXPLICIT_DELETE"
            /\ \A h \in HlcType : ~ClockBefore(clock[d], h) => Before(h, w.hlc)
        BY <1>2, <1>4, <1>6
      <4>4. Holds(d, S, cell[d], F, c, known[d])
        BY <1>3, <1>4, <1>6, <3>1, <3>2, <4>2, <4>3, HoldsStamp
      <4> QED BY <4>1, <4>4
    <3>4. Seen(d)' = S
      BY <1>5, <3>2, SeenStays
    <3> QED BY <1>5, <1>9, <2>1, <2>3, <3>3, <3>4 DEF InStep
  <2> QED BY <2>2, <2>3
<1> QED BY <1>10, <1>11, <1>12 DEF InLine

(* What a device makes follows the newest deletion it knew.                *)
LEMMA OwnFollows ==
  ASSUME NEW S, NEW T, Family(S), Family(T), S \subseteq T,
         NEW age, \A v \in S : age[v.hlc] \in 1..MaxAncestryWalk,
         \A v, x \in S : v.hlc = x.parent => age[v.hlc] < age[x.hlc],
         NEW c \in CellType, Taught(c, S), Best(c, S, c.rec), NEW w, w.parent = c.rec.hlc,
         \A h \in w.past : \E v \in S : v.hlc = h /\ v.cause = "EXPLICIT_DELETE"
  PROVE  Follows(T, w)
<1>1. CASE w.past = {}
  BY <1>1 DEF Follows
<1>2. CASE w.past # {}
  <2>1. \A v \in S : v.hlc \in HlcType /\ v \in Wires
    BY WireFields DEF Family, Wires
  <2>2. \A h \in w.past : h \in HlcType /\ AtMost(h, c.fence)
    BY <2>1, CausesSplit DEF Taught
  <2>3. c.fence # NoHlc
    BY <1>2, <2>2, TimesOrdered DEF AtMost, Times
  <2>4. c.tomb \in S /\ IsDeletion(c.tomb) /\ c.fence = c.tomb.hlc
    BY <2>3, WireFields DEF Taught
  <2>5. c.tomb.cause = "EXPLICIT_DELETE"
    BY <2>1, <2>4, CausesSplit DEF Family
  <2>6. c.rec \in S /\ Descends(c.edges, c.rec.hlc, c.fence)
    BY <2>3, FenceShown
  <2>7. Descends(EdgesOf(T), w.parent, c.tomb.hlc)
    BY <2>4, <2>6, DescentStays, FamilyMapped DEF Taught
  <2> QED BY <2>2, <2>4, <2>5, <2>7 DEF Follows
<1> QED BY <1>1, <1>2

(* The change under way at a device, and the log it is published in.       *)
LEMMA OwnPublished ==
  ASSUME TypeInv, LogFollows, NEW d \in Devices, InStep(d), NEW S, S = Seen(d),
         NEW w \in WireType, OwnNext(d, S, cell[d], w), Best(cell[d], S, cell[d].rec)
  PROVE  /\ w \notin S /\ S \subseteq Logs(log) /\ Family(S \union {w})
         /\ Append(log, w) \in Seq(WireType) /\ Ordered(Append(log, w))
         /\ Logs(Append(log, w)) = Logs(log) \union {w}
         /\ Len(Append(log, w)) = Len(log) + 1
<1>0. log \in Seq(WireType) /\ Ordered(log) /\ Family(S) /\ w.hlc \in Times
  BY WireFields DEF TypeInv, TypeOK, LogFollows, InStep, Holds, Times
<1>1. S \subseteq Logs(log)
  BY DEF Seen, Got, Logs
<1>2. \A v \in Logs(log) : v.hlc.dev = d => v \in S
  BY DEF Seen, Got, Logs
<1>3. \A v \in S : v.hlc # w.hlc
  BY <1>0, TimesOrdered DEF OwnNext
<1>4. \A v \in Logs(log) : v.hlc # w.hlc
  BY <1>2, <1>3 DEF OwnNext
<1>5. w.parent = NoHlc \/ \E v \in S : v.hlc = w.parent
  BY WireFields DEF OwnNext, Best
<1>6. \A h \in w.past : \E v \in S : v.hlc = h /\ v.cause = "EXPLICIT_DELETE"
  BY DEF OwnNext
<1>7. w.cause \in WriteCauses \/ w.cause = "EXPLICIT_DELETE"
  BY DEF OwnNext
<1>8. Family(S \union {w})
  BY <1>0, <1>3, <1>5, <1>6, <1>7 DEF Family
<1>9. w.parent = NoHlc \/ \E v \in Logs(log) : v.hlc = w.parent
  BY <1>1, <1>5
<1>10. \A h \in w.past : \E v \in Logs(log) : v.hlc = h /\ v.cause = "EXPLICIT_DELETE"
  BY <1>1, <1>6
<1>11. /\ Append(log, w) \in Seq(WireType) /\ Ordered(Append(log, w))
       /\ Logs(Append(log, w)) = Logs(log) \union {w}
       /\ Len(Append(log, w)) = Len(log) + 1
  BY <1>0, <1>4, <1>7, <1>9, <1>10, LogGrows
<1> QED BY <1>1, <1>3, <1>8, <1>11

(* What a device publishes is among what it has seen from then on.         *)
LEMMA OwnSeen ==
  ASSUME TypeOK, NEW d \in Devices, NEW w \in WireType, w.hlc.dev = d,
         log' = Append(log, w), UNCHANGED delivered
  PROVE  Seen(d)' = Seen(d) \union {w}
<1>1. /\ Len(log') = Len(log) + 1 /\ Len(log) \in Nat /\ log'[Len(log) + 1] = w
      /\ \A i \in 1..Len(log) : log'[i] = log[i] /\ i \in 1..Len(log')
      /\ Len(log) + 1 \in 1..Len(log')
      /\ \A i \in 1..Len(log') : i \in 1..Len(log) \/ i = Len(log) + 1
  BY DEF TypeOK
<1>2. Got(d)' = Got(d) \union {Len(log) + 1}
  BY <1>1 DEF Got
<1>3. \A i \in Got(d) : log'[i] = log[i]
  BY <1>1 DEF Got
<1>4. Seen(d)' = {log'[i] : i \in Got(d)'}
  BY DEF Seen
<1>5. Seen(d) = {log[i] : i \in Got(d)}
  BY DEF Seen
<1>6. PICK G : G = Got(d)
  OBVIOUS
<1>7. PICK n : n = Len(log) + 1
  OBVIOUS
<1>8. {log'[i] : i \in G \union {n}} = {log'[i] : i \in G} \union {log'[n]}
  OBVIOUS
<1>9. {log'[i] : i \in G} = {log[i] : i \in G}
  BY <1>3, <1>6
<1> QED BY <1>1, <1>2, <1>4, <1>5, <1>6, <1>7, <1>8, <1>9

(* The end of a device's only task.                                        *)
LEMMA RestsAgain ==
  ASSUME TypeInv, TasksInv, NEW d \in Devices, NEW q \in Queues,
         \A p \in Queues : p # q => fiber[d][p] = Idle,
         fiber' = [fiber EXCEPT ![d][q] = Idle]
  PROVE  fiber'[d] = AllIdle /\ \A e \in Devices : e # d => fiber'[e] = fiber[e]
<1>1. Idle \in FiberType /\ Idle.kind = "idle"
  BY IdleKind
<1>2. /\ fiber'[d] = [fiber[d] EXCEPT ![q] = Idle]
      /\ \A e \in Devices : e # d => fiber'[e] = fiber[e]
  BY DEF TypeInv, TypeOK
<1>3. fiber[d] \in [Queues -> FiberType]
  BY DEF TypeInv, TypeOK
<1>4. [fiber[d] EXCEPT ![q] = Idle] = AllIdle
  BY <1>1, <1>3, OneTaskSet
<1> QED BY <1>2, <1>4

(* The clock of a device has reached what it has made.                     *)
LEMMA OwnReached ==
  ASSUME NEW W, Kept(W), NEW d \in Devices, fiber[d]["capture"].kind = "stamped"
  PROVE  ~ClockBefore(clock[d], fiber[d]["capture"].wire.hlc)
BY DEF Kept, GuardInv, DeviceKept, TaskStands, ClockKept

(* What it publishes leaves the log in order.                              *)
LEMMA LogPublished ==
  ASSUME TypeInv, LogFollows, NEW d \in Devices, InStep(d), NEW S, S = Seen(d),
         NEW w \in WireType, OwnNext(d, S, cell[d], w), Best(cell[d], S, cell[d].rec),
         NEW age, \A v \in S : age[v.hlc] \in 1..MaxAncestryWalk,
         \A v, x \in S : v.hlc = x.parent => age[v.hlc] < age[x.hlc],
         log' = Append(log, w)
  PROVE  LogFollows'
<1>1. /\ S \subseteq Logs(log) /\ Append(log, w) \in Seq(WireType)
      /\ Ordered(Append(log, w)) /\ Logs(Append(log, w)) = Logs(log) \union {w}
  BY OwnPublished
<1>2. PICK L : L = Append(log, w)
  OBVIOUS
<1>3. PICK A : A = Logs(log)
  OBVIOUS
<1>4. Logs(L) = A \union {w} /\ Family(Logs(L)) /\ Family(A) /\ S \subseteq A
  BY <1>1, <1>2, <1>3, LogFamily DEF TypeInv, TypeOK, LogFollows
<1>5. ASSUME NEW v \in A PROVE Follows(Logs(L), v)
  <2>1. Follows(A, v)
    BY <1>3 DEF LogFollows
  <2> QED BY <1>4, <2>1, FollowsStays, FamilyMapped
<1>6. Follows(Logs(L), w)
  <2>1. Family(S) /\ Taught(cell[d], S) /\ cell[d] \in CellType
    BY DEF InStep, Holds, TypeInv, TypeOK
  <2>2. /\ w.parent = cell[d].rec.hlc
        /\ \A h \in w.past : \E v \in S : v.hlc = h /\ v.cause = "EXPLICIT_DELETE"
    BY DEF OwnNext
  <2>3. S \subseteq Logs(L)
    BY <1>4
  <2> QED BY <1>4, <2>1, <2>2, <2>3, OwnFollows
<1>7. Ordered(L) /\ \A v \in Logs(L) : Follows(Logs(L), v)
  BY <1>1, <1>2, <1>4, <1>5, <1>6
<1> QED BY <1>2, <1>7 DEF LogFollows

LEMMA LineLocalStore ==
  ASSUME NEW W, Kept(W), InLine, Orderly, NEW d \in Devices, LocalStore(d)
  PROVE  InLine'
<1> DEFINE w == fiber[d]["capture"].wire
           n == Store(Learn(cell[d], w), w, wall[d])
<1>0. /\ TypeInv /\ TasksInv /\ InStep(d) /\ LogFollows /\ Counted
      /\ TypeOK /\ "capture" \in Queues /\ "records" \in Queues
  BY DEF Kept, InLine, TypeInv, Queues
<1>1. /\ fiber[d]["capture"].kind = "stamped" /\ w \in WireType
      /\ fiber[d]["records"] = Idle
      /\ \A p \in Queues : p # "capture" => fiber[d][p] = Idle
  <2>1. fiber[d]["capture"].kind = "stamped"
    BY DEF LocalStore
  <2>2. fiber[d] \in [Queues -> FiberType] /\ OneTask(fiber[d])
    BY <1>0 DEF TypeOK, TasksInv
  <2>3. \A p \in Queues : p # "capture" => fiber[d][p] = Idle
    BY <1>0, <2>1, <2>2, OthersIdle
  <2> QED BY <1>0, <2>1, <2>3 DEF TypeInv, InHand
<1>2. /\ RetryParked(d, "capture", n, clock[d]) /\ PublishOrQueue(d, w)
      /\ known' = [known EXCEPT ![d] = @ \union Explicit(w)]
      /\ UNCHANGED <<jar, wall, online, snap, delivered, made, unapplied>>
  BY DEF LocalStore
<1>3. PICK S : S = Seen(d)
  OBVIOUS
<1>4. Holds(d, S, cell[d], fiber[d], clock[d], known[d]) /\ online[d]
  BY <1>0, <1>3 DEF InStep
<1>5. /\ OwnNext(d, S, cell[d], w) /\ Best(cell[d], S, cell[d].rec) /\ w.hlc.dev = d
  BY <1>1, <1>4, IdleKind DEF Holds, OwnNext
<1>6. ~ClockBefore(clock[d], w.hlc)
  BY <1>1, OwnReached
<1>7. log' = Append(log, w)
  BY <1>2, <1>4 DEF PublishOrQueue
<1>8. /\ clock[d] \in ClockType /\ cell[d] \in CellType /\ wall[d] \in Nat
      /\ clock \in [Devices -> ClockType] /\ cell \in [Devices -> CellType]
      /\ known \in [Devices -> SUBSET HlcType] /\ log \in Seq(WireType)
  BY <1>0 DEF TypeOK
<1> HIDE DEF w
<1>9. /\ w \notin S /\ S \subseteq Logs(log) /\ Family(S \union {w})
      /\ Append(log, w) \in Seq(WireType) /\ Ordered(Append(log, w))
      /\ Logs(Append(log, w)) = Logs(log) \union {w}
      /\ Len(Append(log, w)) = Len(log) + 1
  <2>1. TypeInv /\ LogFollows /\ InStep(d) /\ S = Seen(d)
    BY <1>0, <1>3
  <2>2. w \in WireType /\ OwnNext(d, S, cell[d], w) /\ Best(cell[d], S, cell[d].rec)
    BY <1>1, <1>5
  <2> QED BY <2>1, <2>2, OwnPublished
<1>10. Len(log) + 1 <= MaxVersions /\ Len(log) \in Nat /\ d \in Stamping
  BY <1>0, <1>1, LogBounded DEF Stamping
<1>11. /\ MaxVersions <= MaxAncestryEdges /\ MaxVersions <= MaxAncestryWalk
       /\ MaxVersions \in Nat /\ MaxAncestryEdges \in Nat /\ MaxAncestryWalk \in Nat
  BY ReplicaAssumption, AncestryAssumption DEF Orderly
<1>12. Cardinality(EdgesOf(S \union {w})) <= MaxAncestryEdges
  <2>1. S \union {w} \subseteq Logs(Append(log, w))
    BY <1>9
  <2>2. PICK L : L = Append(log, w)
    OBVIOUS
  <2>3. L \in Seq(WireType) /\ S \union {w} \subseteq Logs(L) /\ Len(L) = Len(log) + 1
    BY <1>9, <2>1, <2>2
  <2>4. /\ Cardinality(EdgesOf(S \union {w})) <= Len(log) + 1
        /\ Cardinality(EdgesOf(S \union {w})) \in Nat
    BY <2>3, EdgesCounted
  <2> QED BY <1>10, <1>11, <2>4
<1>13. PICK age : /\ \A v \in S : age[v.hlc] \in 1..MaxAncestryWalk
                  /\ \A v, x \in S : v.hlc = x.parent => age[v.hlc] < age[x.hlc]
  <2>1. Ordered(log) /\ Len(log) <= MaxAncestryWalk
    BY <1>0, <1>10, <1>11 DEF LogFollows
  <2>2. PICK age : /\ \A v \in Logs(log) : age[v.hlc] \in 1..MaxAncestryWalk
                   /\ \A v, x \in Logs(log) : v.hlc = x.parent => age[v.hlc] < age[x.hlc]
    BY <1>8, <2>1, LogAges
  <2> QED BY <1>9, <2>2
<1>14. /\ RetryFiber(n) = Idle /\ RetryClock(n, clock[d], wall[d]) = clock[d]
       /\ Holds(d, S \union {w}, Retried(n), AllIdle, clock[d], known[d] \union Explicit(w))
  BY <1>1, <1>4, <1>6, <1>8, <1>9, <1>12, <1>13, HoldsStore DEF w
<1> HIDE DEF n
<1>15. /\ cell' = [cell EXCEPT ![d] = Retried(n)] /\ clock' = [clock EXCEPT ![d] = clock[d]]
       /\ fiber' = [fiber EXCEPT ![d]["capture"] = Idle]
  BY <1>2, <1>14 DEF RetryParked
<1>16. fiber'[d] = AllIdle /\ \A e \in Devices : e # d => fiber'[e] = fiber[e]
  BY <1>0, <1>1, <1>15, RestsAgain
<1>17. LogFollows'
  BY <1>0, <1>1, <1>3, <1>5, <1>7, <1>13, LogPublished
<1>18. Counted'
  <2>1. Stamping' = Stamping \ {d}
    BY <1>16, IdleKind DEF Stamping, AllIdle, Queues
  <2>2. /\ IsFiniteSet(Stamping') /\ Cardinality(Stamping') = Cardinality(Stamping) - 1
        /\ Cardinality(Stamping) \in Nat
    BY <1>0, <1>10, <2>1, FS_RemoveElement, FS_CardinalityType DEF Counted
  <2>3. Len(log') = Len(log) + 1 /\ made' = made
    BY <1>2, <1>7, <1>9
  <2>4. made \in Nat
    BY <1>0 DEF TypeOK
  <2> QED BY <1>0, <1>10, <2>2, <2>3, <2>4 DEF Counted
<1>19. ASSUME NEW e \in Devices PROVE InStep(e)'
  <2>1. InStep(e) /\ wall'[e] <= Retention
    BY <1>2 DEF InLine, InStep
  <2>2. CASE e # d
    <3>1. /\ cell'[e] = cell[e] /\ clock'[e] = clock[e] /\ fiber'[e] = fiber[e]
          /\ known'[e] = known[e] /\ delivered'[e] = delivered[e]
          /\ online'[e] = online[e]
      BY <1>2, <1>8, <1>15, <1>16, <2>2
    <3> QED BY <1>0, <1>1, <1>5, <1>7, <2>1, <2>2, <3>1, StepElsewhere
  <2>3. CASE e = d
    <3>1. Seen(d)' = S \union {w}
      BY <1>0, <1>1, <1>2, <1>3, <1>5, <1>7, OwnSeen
    <3>2. /\ cell'[d] = Retried(n) /\ clock'[d] = clock[d]
          /\ known'[d] = known[d] \union Explicit(w)
      BY <1>2, <1>8, <1>15
    <3>3. delivered'[d] \subseteq 1..Len(log')
      BY <1>0, <1>2, <1>7, <1>9, <1>10 DEF InStep
    <3> QED BY <1>0, <1>2, <1>14, <1>16, <2>1, <2>3, <3>1, <3>2, <3>3 DEF InStep
  <2> QED BY <2>2, <2>3
<1> QED BY <1>17, <1>18, <1>19 DEF InLine

(* The next record in order brings its family with it.                     *)
LEMMA NextInOrder ==
  ASSUME TypeOK, LogFollows, InOrder, NEW d \in Devices, NEW S, S = Seen(d), Family(S),
         NEW i \in Deliverable(d)
  PROVE  /\ log[i] \notin S /\ Family(S \union {log[i]}) /\ S \union {log[i]} \subseteq Logs(log)
         /\ i \in 1..Len(log)
<1>0. /\ log \in Seq(WireType) /\ Ordered(log) /\ Len(log) \in Nat
      /\ i \in 1..Len(log) /\ i \notin delivered[d] /\ log[i].hlc.dev # d
  BY DEF TypeOK, LogFollows, Deliverable, Undelivered
<1>1. \A j \in 1..Len(log) : j < i => log[j] \in S
  <2> TAKE j \in 1..Len(log)
  <2> HAVE j < i
  <2>1. j \notin Undelivered(d)
    BY <1>0 DEF Deliverable
  <2>2. j \in Got(d)
    BY <2>1 DEF Undelivered, Got
  <2> QED BY <2>2 DEF Seen
<1>2. \A j \in 1..Len(log) : log[j].hlc = log[i].hlc => j = i
  BY <1>0 DEF Ordered
<1>3. ASSUME NEW v \in S PROVE v.hlc # log[i].hlc /\ v \in Logs(log)
  <2>1. PICK j \in Got(d) : v = log[j]
    BY DEF Seen
  <2>2. j \in 1..Len(log) /\ (j \in delivered[d] \/ log[j].hlc.dev = d)
    BY <2>1 DEF Got
  <2>3. j # i
    BY <1>0, <2>2
  <2> QED BY <1>2, <2>1, <2>2, <2>3 DEF Logs
<1>4. log[i].parent = NoHlc \/ \E v \in S : v.hlc = log[i].parent
  BY <1>0, <1>1 DEF Ordered
<1>5. \A h \in log[i].past : \E v \in S : v.hlc = h /\ v.cause = "EXPLICIT_DELETE"
  BY <1>0, <1>1 DEF Ordered
<1>6. log[i] \in WireType /\ (log[i].cause \in WriteCauses \/ log[i].cause = "EXPLICIT_DELETE")
  BY <1>0 DEF Ordered
<1>7. Family(S \union {log[i]})
  <2>1. PICK w : w = log[i]
    OBVIOUS
  <2>2. Family(S \union {w})
    BY <1>3, <1>4, <1>5, <1>6, <2>1 DEF Family
  <2> QED BY <2>1, <2>2
<1>8. log[i] \in Logs(log)
  BY <1>0 DEF Logs
<1> QED BY <1>0, <1>3, <1>7, <1>8

LEMMA DeliverSees ==
  ASSUME TypeOK, NEW d \in Devices, NEW i \in 1..Len(log), UNCHANGED log,
         delivered' = [delivered EXCEPT ![d] = @ \union {i}]
  PROVE  /\ Seen(d)' = Seen(d) \union {log[i]} /\ delivered'[d] = delivered[d] \union {i}
         /\ \A e \in Devices : e # d => delivered'[e] = delivered[e]
<1>1. /\ delivered'[d] = delivered[d] \union {i}
      /\ \A e \in Devices : e # d => delivered'[e] = delivered[e]
  BY DEF TypeOK
<1>2. Got(d)' = Got(d) \union {i}
  BY <1>1 DEF Got
<1>3. Seen(d)' = {log[j] : j \in Got(d) \union {i}}
  BY <1>2 DEF Seen
<1>4. {log[j] : j \in Got(d) \union {i}} = {log[j] : j \in Got(d)} \union {log[i]}
  OBVIOUS
<1> QED BY <1>1, <1>3, <1>4 DEF Seen

LEMMA LineDeliver ==
  ASSUME NEW W, Kept(W), ClocksClose, InLine, Orderly, NEW d \in Devices, Deliver(d)
  PROVE  InLine'
<1>0. /\ TypeInv /\ TasksInv /\ InStep(d) /\ LogFollows /\ Counted
      /\ TypeOK /\ "capture" \in Queues /\ "records" \in Queues
  BY DEF Kept, InLine, TypeInv, Queues
<1>1. PICK i \in 1..Len(log) :
         /\ log[i] \in WireType /\ i \in Nat /\ i \in Deliverable(d)
         /\ DeliverTaught(d, i)
         /\ DeliverStarts(d, log[i]) \/ DeliverRests(d, log[i])
  BY <1>0, DeliverParts
<1>2. PICK w : w = log[i]
  OBVIOUS
<1> DEFINE m == ClockReceive(clock[d], wall[d], w.hlc)
           l == Learn(cell[d], w)
           p == IF Resolve(l, w) = "blocked" THEN Park(l, w) ELSE l
           f == [kind |-> "applying", wire |-> Winner(l, w), retry |-> TRUE]
<1>3. /\ MayStart(d, "records")
      /\ delivered' = [delivered EXCEPT ![d] = @ \union {i}]
      /\ known'     = [known EXCEPT ![d] = @ \union Explicit(w)]
      /\ UNCHANGED <<jar, wall, online, queue, snap, log, made, unapplied>>
  BY <1>1, <1>2 DEF DeliverTaught
<1>4. /\ clock[d] \in ClockType /\ cell[d] \in CellType /\ wall[d] \in Nat
      /\ clock \in [Devices -> ClockType] /\ cell \in [Devices -> CellType]
      /\ known \in [Devices -> SUBSET HlcType] /\ log \in Seq(WireType)
      /\ fiber \in [Devices -> [Queues -> FiberType]] /\ w \in WireType /\ w.hlc \in HlcType
  BY <1>0, <1>1, <1>2, WireFields DEF TypeOK
<1>5. /\ fiber[d] = AllIdle /\ \A q \in Queues : fiber[d][q] = Idle
  BY <1>0, <1>3, StartsResting, RestingIdle DEF Orderly
<1>6. PICK S : S = Seen(d)
  OBVIOUS
<1>7. Holds(d, S, cell[d], AllIdle, clock[d], known[d]) /\ Family(S)
  BY <1>0, <1>5, <1>6 DEF InStep, Holds
<1>8. w \notin S /\ Family(S \union {w}) /\ S \union {w} \subseteq Logs(log)
  BY <1>0, <1>1, <1>2, <1>6, <1>7, NextInOrder DEF Orderly
<1>9. /\ Seen(d)' = S \union {w} /\ delivered'[d] = delivered[d] \union {i}
      /\ \A e \in Devices : e # d => delivered'[e] = delivered[e]
  BY <1>0, <1>2, <1>3, <1>6, DeliverSees
<1>10. Cardinality(EdgesOf(S \union {w})) <= MaxAncestryEdges
  <2>1. /\ Cardinality(EdgesOf(S \union {w})) <= Len(log)
        /\ Cardinality(EdgesOf(S \union {w})) \in Nat
    BY <1>4, <1>8, EdgesCounted
  <2>2. Len(log) <= MaxVersions /\ Len(log) \in Nat /\ MaxVersions <= MaxAncestryEdges
    BY <1>0, LogBounded DEF Orderly
  <2> QED BY <2>1, <2>2, ReplicaAssumption, AncestryAssumption
<1>11. m \in ClockType /\ ClockBefore(clock[d], m) /\ ~ClockBefore(m, w.hlc)
  <2>1. w.hlc.phys <= wall[d] + MaxClockDrift
    <3>1. w \in W /\ Shows(w.hlc.phys)
      BY <1>1, <1>2 DEF Kept, GuardInv
    <3>2. PICK e \in Devices : w.hlc.phys <= wall[e]
      BY <3>1 DEF Shows
    <3>3. wall[e] <= wall[d] + MaxClockDrift /\ wall[e] \in Nat /\ w.hlc.phys \in Nat
      BY <1>0, <1>4 DEF ClocksClose, TypeOK, HlcType
    <3> QED BY <1>4, <3>2, <3>3, DriftAssumption
  <2> QED BY <1>4, <2>1, ReceiveMoves
<1> HIDE DEF m
<1> DEFINE T == S \union {w}
           L == known[d] \union Explicit(w)
<1>12. /\ l \in CellType /\ Taught(l, T) /\ Abreast(T, m, L)
       /\ Resolve(l, w) = "applied" => Best(l, T, Winner(l, w))
       /\ Resolve(l, w) # "applied" => Best(l, T, l.rec)
  <2>1. PICK c \in CellType : c = cell[d]
    BY <1>4
  <2>2. Holds(d, S, c, AllIdle, clock[d], known[d]) /\ l = Learn(c, w)
    BY <1>7, <2>1
  <2> HIDE DEF l
  <2> QED BY <1>4, <1>8, <1>10, <1>11, <2>2, LearnsBest
<1>13. known'[d] = known[d] \union Explicit(w)
       /\ \A e \in Devices : e # d => known'[e] = known[e]
  BY <1>3, <1>4
<1>14. delivered'[d] \subseteq 1..Len(log)
  BY <1>0, <1>1, <1>9 DEF InStep
<1>15. CASE DeliverStarts(d, log[i])
  <2>1. /\ Resolve(l, w) = "applied"
        /\ cell' = [cell EXCEPT ![d] = l] /\ clock' = [clock EXCEPT ![d] = m]
        /\ fiber' = [fiber EXCEPT ![d]["records"] = f]
    BY <1>2, <1>15 DEF DeliverStarts, m
  <2>2. f.kind = "applying" /\ f.retry /\ f.wire = Winner(l, w)
    OBVIOUS
  <2> HIDE DEF l, p, f
  <2>3. /\ cell'[d] = l /\ clock'[d] = m /\ fiber'[d]["records"] = f
        /\ fiber'[d]["capture"] = fiber[d]["capture"]
        /\ \A e \in Devices : e # d =>
             cell'[e] = cell[e] /\ clock'[e] = clock[e] /\ fiber'[e] = fiber[e]
    BY <1>0, <1>4, <2>1
  <2>4. PICK F : F = fiber'[d]
    OBVIOUS
  <2>5. Holds(d, S \union {w}, l, F, m, known[d] \union Explicit(w))
    <3>1. /\ F["capture"] = Idle /\ F["records"].kind = "applying"
          /\ F["records"].retry /\ F["records"].wire = Winner(l, w)
      BY <1>0, <1>5, <2>2, <2>3, <2>4
    <3>2. Best(l, T, Winner(l, w)) /\ Family(T)
      BY <1>8, <1>12, <2>1
    <3> HIDE DEF T, L
    <3>3. Holds(d, T, l, F, m, L)
      BY <1>12, <3>1, <3>2, HoldsStart
    <3> QED BY <3>3 DEF T, L
  <2>6. Holds(d, Seen(d)', cell'[d], fiber'[d], clock'[d], known'[d])
    BY <1>9, <1>13, <2>3, <2>4, <2>5
  <2> QED BY <1>0, <1>3, <1>9, <1>13, <1>14, <2>3, <2>6, LineStays
<1>16. CASE DeliverRests(d, log[i])
  <2>1. Resolve(l, w) # "applied" /\ RetryParked(d, "records", p, m)
    BY <1>2, <1>16 DEF DeliverRests, m
  <2> HIDE DEF l, p, f
  <2>0. /\ RetryFiber(p) = Idle /\ RetryClock(p, m, wall[d]) = m
        /\ Holds(d, T, Retried(p), AllIdle, m, L)
    <3>1. /\ w \in T /\ Best(l, T, l.rec) /\ w \in WireType
          /\ l \in CellType /\ Taught(l, T)
      BY <1>4, <1>12, <2>1
    <3>2. p \in CellType /\ Taught(p, T) /\ Best(p, T, p.rec)
      <4>1. PICK c, Z : c = l /\ Z = T
        BY <3>1
      <4> HIDE DEF T
      <4>2. /\ c \in CellType /\ w \in Z /\ Best(c, Z, c.rec) /\ w \in WireType
            /\ Taught(c, Z)
        BY <3>1, <4>1
      <4> QED BY <4>1, <4>2, TurnedDownBest DEF p
    <3>3. PICK c, u, n, Z, K :
            c = p /\ u = m /\ n = wall[d] /\ Z = T /\ K = L
      BY <3>2
    <3>4. Abreast(T, m, L) /\ Family(T)
      BY <1>8, <1>12
    <3> HIDE DEF T, L
    <3>5. /\ c \in CellType /\ Family(Z) /\ Taught(c, Z) /\ Best(c, Z, c.rec)
          /\ Abreast(Z, u, K)
      BY <3>2, <3>3, <3>4
    <3>6. RetryFiber(c) = Idle /\ RetryClock(c, u, n) = u
      BY <3>5, RetryRests
    <3>7. Holds(d, Z, Retried(c), AllIdle, u, K)
      BY <3>5, HoldsRest
    <3> QED BY <3>3, <3>6, <3>7
  <2>2. /\ cell' = [cell EXCEPT ![d] = Retried(p)] /\ clock' = [clock EXCEPT ![d] = m]
        /\ fiber' = [fiber EXCEPT ![d]["records"] = Idle]
    BY <2>0, <2>1 DEF RetryParked
  <2>3. fiber'[d] = AllIdle /\ \A e \in Devices : e # d => fiber'[e] = fiber[e]
    BY <1>0, <1>5, <2>2, RestsAgain
  <2>4. /\ cell'[d] = Retried(p) /\ clock'[d] = m
        /\ \A e \in Devices : e # d => cell'[e] = cell[e] /\ clock'[e] = clock[e]
    BY <1>4, <2>2
  <2>5. Holds(d, Seen(d)', cell'[d], fiber'[d], clock'[d], known'[d])
    BY <1>9, <1>13, <2>0, <2>3, <2>4
  <2>6. fiber'[d]["capture"] = fiber[d]["capture"]
    BY <1>5, <2>3
  <2> QED BY <1>0, <1>3, <1>9, <1>13, <1>14, <2>3, <2>4, <2>5, <2>6, LineStays
<1> QED BY <1>1, <1>15, <1>16

LEMMA LineApplyDone ==
  ASSUME TypeInv, TasksInv, InLine, NEW d \in Devices, NEW q \in Queues, ApplyDone(d, q)
  PROVE  InLine'
<1> DEFINE f == fiber[d]["records"]
           n == Store(cell[d], f.wire, wall[d])
<1>0. /\ InStep(d) /\ TypeOK /\ "capture" \in Queues /\ "records" \in Queues
      /\ fiber \in [Devices -> [Queues -> FiberType]] /\ fiber[d] \in [Queues -> FiberType]
      /\ OneTask(fiber[d])
  BY DEF InLine, TypeInv, TypeOK, TasksInv, Queues
<1>1. PICK S : S = Seen(d)
  OBVIOUS
<1>2. Holds(d, S, cell[d], fiber[d], clock[d], known[d]) /\ delivered[d] \subseteq 1..Len(log)
  BY <1>0, <1>1 DEF InStep
<1>3. q = "records" /\ f.kind = "applying" /\ f.retry
  BY <1>2 DEF ApplyDone, Holds, Queues
<1>4. \A p \in Queues : p # "records" => fiber[d][p] = Idle
  BY <1>0, <1>3, OthersIdle, IdleKind
<1>5. /\ f.wire \in WireType /\ cell[d] \in CellType /\ wall[d] \in Nat
      /\ cell \in [Devices -> CellType] /\ clock \in [Devices -> ClockType]
  BY <1>0, <1>3 DEF TypeInv, InHand, TypeOK
<1>6. /\ RetryParked(d, "records", n, clock[d])
      /\ UNCHANGED <<wall, online, queue, snap, log, delivered, made, known, unapplied>>
  BY <1>3 DEF ApplyDone
<1>7. /\ RetryFiber(n) = Idle /\ RetryClock(n, clock[d], wall[d]) = clock[d]
      /\ Holds(d, S, Retried(n), AllIdle, clock[d], known[d])
  BY <1>2, <1>3, <1>5, HoldsApply
<1> HIDE DEF n, f
<1>8. /\ cell' = [cell EXCEPT ![d] = Retried(n)]
      /\ clock' = [clock EXCEPT ![d] = clock[d]]
      /\ fiber' = [fiber EXCEPT ![d]["records"] = Idle]
  BY <1>6, <1>7 DEF RetryParked
<1>9. fiber'[d] = AllIdle /\ \A e \in Devices : e # d => fiber'[e] = fiber[e]
  BY <1>0, <1>4, <1>8, RestsAgain
<1>10. /\ cell'[d] = Retried(n) /\ clock'[d] = clock[d] /\ known'[d] = known[d]
       /\ \A e \in Devices : e # d =>
            /\ cell'[e] = cell[e] /\ clock'[e] = clock[e]
            /\ known'[e] = known[e] /\ delivered'[e] = delivered[e]
  BY <1>5, <1>6, <1>8
<1>11. Seen(d)' = S
  BY <1>1, <1>6, SeenStays
<1>12. Holds(d, Seen(d)', cell'[d], fiber'[d], clock'[d], known'[d])
  BY <1>7, <1>9, <1>10, <1>11
<1>13. fiber'[d]["capture"] = fiber[d]["capture"]
  BY <1>0, <1>4, <1>9 DEF AllIdle
<1> QED BY <1>0, <1>2, <1>6, <1>9, <1>10, <1>12, <1>13, LineStays

LEMMA LineInit ==
  ASSUME Init, Orderly
  PROVE  InLine
<1>1. log = <<>> /\ Len(log) = 0 /\ 1..Len(log) = {}
  BY DEF Init
<1>2. Logs(log) = {} /\ Ordered(log)
  BY <1>1 DEF Logs, Ordered
<1>3. Stamping = {}
  BY IdleKind DEF Stamping, Init, Queues
<1>4. Counted
  BY <1>1, <1>3, FS_EmptySet, ReplicaAssumption DEF Counted, Init
<1>5. ASSUME NEW d \in Devices PROVE InStep(d)
  <2>1. Seen(d) = {}
    BY <1>1 DEF Seen, Got
  <2>2. /\ cell[d] = EmptyCell /\ fiber[d] = AllIdle /\ known[d] = {} /\ delivered[d] = {}
        /\ online[d] /\ wall[d] = 1
    BY DEF Init, AllIdle
  <2>3. Family({}) /\ EdgesOf({}) = {}
    BY DEF Family, EdgesOf
  <2>4. Taught(EmptyCell, {}) /\ Best(EmptyCell, {}, EmptyCell.rec) /\ EmptyCell.parked = NoWire
    BY <2>3 DEF Taught, Best, EmptyCell, NoWire
  <2>5. Abreast({}, clock[d], {})
    BY DEF Abreast
  <2>6. AllIdle["capture"].kind = "idle" /\ AllIdle["records"].kind = "idle"
    BY IdleKind DEF AllIdle, Queues
  <2>7. PICK S, K : S = {} /\ K = {}
    OBVIOUS
  <2>8. Holds(d, S, EmptyCell, AllIdle, clock[d], K)
    BY <2>3, <2>4, <2>5, <2>6, <2>7 DEF Holds
  <2>9. 1 <= Retention
    BY ReplicaAssumption DEF Orderly
  <2> QED BY <2>1, <2>2, <2>7, <2>8, <2>9 DEF InStep
<1> QED BY <1>2, <1>4, <1>5 DEF InLine, LogFollows

(* Reissuing a record is making and storing one in a single step.          *)
LEMMA LineRollback ==
  ASSUME NEW W, Kept(W), InLine, Orderly, NEW d \in Devices, Rollback(d)
  PROVE  InLine'
<1>0. /\ TypeInv /\ TasksInv /\ InStep(d) /\ LogFollows /\ Counted
      /\ TypeOK /\ "capture" \in Queues /\ "records" \in Queues
  BY DEF Kept, InLine, TypeInv, Queues
<1>1. PICK cause \in {"WRITE", "EXPLICIT_DELETE"} :
         LET c == ClockSend(clock[d], wall[d])
             w == NewWire(d, c, cause) IN
         /\ Resting(d) /\ made < MaxVersions
         /\ clock' = [clock EXCEPT ![d] = c]
         /\ cell'  = [cell EXCEPT ![d] = Reissued(@, w, wall[d])]
         /\ known' = [known EXCEPT ![d] = @ \union Explicit(w)]
         /\ made'  = made + 1
         /\ PublishOrQueue(d, w)
         /\ UNCHANGED <<wall, fiber, online, delivered>>
  <2>1. PICK refused \in {FALSE, MayFail} :
           LET old == snap[d].rec
               c   == ClockSend(clock[d], wall[d])
               w   == NewWire(d, c, IF Live(old) THEN "WRITE" ELSE "EXPLICIT_DELETE") IN
           /\ Resting(d) /\ made < MaxVersions
           /\ clock' = [clock EXCEPT ![d] = c]
           /\ cell'  = [cell EXCEPT ![d] = Reissued(@, w, wall[d])]
           /\ known' = [known EXCEPT ![d] = @ \union Explicit(w)]
           /\ made'  = made + 1
           /\ ~refused => PublishOrQueue(d, w)
           /\ UNCHANGED <<wall, fiber, online, delivered>>
    BY DEF Rollback
  <2>2. ~refused
    BY <2>1 DEF Orderly
  <2>3. PICK cause : cause = IF Live(snap[d].rec) THEN "WRITE" ELSE "EXPLICIT_DELETE"
    OBVIOUS
  <2>4. cause \in {"WRITE", "EXPLICIT_DELETE"}
    BY <2>3
  <2> QED BY <2>1, <2>2, <2>3, <2>4
<1> DEFINE c == ClockSend(clock[d], wall[d])
           w == NewWire(d, c, cause)
           f == [kind |-> "stamped", wire |-> w, retry |-> FALSE]
           F == [AllIdle EXCEPT !["capture"] = f]
           n == Store(Learn(cell[d], w), w, wall[d])
<1>2. cause \in Causes /\ (cause \in WriteCauses \/ cause = "EXPLICIT_DELETE")
  BY DEF WriteCauses, Causes, DeletionCauses
<1>3. /\ clock[d] \in ClockType /\ wall[d] \in Nat /\ d \in Nat /\ cell[d] \in CellType
      /\ cell \in [Devices -> CellType] /\ clock \in [Devices -> ClockType]
      /\ known \in [Devices -> SUBSET HlcType] /\ log \in Seq(WireType)
      /\ made \in Nat /\ MaxVersions \in Nat
  BY <1>0, ReplicaAssumption DEF TypeOK
<1>4. /\ c \in ClockType /\ ClockBefore(clock[d], c) /\ Stamp(c, d).dev = d
      /\ ~ClockBefore(c, Stamp(c, d))
      /\ \A h \in HlcType : ~ClockBefore(clock[d], h) => Before(h, Stamp(c, d))
  BY <1>3, SendMoves DEF ClockBefore, Stamp, ClockType
<1>5. /\ Resting(d) /\ made < MaxVersions /\ made' = made + 1
      /\ clock' = [clock EXCEPT ![d] = c] /\ cell' = [cell EXCEPT ![d] = n]
      /\ known' = [known EXCEPT ![d] = @ \union Explicit(w)]
      /\ PublishOrQueue(d, w) /\ UNCHANGED <<wall, fiber, online, delivered>>
  BY <1>1 DEF Reissued
<1> HIDE DEF c
<1>6. /\ w.hlc = Stamp(c, d) /\ w.parent = cell[d].rec.hlc /\ w.cause = cause
      /\ w.past = known[d] \union cell[d].rec.past /\ w \in WireType
  BY <1>0, <1>2, <1>4, NewWireType DEF TypeInv
<1> HIDE DEF w
<1>7. PICK S : S = Seen(d)
  OBVIOUS
<1>8. fiber[d] = AllIdle /\ fiber'[d] = AllIdle
  BY <1>0, <1>5, RestingIdle
<1>9. Holds(d, S, cell[d], AllIdle, clock[d], known[d]) /\ online[d]
  BY <1>0, <1>7, <1>8 DEF InStep
<1>10. /\ F["records"] = Idle /\ F["capture"].kind = "stamped" /\ F["capture"].wire = w
       /\ Idle.kind = "idle"
  BY IdleKind DEF AllIdle, Queues
<1> HIDE DEF F, f
<1>11. /\ w.hlc.dev = d /\ (w.cause \in WriteCauses \/ w.cause = "EXPLICIT_DELETE")
       /\ ~ClockBefore(c, w.hlc)
       /\ \A h \in HlcType : ~ClockBefore(clock[d], h) => Before(h, w.hlc)
  BY <1>2, <1>4, <1>6
<1>12. Holds(d, S, cell[d], F, c, known[d])
  BY <1>3, <1>4, <1>6, <1>9, <1>10, <1>11, HoldsStamp
<1>13. OwnNext(d, S, cell[d], w) /\ Best(cell[d], S, cell[d].rec)
  BY <1>10, <1>12 DEF Holds
<1>14. log' = Append(log, w)
  BY <1>5, <1>9 DEF PublishOrQueue
<1>15. /\ w \notin S /\ S \subseteq Logs(log) /\ Family(S \union {w})
       /\ Append(log, w) \in Seq(WireType) /\ Ordered(Append(log, w))
       /\ Logs(Append(log, w)) = Logs(log) \union {w}
       /\ Len(Append(log, w)) = Len(log) + 1
  <2>1. TypeInv /\ LogFollows /\ InStep(d) /\ S = Seen(d)
    BY <1>0, <1>7
  <2>2. w \in WireType /\ OwnNext(d, S, cell[d], w) /\ Best(cell[d], S, cell[d].rec)
    BY <1>6, <1>13
  <2> QED BY <2>1, <2>2, OwnPublished
<1>16. Len(log) + 1 <= MaxVersions /\ Len(log) \in Nat /\ Cardinality(Stamping) \in Nat
  BY <1>0, <1>3, <1>5, FS_CardinalityType DEF Counted
<1>17. /\ MaxVersions <= MaxAncestryEdges /\ MaxVersions <= MaxAncestryWalk
       /\ MaxVersions \in Nat /\ MaxAncestryEdges \in Nat /\ MaxAncestryWalk \in Nat
  BY ReplicaAssumption, AncestryAssumption DEF Orderly
<1>18. Cardinality(EdgesOf(S \union {w})) <= MaxAncestryEdges
  <2>1. S \union {w} \subseteq Logs(Append(log, w))
    BY <1>15
  <2>2. PICK L : L = Append(log, w)
    OBVIOUS
  <2>3. L \in Seq(WireType) /\ S \union {w} \subseteq Logs(L) /\ Len(L) = Len(log) + 1
    BY <1>15, <2>1, <2>2
  <2>4. /\ Cardinality(EdgesOf(S \union {w})) <= Len(log) + 1
        /\ Cardinality(EdgesOf(S \union {w})) \in Nat
    BY <2>3, EdgesCounted
  <2> QED BY <1>16, <1>17, <2>4
<1>19. PICK age : /\ \A v \in S : age[v.hlc] \in 1..MaxAncestryWalk
                  /\ \A v, x \in S : v.hlc = x.parent => age[v.hlc] < age[x.hlc]
  <2>1. Ordered(log) /\ Len(log) <= MaxAncestryWalk
    BY <1>0, <1>16, <1>17 DEF LogFollows
  <2>2. PICK age : /\ \A v \in Logs(log) : age[v.hlc] \in 1..MaxAncestryWalk
                   /\ \A v, x \in Logs(log) : v.hlc = x.parent => age[v.hlc] < age[x.hlc]
    BY <1>3, <2>1, LogAges
  <2> QED BY <1>15, <2>2
<1>20. \/ cell[d].parked = NoWire \/ Blocked(cell[d], cell[d].parked)
       \/ cell[d].fence \notin cell[d].parked.past
  BY <1>9 DEF Holds
<1>21. Holds(d, S \union {w}, n, AllIdle, c, known[d] \union Explicit(w))
  BY <1>3, <1>4, <1>10, <1>11, <1>12, <1>15, <1>18, <1>19, <1>20, HoldsReissue
<1> HIDE DEF n
<1>22. LogFollows'
  BY <1>0, <1>6, <1>7, <1>13, <1>14, <1>19, LogPublished
<1>23. Counted'
  <2>1. Stamping' = Stamping /\ Len(log') = Len(log) + 1
    BY <1>5, <1>14, <1>15 DEF Stamping
  <2> QED BY <1>0, <1>3, <1>5, <1>16, <2>1 DEF Counted
<1>24. ASSUME NEW e \in Devices PROVE InStep(e)'
  <2>1. InStep(e) /\ wall'[e] <= Retention
    BY <1>5 DEF InLine, InStep
  <2>2. CASE e # d
    <3>1. /\ cell'[e] = cell[e] /\ clock'[e] = clock[e] /\ fiber'[e] = fiber[e]
          /\ known'[e] = known[e] /\ delivered'[e] = delivered[e]
          /\ online'[e] = online[e]
      BY <1>3, <1>5, <2>2
    <3> QED BY <1>0, <1>6, <1>11, <1>14, <2>1, <2>2, <3>1, StepElsewhere
  <2>3. CASE e = d
    <3>1. Seen(d)' = S \union {w}
      BY <1>0, <1>5, <1>6, <1>7, <1>11, <1>14, OwnSeen
    <3>2. /\ cell'[d] = n /\ clock'[d] = c
          /\ known'[d] = known[d] \union Explicit(w)
      BY <1>3, <1>5
    <3>3. delivered'[d] \subseteq 1..Len(log')
      BY <1>0, <1>5, <1>14, <1>15, <1>16 DEF InStep
    <3> QED BY <1>0, <1>5, <1>8, <1>21, <2>1, <2>3, <3>1, <3>2, <3>3 DEF InStep
  <2> QED BY <2>2, <2>3
<1> QED BY <1>22, <1>23, <1>24 DEF InLine

(* No other step is taken in such a run, and each keeps the line.          *)
LEMMA LineStep ==
  ASSUME NEW W, Kept(W), ClocksClose, InLine, Orderly, [Next]_vars
  PROVE  InLine'
<1>0. TypeInv /\ TasksInv
  BY DEF Kept
<1>1. CASE UNCHANGED vars
  BY <1>1 DEF InLine, LogFollows, Counted, Stamping, InStep, Seen, Got, vars
<1>2. CASE Next
  <2>1. PICK d \in Devices :
           \/ Tick(d) \/ LocalStamp(d) \/ LocalStore(d) \/ Deliver(d)
           \/ \E q \in Queues : ApplyDone(d, q) \/ ApplyFails(d, q)
           \/ GoOffline(d) \/ GoOnline(d)
           \/ Snapshot(d) \/ Rollback(d) \/ Gc(d)
    BY <1>2 DEF Next
  <2>2. online[d] /\ wall[d] <= Retention
    BY DEF InLine, InStep
  <2>3. ~Gc(d)
    <3>1. cell[d] \in CellType /\ wall[d] \in Nat /\ Retention \in Nat
      BY <1>0, ReplicaAssumption DEF TypeInv, TypeOK
    <3>2. cell[d].at \in Nat
      BY <3>1 DEF CellType
    <3> QED BY <2>2, <3>1, <3>2 DEF Gc, Collectable
  <2>4. CASE Tick(d)
    BY <1>0, <2>4, LineTick
  <2>5. CASE LocalStamp(d)
    BY <1>0, <2>5, LineLocalStamp
  <2>6. CASE LocalStore(d)
    BY <2>6, LineLocalStore
  <2>7. CASE Deliver(d)
    BY <2>7, LineDeliver
  <2>8. CASE \E q \in Queues : ApplyDone(d, q)
    BY <1>0, <2>8, LineApplyDone
  <2>9. CASE Snapshot(d)
    BY <2>9 DEF Snapshot, InLine, LogFollows, Counted, Stamping, InStep, Seen, Got
  <2>10. CASE Rollback(d)
    BY <2>10, LineRollback
  <2>11. ~GoOnline(d) /\ ~GoOffline(d) /\ \A q \in Queues : ~ApplyFails(d, q)
    BY <2>2 DEF Orderly, GoOnline, GoOffline, ApplyFails
  <2> QED BY <2>1, <2>3, <2>4, <2>5, <2>6, <2>7, <2>8, <2>9, <2>10, <2>11
<1> QED BY <1>1, <1>2

(* Replicas taught the same records have the same fence and best record.   *)
LEMMA SameTaughtSameBest ==
  ASSUME NEW S, Family(S), NEW c \in CellType, NEW e \in CellType,
         Taught(c, S), Taught(e, S), Best(c, S, c.rec), Best(e, S, e.rec)
  PROVE  c.rec = e.rec
<1>1. \A w \in S : w \in WireType /\ w.hlc \in HlcType
  BY WireFields DEF Family
<1>2. \A x, y \in CellType : Taught(x, S) /\ Taught(y, S) => AtMost(x.fence, y.fence)
  <2> SUFFICES ASSUME NEW x \in CellType, NEW y \in CellType, Taught(x, S), Taught(y, S)
               PROVE  AtMost(x.fence, y.fence)
    OBVIOUS
  <2>1. x.fence \in Times /\ y.fence \in Times
    BY DEF CellType, Times
  <2>2. CASE x.tomb = NoWire
    BY <2>1, <2>2, TimesOrdered, WireFields DEF Taught, AtMost, Times
  <2>3. CASE x.tomb \in S /\ IsDeletion(x.tomb)
    BY <2>3 DEF Taught
  <2> QED BY <2>2, <2>3 DEF Taught
<1>3. c.fence = e.fence
  <2>1. c.fence \in Times /\ e.fence \in Times
    BY DEF CellType, Times
  <2>2. AtMost(c.fence, e.fence) /\ AtMost(e.fence, c.fence)
    BY <1>2
  <2> QED BY <2>1, <2>2, TimesOrdered DEF AtMost
<1>4. e.edges = c.edges
  BY DEF Taught
<1>5. Best(c, S, e.rec)
  BY <1>3, <1>4, BestAlike
<1>6. CASE S = {}
  BY <1>5, <1>6 DEF Best
<1>7. CASE S # {}
  <2>1. /\ c.rec \in S /\ e.rec \in S
        /\ AtMost(c.rec.hlc, e.rec.hlc) /\ AtMost(e.rec.hlc, c.rec.hlc)
    BY <1>5, <1>7 DEF Best
  <2>2. c.rec.hlc \in Times /\ e.rec.hlc \in Times
    BY <1>1, <2>1 DEF Times
  <2>3. c.rec.hlc = e.rec.hlc
    BY <2>1, <2>2, TimesOrdered DEF AtMost
  <2> QED BY <2>1, <2>3 DEF Family
<1> QED BY <1>6, <1>7

(* When everything is delivered, a replica has seen the whole log.         *)
LEMMA QuietSees ==
  ASSUME TypeOK, InLine, Quiescent, NEW d \in Devices
  PROVE  /\ Seen(d) = Logs(log) /\ fiber[d] = AllIdle
         /\ Holds(d, Logs(log), cell[d], AllIdle, clock[d], known[d])
<1>1. fiber[d] = AllIdle /\ Undelivered(d) = {}
  BY RestingIdle DEF Quiescent
<1>2. Got(d) = 1..Len(log)
  BY <1>1 DEF Got, Undelivered
<1>3. Seen(d) = Logs(log)
  BY <1>2 DEF Seen, Logs
<1>4. Holds(d, Seen(d), cell[d], fiber[d], clock[d], known[d])
  BY DEF InLine, InStep
<1> QED BY <1>1, <1>3, <1>4

LEMMA LineConverges ==
  ASSUME TypeOK, InLine
  PROVE  Convergence /\ PostLogoutChainConverges
<1> SUFFICES ASSUME Quiescent
             PROVE  /\ \A d, e \in Devices : cell[d].rec = cell[e].rec
                    /\ \A d \in Devices : cell[d].parked # NoWire =>
                          cell[d].fence \notin cell[d].parked.past
  BY DEF Convergence, PostLogoutChainConverges
<1>1. PICK S : S = Logs(log)
  OBVIOUS
<1>2. ASSUME NEW d \in Devices
      PROVE  /\ Family(S) /\ Taught(cell[d], S) /\ cell[d] \in CellType
             /\ Best(cell[d], S, cell[d].rec)
             /\ \/ cell[d].parked = NoWire \/ Blocked(cell[d], cell[d].parked)
                \/ cell[d].fence \notin cell[d].parked.past
  <2>1. Holds(d, S, cell[d], AllIdle, clock[d], known[d])
    BY <1>1, QuietSees
  <2>2. AllIdle["records"].kind = "idle"
    BY IdleKind DEF AllIdle, Queues
  <2>3. cell[d] \in CellType
    BY DEF TypeOK
  <2> QED BY <2>1, <2>2, <2>3 DEF Holds
<1>3. ASSUME NEW d \in Devices, NEW e \in Devices PROVE cell[d].rec = cell[e].rec
  BY <1>2, SameTaughtSameBest
<1>4. ASSUME NEW d \in Devices, cell[d].parked # NoWire,
             cell[d].fence \in cell[d].parked.past
      PROVE  FALSE
  <2>1. PICK c, p : c = cell[d] /\ p = cell[d].parked
    OBVIOUS
  <2>2. /\ c \in CellType /\ Family(S) /\ Taught(c, S) /\ Blocked(c, p)
        /\ p \in S /\ c.fence \in p.past
    BY <1>2, <1>4, <2>1 DEF Taught
  <2>3. Follows(S, p)
    BY <1>1, <2>2 DEF InLine, LogFollows
  <2>4. PICK v \in S : /\ v.cause = "EXPLICIT_DELETE"
                       /\ \A h \in p.past : AtMost(h, v.hlc)
                       /\ Descends(EdgesOf(S), p.parent, v.hlc)
    BY <2>2, <2>3 DEF Follows
  <2>5. AtMost(v.hlc, c.fence) /\ AtMost(c.fence, v.hlc)
    BY <2>2, <2>4 DEF Taught, IsDeletion, DeletionCauses
  <2>6. v.hlc \in Times /\ c.fence \in Times
    BY <2>2, WireFields DEF Family, CellType, Times
  <2>7. v.hlc = c.fence
    BY <2>5, <2>6, TimesOrdered DEF AtMost
  <2>8. Descends(c.edges, p.parent, c.fence)
    BY <2>2, <2>4, <2>7 DEF Taught
  <2> QED BY <2>2, <2>8 DEF Blocked
<1> QED BY <1>3, <1>4

LEMMA LineAlways ==
  ASSUME Orderly
  PROVE  Spec /\ []ClocksClose => [](Convergence /\ PostLogoutChainConverges)
<1> DEFINE I == InLine /\ \E W : Kept(W)
<1>0. ~Overlap
  BY DEF Orderly
<1>1. Init => I
  BY TypeInit, TasksInit, GuardInit, LineInit DEF Kept
<1>2. I /\ ClocksClose /\ [Next]_vars => I'
  <2> SUFFICES ASSUME I, ClocksClose, [Next]_vars PROVE I'
    OBVIOUS
  <2>1. PICK W : Kept(W)
    OBVIOUS
  <2>2. \E V : Kept(V)'
    BY <1>0, <2>1, GuardStep
  <2>3. InLine'
    BY <2>1, LineStep
  <2> QED BY <2>2, <2>3
<1>3. I => Convergence /\ PostLogoutChainConverges
  BY LineConverges DEF Kept, TypeInv
<1> HIDE DEF I
<1> QED BY <1>1, <1>2, <1>3, PTL DEF Spec

(* Convergence: in an orderly run, replicas that were handed every record  *)
(* published and have no task left show the same one, the newest that no   *)
(* fence blocks: resolve(), the fence of ingest and retryParked choose     *)
(* alike whatever the replicas made themselves meanwhile.                  *)
THEOREM ConvergenceAlways ==
  ASSUME Orderly
  PROVE  Spec /\ []ClocksClose => []Convergence
BY LineAlways, PTL

(* And no write stays parked at the end of one whose writer knew of the    *)
(* deletion that fences it: what a device writes after a logout descends   *)
(* from the logout, through parents every replica has learned.             *)
THEOREM PostLogoutChainConvergesAlways ==
  ASSUME Orderly
  PROVE  Spec /\ []ClocksClose => []PostLogoutChainConverges
BY LineAlways, PTL

(* Both, where wall clocks start together and end before the drift bound:  *)
(* the run that checks them is one such instance.                          *)
THEOREM ConvergenceWithinADay ==
  ASSUME Orderly, MaxTime <= MaxClockDrift + 1
  PROVE  Spec => []Convergence /\ []PostLogoutChainConverges
<1>1. Spec => []ClocksClose
  BY ClocksStayClose
<1>2. Spec /\ []ClocksClose => [](Convergence /\ PostLogoutChainConverges)
  BY LineAlways
<1> QED BY <1>1, <1>2, PTL
=============================================================================
