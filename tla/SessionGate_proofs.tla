------------------------- MODULE SessionGate_proofs -------------------------
(***************************************************************************)
(* The navigation gate and the record queue of one space, for any cookies: *)
(* no tab loads before what arrived is written, no delivered record is     *)
(* dropped on its way, and a hydration that is declared through is whole.  *)
(*                                                                         *)
(* The three rest on one inductive invariant.  Its heart is FinishCovered: *)
(* a finishHydration waits for a queue whose last item carries all that    *)
(* the hub had sent, so that the one write whose refusal a new connection  *)
(* could make forgotten (Connect resets the error) is the one after which  *)
(* finishHydration runs in the same turn.                                  *)
(***************************************************************************)
EXTENDS SessionGate, FiniteSetTheorems, WellFoundedInduction, TLAPS

(* Version by version, r is no newer than q.                               *)
Under(r, q) == \A c \in Cookies : r[c] <= q[c]

(* Every version anyone has in hand was issued.                            *)
IsIssued(r) == \A c \in Cookies : r[c] <= peers.ver
VersionsIssued ==
  /\ IsIssued(space.recs) /\ IsIssued(space.staged) /\ IsIssued(space.sync.recs) /\ IsIssued(peers.hub)
  /\ \A i \in DOMAIN space.queue : IsIssued(space.queue[i].recs)
  /\ \A i \in DOMAIN link.frames : IsIssued(link.frames[i].recs)

(* What is staged, pulled or queued as live came after the first hydration. *)
FirstComesFirst ==
  ~space.once => /\ space.staged = NoVersions /\ space.sync.recs = NoVersions
                 /\ space.sync.step # "pull"
                 /\ \A i \in DOMAIN space.queue : space.queue[i].kind = "apply"

(* Items of the first hydration are queued with ascending epochs.          *)
EpochsAscend ==
  \A i \in DOMAIN space.queue : space.queue[i].kind = "apply" =>
    /\ space.queue[i].epoch <= space.epoch
    /\ \A j \in DOMAIN space.queue :
         j > i /\ space.queue[j].kind = "apply" => space.queue[i].epoch < space.queue[j].epoch

(* A record being pulled is still staged, or something as new was applied. *)
PulledIsKnown ==
  \A c \in Cookies : space.sync.recs[c] <= space.staged[c] \/ space.sync.recs[c] <= space.recs[c]

(* ReceivedIsKept without its maximum, which a Pull under way cannot raise. *)
KeptSomewhere ==
  \A c \in Cookies \ link.dropped :
    \/ link.got[c] <= space.recs[c] \/ link.got[c] <= space.staged[c]
    \/ \E i \in DOMAIN space.queue : link.got[c] <= space.queue[i].recs[c]

(* What comes down a socket is what the hub holds, or held.                *)
FramesFromHub ==
  /\ Under(link.got, peers.hub)
  /\ \A i \in DOMAIN link.frames : Under(link.frames[i].recs, peers.hub)

(* All that this connection has delivered is the last item queued, or has  *)
(* been written or refused.                                                *)
GotIsLast ==
  \/ space.queue # <<>> /\ Under(link.got, space.queue[Len(space.queue)].recs)
  \/ space.queue = <<>> /\ (Under(link.got, space.recs) \/ space.err)

(* hydrate.done comes once, right behind the frame that holds all the hub  *)
(* had.                                                                    *)
DoneCovered ==
  \A p \in DOMAIN link.frames : link.frames[p].t = "done" =>
    /\ ~link.asked /\ link.up /\ link.frames[p].recs = NoVersions
    /\ \A q \in DOMAIN link.frames : link.frames[q].t = "done" => q = p
    /\ p > 1 => /\ Under(link.got, link.frames[p - 1].recs)
                /\ \A q \in 1..(p - 1) : Under(link.frames[q].recs, link.frames[p - 1].recs)
    /\ p = 1 /\ ~space.once => GotIsLast

(* The last item that a finishHydration waits for carries what it owes;    *)
(* when that has run, what it owes is written or the error is noted.       *)
FinishCovered ==
  ~space.once =>
    \A i \in DOMAIN space.finishing :
      LET f == space.finishing[i] IN
      /\ f.wait <= Len(space.queue)
      /\ f.step = "queue" /\ f.wait > 0 => Under(f.due, space.queue[f.wait].recs)
      /\ f.step = "queue" /\ f.wait = 0 => Under(f.due, space.recs) \/ space.err
      /\ f.step = "seed" => Under(f.due, space.recs)

GInv == /\ GateTypeOK /\ VersionsIssued /\ FirstComesFirst /\ EpochsAscend
        /\ GateMeansApplied /\ PulledIsKnown /\ KeptSomewhere
        /\ FramesFromHub /\ DoneCovered /\ FinishCovered

----------------------------------------------------------------------------
(* The operators the model is built from.                                  *)

Versions == [Cookies -> Nat]
Frame == [t : {"records", "done"}, recs : Versions]
SpaceType ==
  [recs : Versions, jar : SUBSET Cookies, live : SUBSET Rotating, staged : Versions,
   hydrating : BOOLEAN, once : BOOLEAN, err : BOOLEAN, retry : BOOLEAN, epoch : Nat,
   queue : Seq(Job), finishing : Seq(Finish), sync : Sync]
LinkType ==
  [up : BOOLEAN, asked : BOOLEAN, frames : Seq(Frame), got : Versions, dropped : SUBSET Cookies]
PeersType == [hub : Versions, ver : Nat, writes : Nat, upsets : Nat]

LEMMA Shapes ==
  GateTypeOK <=> /\ space \in SpaceType /\ gate \in {"open", "closed"}
                 /\ link \in LinkType /\ peers \in PeersType
  BY DEF GateTypeOK, SpaceType, LinkType, PeersType, Versions, Frame

LEMMA ShapesNext ==
  GateTypeOK' <=> /\ space' \in SpaceType /\ gate' \in {"open", "closed"}
                  /\ link' \in LinkType /\ peers' \in PeersType
  BY DEF GateTypeOK, SpaceType, LinkType, PeersType, Versions, Frame

LEMMA MaxOfTwo ==
  ASSUME NEW a \in Nat, NEW b \in Nat
  PROVE  Max({a, b}) = IF a >= b THEN a ELSE b
<1>1. CASE a >= b
  <2>1. \A x \in {a, b} : (\A y \in {a, b} : x >= y) <=> x = a
    BY <1>1
  <2> QED BY <1>1, <2>1 DEF Max
<1>2. CASE ~(a >= b)
  <2>1. \A x \in {a, b} : (\A y \in {a, b} : x >= y) <=> x = b
    BY <1>2
  <2> QED BY <1>2, <2>1 DEF Max
<1> QED BY <1>1, <1>2

LEMMA NewestOfTwo ==
  ASSUME NEW f \in Versions, NEW g \in Versions
  PROVE  /\ NewestOf(f, g) \in Versions
         /\ \A c \in Cookies : /\ NewestOf(f, g)[c] >= f[c] /\ NewestOf(f, g)[c] >= g[c]
                               /\ NewestOf(f, g)[c] = f[c] \/ NewestOf(f, g)[c] = g[c]
<1>1. \A c \in Cookies : f[c] \in Nat /\ g[c] \in Nat
  BY DEF Versions
<1>2. \A c \in Cookies : NewestOf(f, g)[c] = IF f[c] >= g[c] THEN f[c] ELSE g[c]
  BY <1>1, MaxOfTwo DEF NewestOf
<1>3. NewestOf(f, g) = [c \in Cookies |-> NewestOf(f, g)[c]]
  BY DEF NewestOf
<1> QED BY <1>1, <1>2, <1>3 DEF Versions

LEMMA NoneAndOnly ==
  /\ NoVersions \in Versions /\ \A c \in Cookies : NoVersions[c] = 0
  /\ \A f \in Versions : \A S :
       /\ Only(f, S) \in Versions
       /\ \A c \in Cookies : Only(f, S)[c] = IF c \in S THEN f[c] ELSE 0
  BY DEF NoVersions, Versions, Only

LEMMA OnlyOne ==
  ASSUME NEW d \in Cookies, NEW v \in Nat
  PROVE  Only1(d, v) \in Versions /\ \A c \in Cookies : Only1(d, v)[c] = IF c = d THEN v ELSE 0
  BY DEF NoVersions, Versions, Only1

LEMMA AppendsOne ==
  ASSUME NEW A \in Seq(Frame), NEW m \in Frame
  PROVE  LET F == A \o <<m>> IN
         /\ F = Append(A, m) /\ F \in Seq(Frame) /\ Len(F) = Len(A) + 1 /\ F[Len(A) + 1] = m
         /\ \A q \in 1..Len(A) : F[q] = A[q]
         /\ DOMAIN F = 1..(Len(A) + 1) /\ DOMAIN A = 1..Len(A) /\ Len(A) \in Nat
  OBVIOUS

LEMMA AppliedFields ==
  ASSUME NEW s \in SpaceType, NEW r \in Versions
  PROVE  LET t == Applied(s, r) IN
         /\ t \in SpaceType /\ t.recs = NewestOf(s.recs, r)
         /\ t.jar = s.jar \union {c \in Cookies : r[c] > s.recs[c]} /\ t.live = s.live
         /\ t.staged = s.staged /\ t.hydrating = s.hydrating /\ t.once = s.once /\ t.err = s.err
         /\ t.retry = s.retry /\ t.epoch = s.epoch /\ t.queue = s.queue /\ t.finishing = s.finishing
         /\ t.sync = s.sync
<1>1. NewestOf(s.recs, r) \in Versions
  BY NewestOfTwo DEF SpaceType
<1> DEFINE n == NewestOf(s.recs, r)
           j == s.jar \union {c \in Cookies : r[c] > s.recs[c]}
<1>2. j \in SUBSET Cookies
  BY DEF SpaceType
<1>3. Applied(s, r) = [s EXCEPT !.recs = n, !.jar = j]
  BY DEF Applied, SpaceType
<1> HIDE DEF n, j
<1>4. n \in Versions
  BY <1>1 DEF n
<1>5. /\ Applied(s, r) \in SpaceType /\ Applied(s, r).recs = n /\ Applied(s, r).jar = j
      /\ Applied(s, r).live = s.live
      /\ Applied(s, r).staged = s.staged /\ Applied(s, r).hydrating = s.hydrating
      /\ Applied(s, r).once = s.once /\ Applied(s, r).err = s.err /\ Applied(s, r).retry = s.retry
      /\ Applied(s, r).epoch = s.epoch /\ Applied(s, r).queue = s.queue
      /\ Applied(s, r).finishing = s.finishing /\ Applied(s, r).sync = s.sync
  BY <1>2, <1>3, <1>4 DEF SpaceType
<1> QED BY <1>5 DEF n, j

(* An item of the queue is done: whoever waits waits for one less.         *)
LEMMA PoppedFields ==
  ASSUME NEW s \in SpaceType, s.queue # <<>>
  PROVE  LET t == Popped(s) IN
         /\ t \in SpaceType /\ t.recs = s.recs /\ t.jar = s.jar /\ t.live = s.live
         /\ t.staged = s.staged /\ t.hydrating = s.hydrating /\ t.once = s.once /\ t.err = s.err
         /\ t.retry = s.retry /\ t.epoch = s.epoch /\ t.queue = Tail(s.queue) /\ t.sync = s.sync
         /\ DOMAIN t.finishing = DOMAIN s.finishing
         /\ \A i \in DOMAIN s.finishing :
              /\ t.finishing[i].step = s.finishing[i].step /\ t.finishing[i].due = s.finishing[i].due
              /\ t.finishing[i].wait = IF s.finishing[i].wait > 0 THEN s.finishing[i].wait - 1 ELSE 0
<1> DEFINE D == DOMAIN s.finishing
           F == [i \in D |-> OneLess(s.finishing[i])]
           q == Tail(s.queue)
<1>1. s.finishing \in Seq(Finish) /\ s.queue \in Seq(Job)
  BY DEF SpaceType
<1>2. q \in Seq(Job)
  BY <1>1
<1>3. \A f \in Finish :
         /\ OneLess(f) \in Finish /\ OneLess(f).step = f.step /\ OneLess(f).due = f.due
         /\ OneLess(f).wait = IF f.wait > 0 THEN f.wait - 1 ELSE 0
  <2> SUFFICES ASSUME NEW f \in Finish
               PROVE  /\ OneLess(f) \in Finish /\ OneLess(f).step = f.step /\ OneLess(f).due = f.due
                      /\ OneLess(f).wait = IF f.wait > 0 THEN f.wait - 1 ELSE 0
    OBVIOUS
  <2>1. f.wait \in Nat
    BY DEF Finish
  <2>2. PICK n \in Nat : n = IF f.wait > 0 THEN f.wait - 1 ELSE 0
    BY <2>1
  <2>3. OneLess(f) = [f EXCEPT !.wait = n]
    BY <2>2 DEF OneLess
  <2> QED BY <2>2, <2>3 DEF Finish
<1>4. \A i \in D : F[i] = OneLess(s.finishing[i]) /\ s.finishing[i] \in Finish
  BY <1>1
<1>5. DOMAIN F = D /\ D = 1..Len(s.finishing) /\ Len(s.finishing) \in Nat
  BY <1>1
<1>6. F \in Seq(Finish)
  <2>1. F = [i \in 1..Len(s.finishing) |-> F[i]]
    BY <1>5
  <2> HIDE DEF F
  <2>2. \A i \in 1..Len(s.finishing) : F[i] \in Finish
    BY <1>3, <1>4, <1>5
  <2> QED BY <1>5, <2>1, <2>2
<1>7. Popped(s) = [s EXCEPT !.queue = q, !.finishing = F]
  BY DEF Popped
<1> HIDE DEF F, q, D
<1>8. /\ Popped(s) \in SpaceType /\ Popped(s).recs = s.recs /\ Popped(s).jar = s.jar
      /\ Popped(s).live = s.live
      /\ Popped(s).staged = s.staged /\ Popped(s).hydrating = s.hydrating
      /\ Popped(s).once = s.once /\ Popped(s).err = s.err
      /\ Popped(s).retry = s.retry /\ Popped(s).epoch = s.epoch /\ Popped(s).queue = q
      /\ Popped(s).finishing = F /\ Popped(s).sync = s.sync
  BY <1>2, <1>6, <1>7 DEF SpaceType
<1> QED BY <1>3, <1>4, <1>5, <1>8 DEF q, D

(* A finishHydration that is over: the others stay as they are.            *)
LEMMA Removed ==
  ASSUME NEW F \in Seq(Finish), NEW i \in DOMAIN F
  PROVE  /\ RemoveAt(F, i) \in Seq(Finish)
         /\ \A j \in DOMAIN RemoveAt(F, i) : \E k \in DOMAIN F : RemoveAt(F, i)[j] = F[k]
<1> DEFINE A == SubSeq(F, 1, i - 1)
           B == SubSeq(F, i + 1, Len(F))
<1>1. /\ i \in 1..Len(F) /\ Len(F) \in Nat
  OBVIOUS
<1>2. A \in Seq(Finish) /\ Len(A) = i - 1 /\ \A j \in 1..(i - 1) : A[j] = F[j]
  BY <1>1
<1>3. B \in Seq(Finish) /\ Len(B) = Len(F) - i /\ \A j \in 1..(Len(F) - i) : B[j] = F[i + j]
  <2>1. CASE i = Len(F)
    BY <1>1, <2>1
  <2>2. CASE i < Len(F)
    BY <1>1, <2>2
  <2> QED BY <1>1, <2>1, <2>2
<1>4. RemoveAt(F, i) = A \o B
  BY DEF RemoveAt
<1> HIDE DEF A, B
<1>5. RemoveAt(F, i) \in Seq(Finish) /\ Len(RemoveAt(F, i)) = Len(F) - 1
  BY <1>1, <1>2, <1>3, <1>4
<1>6. ASSUME NEW j \in DOMAIN RemoveAt(F, i)
      PROVE  \E k \in DOMAIN F : RemoveAt(F, i)[j] = F[k]
  <2>1. j \in 1..(Len(F) - 1)
    BY <1>1, <1>5
  <2>2. CASE j <= i - 1
    <3>1. RemoveAt(F, i)[j] = F[j]
      BY <1>1, <1>2, <1>3, <1>4, <2>1, <2>2
    <3> QED BY <1>1, <2>1, <3>1
  <2>3. CASE ~(j <= i - 1)
    <3>1. j - (i - 1) \in 1..(Len(F) - i)
      BY <1>1, <2>1, <2>3
    <3>2. RemoveAt(F, i)[j] = B[j - (i - 1)]
      BY <1>1, <1>2, <1>3, <1>4, <2>1, <2>3, SMTT(30)
    <3>3. RemoveAt(F, i)[j] = F[i + (j - (i - 1))]
      BY <1>3, <3>1, <3>2
    <3>4. i + (j - (i - 1)) \in DOMAIN F
      BY <1>1, <3>1
    <3> QED BY <3>3, <3>4
  <2> QED BY <2>2, <2>3
<1> QED BY <1>5, <1>6

----------------------------------------------------------------------------
(* What keeps each part of the invariant.                                  *)

LEMMA Parts ==
  GateTypeOK =>
    /\ space.recs \in Versions /\ space.staged \in Versions /\ space.queue \in Seq(Job)
    /\ space.finishing \in Seq(Finish) /\ space.sync.recs \in Versions /\ space.epoch \in Nat
    /\ space.once \in BOOLEAN /\ space.err \in BOOLEAN /\ space.hydrating \in BOOLEAN
    /\ link.frames \in Seq(Frame) /\ link.got \in Versions /\ link.dropped \subseteq Cookies
    /\ link.up \in BOOLEAN /\ link.asked \in BOOLEAN
    /\ peers.hub \in Versions /\ peers.ver \in Nat
    /\ \A i \in DOMAIN space.queue : /\ space.queue[i] \in Job /\ space.queue[i].recs \in Versions
                                     /\ space.queue[i].epoch \in Nat
    /\ \A i \in DOMAIN space.finishing : /\ space.finishing[i] \in Finish
                                         /\ space.finishing[i].wait \in Nat
                                         /\ space.finishing[i].due \in Versions
                                         /\ space.finishing[i].step \in {"queue", "seed"}
    /\ \A i \in DOMAIN link.frames : link.frames[i] \in Frame /\ link.frames[i].recs \in Versions
<1> SUFFICES ASSUME GateTypeOK
             PROVE  /\ space.recs \in Versions /\ space.staged \in Versions /\ space.queue \in Seq(Job)
                    /\ space.finishing \in Seq(Finish) /\ space.sync.recs \in Versions
                    /\ space.epoch \in Nat
                    /\ space.once \in BOOLEAN /\ space.err \in BOOLEAN /\ space.hydrating \in BOOLEAN
                    /\ link.frames \in Seq(Frame) /\ link.got \in Versions
                    /\ link.dropped \subseteq Cookies
                    /\ link.up \in BOOLEAN /\ link.asked \in BOOLEAN
                    /\ peers.hub \in Versions /\ peers.ver \in Nat
                    /\ \A i \in DOMAIN space.queue : /\ space.queue[i] \in Job
                                                     /\ space.queue[i].recs \in Versions
                                                     /\ space.queue[i].epoch \in Nat
                    /\ \A i \in DOMAIN space.finishing : /\ space.finishing[i] \in Finish
                                                         /\ space.finishing[i].wait \in Nat
                                                         /\ space.finishing[i].due \in Versions
                                                         /\ space.finishing[i].step \in {"queue", "seed"}
                    /\ \A i \in DOMAIN link.frames : /\ link.frames[i] \in Frame
                                                     /\ link.frames[i].recs \in Versions
  OBVIOUS
<1>1. space \in SpaceType /\ link \in LinkType /\ peers \in PeersType
  BY Shapes
<1>2. /\ space.recs \in Versions /\ space.staged \in Versions /\ space.queue \in Seq(Job)
      /\ space.finishing \in Seq(Finish) /\ space.sync \in Sync /\ space.epoch \in Nat
      /\ space.once \in BOOLEAN /\ space.err \in BOOLEAN /\ space.hydrating \in BOOLEAN
  BY <1>1 DEF SpaceType
<1>3. space.sync.recs \in Versions
  BY <1>2 DEF Sync, Versions
<1>4. /\ link.frames \in Seq(Frame) /\ link.got \in Versions /\ link.dropped \subseteq Cookies
      /\ link.up \in BOOLEAN /\ link.asked \in BOOLEAN
  BY <1>1 DEF LinkType
<1>5. peers.hub \in Versions /\ peers.ver \in Nat
  BY <1>1 DEF PeersType
<1>6. \A i \in DOMAIN space.queue : space.queue[i] \in Job
  BY <1>2
<1>7. \A j \in Job : j.recs \in Versions /\ j.epoch \in Nat
  BY DEF Job, Versions
<1>8. \A i \in DOMAIN space.finishing : space.finishing[i] \in Finish
  BY <1>2
<1>9. \A f \in Finish : f.wait \in Nat /\ f.due \in Versions /\ f.step \in {"queue", "seed"}
  BY DEF Finish, Versions
<1>10. \A i \in DOMAIN link.frames : link.frames[i] \in Frame
  BY <1>4
<1>11. \A f \in Frame : f.recs \in Versions
  BY DEF Frame
<1> QED BY <1>2, <1>3, <1>4, <1>5, <1>6, <1>7, <1>8, <1>9, <1>10, <1>11

LEMMA UnderTransitive ==
  ASSUME NEW r \in Versions, NEW q \in Versions, NEW p \in Versions, Under(r, q), Under(q, p)
  PROVE  Under(r, p)
  BY DEF Under, Versions

LEMMA NoneIsUnder == \A r \in Versions : Under(NoVersions, r)
  BY NoneAndOnly DEF Under, Versions

(* Nothing is written that a finishHydration did not wait for, and records *)
(* only get newer.                                                         *)
LEMMA FinishStays ==
  ASSUME GateTypeOK, GateTypeOK', FinishCovered, space.once => space'.once, space.err => space'.err,
         Under(space.recs, space'.recs),
         Len(space.queue) <= Len(space'.queue),
         \A i \in DOMAIN space.queue : space'.queue[i].recs = space.queue[i].recs,
         \A j \in DOMAIN space'.finishing :
           \E k \in DOMAIN space.finishing : space'.finishing[j] = space.finishing[k]
  PROVE  FinishCovered'
<1> SUFFICES ASSUME ~space'.once, NEW j \in DOMAIN space'.finishing
             PROVE  LET f == space'.finishing[j] IN
                    /\ f.wait <= Len(space'.queue)
                    /\ f.step = "queue" /\ f.wait > 0 => Under(f.due, space'.queue[f.wait].recs)
                    /\ f.step = "queue" /\ f.wait = 0 => Under(f.due, space'.recs) \/ space'.err
                    /\ f.step = "seed" => Under(f.due, space'.recs)
  BY DEF FinishCovered
<1>1. PICK k \in DOMAIN space.finishing : space'.finishing[j] = space.finishing[k]
  OBVIOUS
<1> DEFINE f == space.finishing[k]
<1>2. /\ f.wait <= Len(space.queue)
      /\ f.step = "queue" /\ f.wait > 0 => Under(f.due, space.queue[f.wait].recs)
      /\ f.step = "queue" /\ f.wait = 0 => Under(f.due, space.recs) \/ space.err
      /\ f.step = "seed" => Under(f.due, space.recs)
  BY DEF FinishCovered
<1>3. /\ f.wait \in Nat /\ f.due \in Versions /\ space.recs \in Versions
      /\ space.queue \in Seq(Job)
  BY Parts
<1>4. space'.recs \in Versions /\ space'.queue \in Seq(Job)
  BY ShapesNext DEF SpaceType
<1>5. Under(f.due, space.recs) => Under(f.due, space'.recs)
  BY <1>3, <1>4, UnderTransitive
<1>6. f.wait > 0 => space'.queue[f.wait].recs = space.queue[f.wait].recs
  BY <1>2, <1>3
<1>7. f.wait <= Len(space'.queue)
  BY <1>2, <1>3, <1>4
<1> HIDE DEF f
<1> QED BY <1>1, <1>2, <1>5, <1>6, <1>7 DEF f

LEMMA DoneStays ==
  ASSUME DoneCovered, link'.frames = link.frames, link'.got = link.got, link'.asked = link.asked,
         link'.up = link.up, space.once => space'.once,
         ~space'.once /\ GotIsLast => GotIsLast'
  PROVE  DoneCovered'
<1> SUFFICES ASSUME NEW p \in DOMAIN link.frames, link.frames[p].t = "done"
             PROVE  /\ ~link.asked /\ link.up /\ link.frames[p].recs = NoVersions
                    /\ \A q \in DOMAIN link.frames : link.frames[q].t = "done" => q = p
                    /\ p > 1 => /\ Under(link.got, link.frames[p - 1].recs)
                                /\ \A q \in 1..(p - 1) : Under(link.frames[q].recs, link.frames[p - 1].recs)
                    /\ p = 1 /\ ~space'.once => GotIsLast'
  BY DEF DoneCovered
<1> QED BY DEF DoneCovered

LEMMA KeptStays ==
  ASSUME GateTypeOK, GateTypeOK', KeptSomewhere, link'.got = link.got,
         link.dropped \subseteq link'.dropped, Under(space.recs, space'.recs),
         Under(space.staged, space'.staged),
         DOMAIN space.queue \subseteq DOMAIN space'.queue,
         \A i \in DOMAIN space.queue : space'.queue[i].recs = space.queue[i].recs
  PROVE  KeptSomewhere'
<1> SUFFICES ASSUME NEW c \in Cookies, c \notin link'.dropped
             PROVE  \/ link.got[c] <= space'.recs[c] \/ link.got[c] <= space'.staged[c]
                    \/ \E i \in DOMAIN space'.queue : link.got[c] <= space'.queue[i].recs[c]
  BY DEF KeptSomewhere
<1>1. /\ link.got[c] \in Nat /\ space.recs[c] \in Nat /\ space.staged[c] \in Nat
      /\ space'.recs[c] \in Nat /\ space'.staged[c] \in Nat
  <2>1. link.got \in Versions /\ space.recs \in Versions /\ space.staged \in Versions
    BY Parts
  <2>2. space'.recs \in Versions /\ space'.staged \in Versions
    BY ShapesNext DEF SpaceType
  <2> QED BY <2>1, <2>2 DEF Versions
<1>2. \/ link.got[c] <= space.recs[c] \/ link.got[c] <= space.staged[c]
      \/ \E i \in DOMAIN space.queue : link.got[c] <= space.queue[i].recs[c]
  BY DEF KeptSomewhere
<1>3. space.recs[c] <= space'.recs[c] /\ space.staged[c] <= space'.staged[c]
  BY DEF Under
<1> QED BY <1>1, <1>2, <1>3

(* A step that leaves the queue and the hub alone, and takes nothing in.   *)
LEMMA QuietKeeps ==
  ASSUME GInv, GateTypeOK', space.once => space'.once, space.err => space'.err,
         space'.queue = space.queue, space'.epoch = space.epoch,
         Under(space.recs, space'.recs), peers.ver <= peers'.ver, peers'.hub = peers.hub,
         \A c \in Cookies : /\ space'.recs[c] <= peers'.ver /\ space'.staged[c] <= peers'.ver
                            /\ space'.sync.recs[c] <= peers'.ver,
         link'.got = link.got,
         \/ link'.frames = link.frames /\ link'.asked = link.asked /\ link'.up = link.up
         \/ link'.frames = <<>>,
         \A j \in DOMAIN space'.finishing :
           \E k \in DOMAIN space.finishing : space'.finishing[j] = space.finishing[k],
         FirstComesFirst', GateMeansApplied', PulledIsKnown', KeptSomewhere'
  PROVE  GInv'
<1>1. /\ GateTypeOK /\ VersionsIssued /\ EpochsAscend /\ FramesFromHub /\ DoneCovered /\ FinishCovered
  BY DEF GInv
<1>2. /\ peers.ver \in Nat /\ peers'.ver \in Nat /\ space.queue \in Seq(Job)
      /\ link.frames \in Seq(Frame)
  BY <1>1, ShapesNext, Parts DEF PeersType
<1>3. \A r \in Versions : (\A c \in Cookies : r[c] <= peers.ver) => \A c \in Cookies : r[c] <= peers'.ver
  BY <1>2 DEF Versions
<1>4. VersionsIssued'
  <2>1. ASSUME NEW i \in DOMAIN space.queue
        PROVE  \A c \in Cookies : space.queue[i].recs[c] <= peers'.ver
    BY <1>1, <1>3, Parts DEF VersionsIssued, IsIssued
  <2>2. ASSUME NEW i \in DOMAIN link'.frames
        PROVE  \A c \in Cookies : link'.frames[i].recs[c] <= peers'.ver
    <3>1. CASE link'.frames = <<>>
      BY <3>1
    <3>2. CASE link'.frames = link.frames
      BY <1>1, <1>3, <3>2, Parts DEF VersionsIssued, IsIssued
    <3> QED BY <3>1, <3>2
  <2>3. \A c \in Cookies : peers.hub[c] <= peers'.ver
    BY <1>1, <1>3, Parts DEF VersionsIssued, IsIssued
  <2> QED BY <2>1, <2>2, <2>3 DEF VersionsIssued, IsIssued
<1>5. EpochsAscend'
  BY <1>1 DEF EpochsAscend
<1>6. FramesFromHub'
  <2>1. CASE link'.frames = <<>>
    BY <1>1, <2>1 DEF FramesFromHub
  <2>2. CASE link'.frames = link.frames
    BY <1>1, <2>2 DEF FramesFromHub
  <2> QED BY <2>1, <2>2
<1>7. DoneCovered'
  <2>1. CASE link'.frames = <<>>
    BY <2>1 DEF DoneCovered
  <2>2. CASE link'.frames = link.frames /\ link'.asked = link.asked /\ link'.up = link.up
    <3>1. Under(link.got, space.recs) => Under(link.got, space'.recs)
      <4>1. space'.recs \in Versions /\ space.recs \in Versions /\ link.got \in Versions
        BY <1>1, ShapesNext, Parts DEF SpaceType
      <4> QED BY <4>1, UnderTransitive
    <3>2. GotIsLast => GotIsLast'
      BY <3>1 DEF GotIsLast
    <3> QED BY <1>1, <2>2, <3>2, DoneStays
  <2> QED BY <2>1, <2>2
<1>8. FinishCovered'
  BY <1>1, <1>2, FinishStays
<1> QED BY <1>4, <1>5, <1>6, <1>7, <1>8 DEF GInv

(* A quiet step that leaves the staged records alone too.                  *)
LEMMA SilentKeeps ==
  ASSUME GInv, GateTypeOK', space.once => space'.once, space.err => space'.err,
         space'.queue = space.queue, space'.epoch = space.epoch, space'.staged = space.staged,
         space'.sync.recs = space.sync.recs,
         space'.sync.step = space.sync.step \/ space'.sync.step # "pull",
         Under(space.recs, space'.recs), peers.ver <= peers'.ver, peers'.hub = peers.hub,
         \A c \in Cookies : space'.recs[c] <= peers'.ver,
         link'.got = link.got, link'.dropped = link.dropped,
         \/ link'.frames = link.frames /\ link'.asked = link.asked /\ link'.up = link.up
         \/ link'.frames = <<>>,
         \A j \in DOMAIN space'.finishing :
           \E k \in DOMAIN space.finishing : space'.finishing[j] = space.finishing[k],
         \/ gate' = "open" /\ space'.once
         \/ gate' = gate /\ (space'.hydrating => space.hydrating)
  PROVE  GInv'
<1>1. /\ GateTypeOK /\ VersionsIssued /\ FirstComesFirst /\ GateMeansApplied /\ PulledIsKnown
      /\ KeptSomewhere
  BY DEF GInv
<1>2. /\ space.recs \in Versions /\ space'.recs \in Versions /\ space.staged \in Versions
      /\ space.sync.recs \in Versions /\ peers.ver \in Nat /\ peers'.ver \in Nat
      /\ space.queue \in Seq(Job)
  BY <1>1, Parts, ShapesNext DEF SpaceType, PeersType
<1>3. \A c \in Cookies : space'.staged[c] <= peers'.ver /\ space'.sync.recs[c] <= peers'.ver
  BY <1>1, <1>2, SMTT(30) DEF VersionsIssued, IsIssued, Versions
<1>4. FirstComesFirst'
  BY <1>1 DEF FirstComesFirst
<1>5. GateMeansApplied'
  BY <1>1 DEF GateMeansApplied
<1>6. PulledIsKnown'
  <2> SUFFICES ASSUME NEW c \in Cookies
               PROVE  \/ space.sync.recs[c] <= space.staged[c]
                      \/ space.sync.recs[c] <= space'.recs[c]
    BY DEF PulledIsKnown
  <2>1. /\ space.recs[c] \in Nat /\ space'.recs[c] \in Nat /\ space.sync.recs[c] \in Nat
        /\ space.recs[c] <= space'.recs[c]
    BY <1>2 DEF Versions, Under
  <2> QED BY <1>1, <2>1 DEF PulledIsKnown
<1>7. KeptSomewhere'
  <2>1. Under(space.staged, space'.staged)
    BY <1>2 DEF Under, Versions
  <2> QED BY <1>1, <2>1, KeptStays
<1> QED BY <1>3, <1>4, <1>5, <1>6, <1>7, QuietKeeps

LEMMA Nothing == <<>> \in Seq(Frame)
  OBVIOUS

LEMMA UnderItself == \A r \in Versions : Under(r, r)
  BY DEF Under, Versions

----------------------------------------------------------------------------
(* Every step keeps the invariant.                                         *)

LEMMA UpsetCounts ==
  ASSUME GateTypeOK, Upset
  PROVE  peers' \in PeersType /\ peers'.ver = peers.ver /\ peers'.hub = peers.hub
<1>1. peers \in PeersType /\ peers' = [peers EXCEPT !.upsets = @ + 1]
  BY Shapes DEF Upset
<1> QED BY <1>1 DEF PeersType

LEMMA RetryTimerKeeps == ASSUME GInv, RetryTimer PROVE GInv'
<1>1. GateTypeOK /\ space \in SpaceType /\ link \in LinkType /\ peers \in PeersType
      /\ gate \in {"open", "closed"}
  BY Shapes DEF GInv
<1>2. space' = [space EXCEPT !.retry = FALSE] /\ gate' = gate /\ peers' = peers
  BY DEF RetryTimer
<1>3. /\ space' \in SpaceType /\ space'.recs = space.recs /\ space'.staged = space.staged
      /\ space'.hydrating = space.hydrating /\ space'.once = space.once /\ space'.err = space.err
      /\ space'.epoch = space.epoch /\ space'.queue = space.queue
      /\ space'.finishing = space.finishing /\ space'.sync = space.sync
  BY <1>1, <1>2 DEF SpaceType
<1>4. PICK none \in Seq(Frame) : none = <<>>
  BY Nothing
<1>5. link' = link \/ link' = [link EXCEPT !.up = FALSE, !.asked = FALSE, !.frames = none]
  BY <1>4 DEF RetryTimer
<1>6. /\ link' \in LinkType /\ link'.got = link.got /\ link'.dropped = link.dropped
      /\ \/ link'.frames = link.frames /\ link'.asked = link.asked /\ link'.up = link.up
         \/ link'.frames = <<>>
  BY <1>1, <1>4, <1>5 DEF LinkType
<1>7. GateTypeOK'
  BY <1>1, <1>2, <1>3, <1>6, ShapesNext
<1>8. /\ Under(space.recs, space'.recs) /\ peers.ver <= peers'.ver
      /\ \A c \in Cookies : space'.recs[c] <= peers'.ver
  BY <1>1, <1>2, <1>3, UnderItself, Parts DEF GInv, VersionsIssued, IsIssued
<1> QED BY <1>2, <1>3, <1>6, <1>7, <1>8, SilentKeeps

LEMMA DisconnectKeeps == ASSUME GInv, Disconnect PROVE GInv'
<1>1. GateTypeOK /\ space \in SpaceType /\ link \in LinkType /\ peers \in PeersType
      /\ gate \in {"open", "closed"}
  BY Shapes DEF GInv
<1>2. space' = [space EXCEPT !.hydrating = @ /\ ~space.once]
      /\ gate' = IF space.hydrating /\ space.once THEN "open" ELSE gate
  BY DEF Disconnect, Offline
<1>3. /\ space' \in SpaceType /\ space'.recs = space.recs /\ space'.staged = space.staged
      /\ space'.once = space.once /\ space'.err = space.err
      /\ space'.epoch = space.epoch /\ space'.queue = space.queue
      /\ space'.finishing = space.finishing /\ space'.sync = space.sync
      /\ space'.hydrating => space.hydrating
  BY <1>1, <1>2 DEF SpaceType
<1>4. PICK none \in Seq(Frame) : none = <<>>
  BY Nothing
<1>5. link' = [link EXCEPT !.up = FALSE, !.asked = FALSE, !.frames = none]
  BY <1>4 DEF Disconnect, Offline
<1>6. link' \in LinkType /\ link'.got = link.got /\ link'.dropped = link.dropped /\ link'.frames = <<>>
  BY <1>1, <1>4, <1>5 DEF LinkType
<1>7. peers' \in PeersType /\ peers'.ver = peers.ver /\ peers'.hub = peers.hub
  BY <1>1, UpsetCounts DEF Disconnect
<1>8. /\ Under(space.recs, space'.recs) /\ peers.ver <= peers'.ver
      /\ \A c \in Cookies : space'.recs[c] <= peers'.ver
  BY <1>1, <1>3, <1>7, UnderItself, Parts DEF GInv, VersionsIssued, IsIssued
<1>9. gate' \in {"open", "closed"} /\ ((gate' = "open" /\ space'.once) \/ gate' = gate)
  BY <1>1, <1>2, <1>3
<1>10. GateTypeOK'
  BY <1>3, <1>6, <1>7, <1>9, ShapesNext
<1> QED BY <1>3, <1>6, <1>7, <1>8, <1>9, <1>10, SilentKeeps

LEMMA NeverSyncKeeps == ASSUME GInv, NEW c \in Rotating, NeverSync(c) PROVE GInv'
<1>1. GateTypeOK /\ space \in SpaceType /\ link \in LinkType /\ gate \in {"open", "closed"}
  BY Shapes DEF GInv
<1>2. space' = [space EXCEPT !.live = @ \ {c}] /\ gate' = gate /\ link' = link
  BY DEF NeverSync
<1>3. /\ space' \in SpaceType /\ space'.recs = space.recs /\ space'.staged = space.staged
      /\ space'.hydrating = space.hydrating /\ space'.once = space.once /\ space'.err = space.err
      /\ space'.epoch = space.epoch /\ space'.queue = space.queue
      /\ space'.finishing = space.finishing /\ space'.sync = space.sync
  BY <1>1, <1>2 DEF SpaceType
<1>4. peers' \in PeersType /\ peers'.ver = peers.ver /\ peers'.hub = peers.hub
  BY <1>1, UpsetCounts DEF NeverSync
<1>5. /\ Under(space.recs, space'.recs) /\ peers.ver <= peers'.ver
      /\ \A d \in Cookies : space'.recs[d] <= peers'.ver
  BY <1>1, <1>3, <1>4, UnderItself, Parts DEF GInv, VersionsIssued, IsIssued
<1>6. GateTypeOK'
  BY <1>1, <1>2, <1>3, <1>4, ShapesNext
<1> QED BY <1>2, <1>3, <1>4, <1>5, <1>6, SilentKeeps

(* The cookies the browser had are written by versions of our own.         *)
LEMMA SeededFields ==
  ASSUME GInv
  PROVE  LET t == Seeded(space) IN
         /\ t \in SpaceType /\ Under(space.recs, t.recs)
         /\ \A c \in Cookies : t.recs[c] \in Nat /\ (t.recs[c] = space.recs[c] \/ c \in Fresh)
         /\ \A c \in Cookies : c \in Fresh => t.recs[c] = peers.ver + 1
         /\ t.jar = space.jar /\ t.live = space.live
         /\ t.staged = space.staged /\ t.hydrating = space.hydrating /\ t.once = space.once
         /\ t.err = space.err
         /\ t.retry = space.retry /\ t.epoch = space.epoch /\ t.queue = space.queue
         /\ t.finishing = space.finishing /\ t.sync = space.sync
<1> DEFINE n == [c \in Cookies |-> IF c \in Fresh THEN peers.ver + 1 ELSE space.recs[c]]
<1>1. space \in SpaceType /\ peers.ver \in Nat /\ space.recs \in Versions
  BY Shapes, Parts DEF GInv
<1>2. n \in Versions
  BY <1>1 DEF Versions
<1>3. \A c \in Cookies : n[c] = IF c \in Fresh THEN peers.ver + 1 ELSE space.recs[c]
  OBVIOUS
<1>4. Seeded(space) = [space EXCEPT !.recs = n]
  BY DEF Seeded
<1> HIDE DEF n
<1>5. /\ Seeded(space) \in SpaceType /\ Seeded(space).recs = n
      /\ Seeded(space).jar = space.jar /\ Seeded(space).live = space.live
      /\ Seeded(space).staged = space.staged /\ Seeded(space).hydrating = space.hydrating
      /\ Seeded(space).once = space.once /\ Seeded(space).err = space.err
      /\ Seeded(space).retry = space.retry /\ Seeded(space).epoch = space.epoch
      /\ Seeded(space).queue = space.queue
      /\ Seeded(space).finishing = space.finishing /\ Seeded(space).sync = space.sync
  BY <1>1, <1>2, <1>4 DEF SpaceType
<1>6. \A c \in Cookies : /\ n[c] \in Nat /\ space.recs[c] \in Nat /\ space.recs[c] <= n[c]
                         /\ n[c] = space.recs[c] \/ c \in Fresh
                         /\ c \in Fresh => n[c] = peers.ver + 1
  <2> SUFFICES ASSUME NEW c \in Cookies
               PROVE  /\ n[c] \in Nat /\ space.recs[c] \in Nat /\ space.recs[c] <= n[c]
                      /\ n[c] = space.recs[c] \/ c \in Fresh
                      /\ c \in Fresh => n[c] = peers.ver + 1
    OBVIOUS
  <2>1. c \in Fresh => space.recs[c] = 0
    BY DEF Fresh
  <2> QED BY <1>1, <1>3, <2>1 DEF Versions
<1> QED BY <1>5, <1>6 DEF Under

LEMMA SeedsCounted ==
  ASSUME GInv, CountSeeds
  PROVE  /\ peers' \in PeersType /\ peers'.hub = peers.hub /\ peers.ver <= peers'.ver
         /\ \A c \in Cookies : Seeded(space).recs[c] <= peers'.ver
<1>1. GateTypeOK /\ peers \in PeersType /\ peers.ver \in Nat /\ VersionsIssued
      /\ space.recs \in Versions
  BY Shapes, Parts DEF GInv
<1> DEFINE v == IF Fresh = {} THEN peers.ver ELSE peers.ver + 1
<1>2. v \in Nat /\ peers.ver <= v /\ (Fresh # {} => v = peers.ver + 1)
  BY <1>1
<1>3. peers' = [peers EXCEPT !.ver = v]
  BY DEF CountSeeds
<1> HIDE DEF v
<1>4. peers' \in PeersType /\ peers'.hub = peers.hub /\ peers'.ver = v
  BY <1>1, <1>2, <1>3 DEF PeersType
<1>5. ASSUME NEW c \in Cookies PROVE Seeded(space).recs[c] <= v
  <2>1. /\ space.recs[c] \in Nat /\ space.recs[c] <= peers.ver
        /\ Seeded(space).recs[c] = space.recs[c] \/ c \in Fresh
        /\ c \in Fresh => Seeded(space).recs[c] = peers.ver + 1
    BY <1>1, SeededFields DEF VersionsIssued, IsIssued, Versions
  <2> QED BY <1>1, <1>2, <2>1
<1> QED BY <1>2, <1>4, <1>5

LEMMA SyncAgainKeeps == ASSUME GInv, NEW c \in Rotating, SyncAgain(c) PROVE GInv'
<1>1. GateTypeOK /\ space \in SpaceType /\ link \in LinkType /\ peers \in PeersType
      /\ gate \in {"open", "closed"}
  BY Shapes DEF GInv
<1>2. gate' = gate /\ link' = link
  BY DEF SyncAgain
<1>3. CASE space' = [space EXCEPT !.live = @ \union {c}] /\ peers' = peers
  <2>1. /\ space' \in SpaceType /\ space'.recs = space.recs /\ space'.staged = space.staged
        /\ space'.hydrating = space.hydrating /\ space'.once = space.once /\ space'.err = space.err
        /\ space'.epoch = space.epoch /\ space'.queue = space.queue
        /\ space'.finishing = space.finishing /\ space'.sync = space.sync
    BY <1>1, <1>3 DEF SpaceType
  <2>2. /\ Under(space.recs, space'.recs) /\ peers.ver <= peers'.ver
        /\ \A d \in Cookies : space'.recs[d] <= peers'.ver
    BY <1>1, <1>3, <2>1, UnderItself, Parts DEF GInv, VersionsIssued, IsIssued
  <2>3. GateTypeOK'
    BY <1>1, <1>2, <1>3, <2>1, ShapesNext
  <2> QED BY <1>2, <1>3, <2>1, <2>2, <2>3, SilentKeeps
<1>4. CASE space' = [Seeded(space) EXCEPT !.live = @ \union {c}] /\ CountSeeds
  <2> DEFINE t == Seeded(space)
  <2>1. /\ t \in SpaceType /\ Under(space.recs, t.recs)
        /\ t.staged = space.staged /\ t.hydrating = space.hydrating /\ t.once = space.once
        /\ t.err = space.err /\ t.epoch = space.epoch /\ t.queue = space.queue
        /\ t.finishing = space.finishing /\ t.sync = space.sync
    BY SeededFields
  <2>2. /\ peers' \in PeersType /\ peers'.hub = peers.hub /\ peers.ver <= peers'.ver
        /\ \A d \in Cookies : t.recs[d] <= peers'.ver
    BY <1>4, SeedsCounted
  <2> HIDE DEF t
  <2>3. space' = [t EXCEPT !.live = @ \union {c}]
    BY <1>4 DEF t
  <2>4. /\ space' \in SpaceType /\ space'.recs = t.recs /\ space'.staged = t.staged
        /\ space'.hydrating = t.hydrating /\ space'.once = t.once /\ space'.err = t.err
        /\ space'.epoch = t.epoch /\ space'.queue = t.queue
        /\ space'.finishing = t.finishing /\ space'.sync = t.sync
    BY <2>1, <2>3 DEF SpaceType
  <2>5. GateTypeOK'
    BY <1>1, <1>2, <2>2, <2>4, ShapesNext
  <2> QED BY <1>2, <2>1, <2>2, <2>4, <2>5, SilentKeeps
<1> QED BY <1>3, <1>4 DEF SyncAgain

LEMMA FinishSeedKeeps ==
  ASSUME GInv, NEW i \in DOMAIN space.finishing, FinishSeed(i) PROVE GInv'
<1> DEFINE t == Seeded(space)
           F == RemoveAt(space.finishing, i)
<1>1. GateTypeOK /\ space \in SpaceType /\ link \in LinkType /\ space.finishing \in Seq(Finish)
  BY Shapes, Parts DEF GInv
<1>2. gate' = "open" /\ link' = link
  BY DEF FinishSeed
<1>3. /\ t \in SpaceType /\ Under(space.recs, t.recs)
      /\ t.staged = space.staged /\ t.hydrating = space.hydrating
      /\ t.err = space.err /\ t.epoch = space.epoch /\ t.queue = space.queue
      /\ t.finishing = space.finishing /\ t.sync = space.sync
  BY SeededFields
<1>4. /\ peers' \in PeersType /\ peers'.hub = peers.hub /\ peers.ver <= peers'.ver
      /\ \A d \in Cookies : t.recs[d] <= peers'.ver
  BY SeedsCounted DEF FinishSeed
<1>5. /\ F \in Seq(Finish) /\ \A j \in DOMAIN F : \E k \in DOMAIN space.finishing : F[j] = space.finishing[k]
  BY <1>1, Removed
<1> HIDE DEF t
<1>6. space' = [t EXCEPT !.finishing = F, !.once = TRUE]
  BY <1>3 DEF FinishSeed, Without, t, SpaceType
<1> HIDE DEF F
<1>7. /\ space' \in SpaceType /\ space'.recs = t.recs /\ space'.staged = t.staged
      /\ space'.hydrating = t.hydrating /\ space'.once = TRUE /\ space'.err = t.err
      /\ space'.epoch = t.epoch /\ space'.queue = t.queue
      /\ space'.finishing = F /\ space'.sync = t.sync
  BY <1>3, <1>5, <1>6 DEF SpaceType
<1>8. GateTypeOK'
  BY <1>1, <1>2, <1>4, <1>7, ShapesNext
<1> QED BY <1>2, <1>3, <1>4, <1>5, <1>7, <1>8, SilentKeeps

(* finishHydration goes on to seed only when what it owes is written.      *)
LEMMA FinishQueueKeeps ==
  ASSUME GInv, NEW i \in DOMAIN space.finishing, FinishQueue(i) PROVE GInv'
<1> DEFINE F == RemoveAt(space.finishing, i)
<1>1. GateTypeOK /\ space \in SpaceType /\ link \in LinkType /\ space.finishing \in Seq(Finish)
      /\ gate \in {"open", "closed"} /\ peers \in PeersType /\ peers.ver \in Nat
      /\ space.recs \in Versions
  BY Shapes, Parts DEF GInv
<1>2. gate' = gate /\ link' = link /\ peers' = peers
  BY DEF FinishQueue
<1>3. /\ F \in Seq(Finish) /\ \A j \in DOMAIN F : \E k \in DOMAIN space.finishing : F[j] = space.finishing[k]
  BY <1>1, Removed
<1>4. /\ Under(space.recs, space.recs) /\ peers.ver <= peers'.ver
      /\ \A d \in Cookies : space.recs[d] <= peers'.ver
  BY <1>1, <1>2, UnderItself DEF GInv, VersionsIssued, IsIssued
<1>5. CASE ~space.hydrating \/ space.err
  <2>1. PICK b \in BOOLEAN : space' = [space EXCEPT !.finishing = F, !.retry = b]
    <3>1. CASE ~space.hydrating
      <4>1. space' = [space EXCEPT !.finishing = F]
        BY <3>1 DEF FinishQueue, Without
      <4>2. space.retry \in BOOLEAN
        BY <1>1 DEF SpaceType
      <4>3. space' = [space EXCEPT !.finishing = F, !.retry = space.retry]
        BY <1>1, <4>1 DEF SpaceType
      <4> QED BY <4>2, <4>3
    <3>2. CASE space.hydrating /\ space.err
      <4>1. space' = [space EXCEPT !.finishing = F, !.retry = TRUE]
        BY <1>1, <3>2 DEF FinishQueue, Without, SpaceType
      <4> QED BY <4>1
    <3> QED BY <1>5, <3>1, <3>2
  <2> HIDE DEF F
  <2>2. /\ space' \in SpaceType /\ space'.recs = space.recs /\ space'.staged = space.staged
        /\ space'.hydrating = space.hydrating /\ space'.once = space.once /\ space'.err = space.err
        /\ space'.epoch = space.epoch /\ space'.queue = space.queue
        /\ space'.finishing = F /\ space'.sync = space.sync
    BY <1>1, <1>3, <2>1 DEF SpaceType
  <2>3. GateTypeOK'
    BY <1>1, <1>2, <2>2, ShapesNext
  <2> QED BY <1>2, <1>3, <1>4, <2>2, <2>3, SilentKeeps
<1>6. CASE space.hydrating /\ ~space.err
  <2> DEFINE f == [space.finishing[i] EXCEPT !.step = "seed"]
             G == [space.finishing EXCEPT ![i] = f]
  <2>1. space.finishing[i] \in Finish
    BY <1>1
  <2>2. /\ f \in Finish /\ f.step = "seed" /\ f.due = space.finishing[i].due
        /\ f.wait = space.finishing[i].wait
    BY <2>1 DEF Finish
  <2>3. space' = [space EXCEPT !.finishing = G, !.hydrating = FALSE]
    BY <1>6 DEF FinishQueue
  <2> HIDE DEF f
  <2>4. /\ G \in Seq(Finish) /\ DOMAIN G = DOMAIN space.finishing /\ G[i] = f
        /\ \A j \in DOMAIN G : j # i => G[j] = space.finishing[j]
    BY <1>1, <2>2
  <2> HIDE DEF G
  <2>5. /\ space' \in SpaceType /\ space'.recs = space.recs /\ space'.staged = space.staged
        /\ space'.hydrating = FALSE /\ space'.once = space.once /\ space'.err = space.err
        /\ space'.epoch = space.epoch /\ space'.queue = space.queue
        /\ space'.finishing = G /\ space'.sync = space.sync
    BY <1>1, <2>3, <2>4 DEF SpaceType
  <2>6. GateTypeOK'
    BY <1>1, <1>2, <2>5, ShapesNext
  <2>7. FinishCovered'
    <3> SUFFICES ASSUME ~space.once, NEW j \in DOMAIN space.finishing
                 PROVE  LET g == G[j] IN
                    /\ g.wait <= Len(space.queue)
                    /\ g.step = "queue" /\ g.wait > 0 => Under(g.due, space.queue[g.wait].recs)
                    /\ g.step = "queue" /\ g.wait = 0 => Under(g.due, space.recs) \/ space.err
                    /\ g.step = "seed" => Under(g.due, space.recs)
      BY <2>4, <2>5 DEF FinishCovered
    <3>1. CASE j = i
      <4>1. space.finishing[i].step = "queue" /\ space.finishing[i].wait = 0
        BY DEF FinishQueue, Ready
      <4>2. Under(f.due, space.recs) /\ f.wait <= Len(space.queue)
        BY <1>6, <2>2, <4>1 DEF GInv, FinishCovered
      <4> QED BY <2>2, <2>4, <3>1, <4>2
    <3>2. CASE j # i
      BY <2>4, <3>2 DEF GInv, FinishCovered
    <3> QED BY <3>1, <3>2
  <2>8. DoneCovered'
    <3>1. GotIsLast => GotIsLast'
      BY <1>2, <2>5 DEF GotIsLast
    <3> QED BY <1>2, <2>5, <3>1, DoneStays DEF GInv
  <2>9. VersionsIssued' /\ FirstComesFirst' /\ EpochsAscend' /\ GateMeansApplied'
    BY <1>2, <2>5 DEF GInv, VersionsIssued, IsIssued, FirstComesFirst, EpochsAscend, GateMeansApplied
  <2>10. PulledIsKnown' /\ KeptSomewhere' /\ FramesFromHub'
    BY <1>2, <2>5 DEF GInv, PulledIsKnown, KeptSomewhere, FramesFromHub
  <2> QED BY <2>6, <2>7, <2>8, <2>9, <2>10 DEF GInv
<1> QED BY <1>1, <1>5, <1>6

(* The Sync control.                                                       *)
LEMMA IdleFields == /\ Idle \in Sync /\ Idle.recs = NoVersions /\ Idle.step = "idle"
                    /\ \A r \in Versions :
                         LET y == [Idle EXCEPT !.step = "pull", !.recs = r] IN
                         y \in Sync /\ y.recs = r /\ y.step = "pull"
                    /\ \A L \in SUBSET Cookies :
                         LET y == [Idle EXCEPT !.step = "push", !.local = L] IN
                         y \in Sync /\ y.recs = NoVersions /\ y.step = "push"
  BY NoneAndOnly DEF Idle, Sync, Versions

LEMMA IdleHasNone == /\ Idle \in Sync /\ Idle.recs = NoVersions /\ Idle.step # "pull"
                     /\ NoVersions \in Versions /\ \A c \in Cookies : NoVersions[c] = 0
<1>1. Idle \in Sync /\ Idle.recs = NoVersions /\ Idle.step = "idle"
  BY IdleFields
<1> QED BY <1>1, NoneAndOnly

LEMMA PullStartKeeps == ASSUME GInv, PullStart PROVE GInv'
<1> DEFINE y == [Idle EXCEPT !.step = "pull", !.recs = space.staged]
<1>1. GateTypeOK /\ space \in SpaceType /\ link \in LinkType /\ peers \in PeersType
      /\ space.staged \in Versions /\ space.recs \in Versions /\ peers.ver \in Nat
  BY Shapes, Parts DEF GInv
<1>2. y \in Sync /\ y.recs = space.staged /\ y.step = "pull"
  BY <1>1, IdleFields
<1>3. space' = [space EXCEPT !.sync = y] /\ gate' = "closed" /\ link' = link /\ peers' = peers
  BY DEF PullStart
<1> HIDE DEF y
<1>4. /\ space' \in SpaceType /\ space'.recs = space.recs /\ space'.staged = space.staged
      /\ space'.hydrating = space.hydrating /\ space'.once = space.once /\ space'.err = space.err
      /\ space'.epoch = space.epoch /\ space'.queue = space.queue
      /\ space'.finishing = space.finishing /\ space'.sync = y
  BY <1>1, <1>2, <1>3 DEF SpaceType
<1>5. GateTypeOK'
  BY <1>1, <1>3, <1>4, ShapesNext
<1>6. /\ Under(space.recs, space'.recs) /\ Under(space.staged, space'.staged) /\ peers.ver <= peers'.ver
      /\ \A c \in Cookies : space'.recs[c] <= peers'.ver /\ space'.staged[c] <= peers'.ver
                            /\ space'.sync.recs[c] <= peers'.ver
  BY <1>1, <1>2, <1>3, <1>4, UnderItself DEF GInv, VersionsIssued, IsIssued
<1>7. FirstComesFirst'
  <2>1. space.once
    BY DEF PullStart, GInv, FirstComesFirst
  <2> QED BY <1>4, <2>1 DEF FirstComesFirst
<1>8. GateMeansApplied' /\ PulledIsKnown'
  BY <1>1, <1>2, <1>3, <1>4 DEF GateMeansApplied, PulledIsKnown, Versions
<1>9. KeptSomewhere'
  BY <1>1, <1>3, <1>4, <1>5, <1>6, KeptStays DEF GInv
<1> QED BY <1>3, <1>4, <1>5, <1>6, <1>7, <1>8, <1>9, QuietKeeps

LEMMA PushStartKeeps == ASSUME GInv, PushStart PROVE GInv'
<1> DEFINE y == [Idle EXCEPT !.step = "push", !.local = space.jar]
<1>1. GateTypeOK /\ space \in SpaceType /\ link \in LinkType /\ gate \in {"open", "closed"}
      /\ space.recs \in Versions /\ space.jar \in SUBSET Cookies
  BY Shapes, Parts DEF GInv, SpaceType
<1>2. y \in Sync /\ y.recs = NoVersions /\ y.step = "push"
  BY <1>1, IdleFields
<1>3. space' = [space EXCEPT !.sync = y] /\ gate' = gate /\ link' = link
  BY DEF PushStart
<1> HIDE DEF y
<1>4. /\ space' \in SpaceType /\ space'.recs = space.recs /\ space'.staged = space.staged
      /\ space'.hydrating = space.hydrating /\ space'.once = space.once /\ space'.err = space.err
      /\ space'.epoch = space.epoch /\ space'.queue = space.queue
      /\ space'.finishing = space.finishing /\ space'.sync = y
  BY <1>1, <1>2, <1>3 DEF SpaceType
<1>5. space.sync.recs = NoVersions
  BY IdleFields DEF PushStart
<1>6. peers' \in PeersType /\ peers'.ver = peers.ver /\ peers'.hub = peers.hub
  BY <1>1, UpsetCounts DEF PushStart
<1>7. /\ Under(space.recs, space'.recs) /\ peers.ver <= peers'.ver
      /\ \A d \in Cookies : space'.recs[d] <= peers'.ver
  BY <1>1, <1>4, <1>6, UnderItself, Parts DEF GInv, VersionsIssued, IsIssued
<1>8. GateTypeOK'
  BY <1>1, <1>3, <1>4, <1>6, ShapesNext
<1>9. space'.sync.recs = space.sync.recs /\ space'.sync.step # "pull"
  BY <1>2, <1>4, <1>5
<1> QED BY <1>3, <1>4, <1>6, <1>7, <1>8, <1>9, SilentKeeps

LEMMA PushVisitKeeps == ASSUME GInv, NEW c \in Cookies, PushVisit(c) PROVE GInv'
<1> DEFINE y == [space.sync EXCEPT !.seen = @ \union {c}]
           n == [space.recs EXCEPT ![c] = peers.ver + 1]
<1>1. GateTypeOK /\ space \in SpaceType /\ link \in LinkType /\ gate \in {"open", "closed"}
      /\ space.recs \in Versions /\ space.sync \in Sync /\ peers \in PeersType /\ peers.ver \in Nat
  BY Shapes, Parts DEF GInv, SpaceType
<1>2. y \in Sync /\ y.recs = space.sync.recs /\ y.step = space.sync.step
  BY <1>1 DEF Sync
<1>3. gate' = gate /\ link' = link
  BY DEF PushVisit
<1>4. \A d \in Cookies : space.recs[d] \in Nat /\ space.recs[d] <= peers.ver
  BY <1>1 DEF GInv, VersionsIssued, IsIssued, Versions
<1>5. /\ n \in Versions /\ \A d \in Cookies : n[d] = IF d = c THEN peers.ver + 1 ELSE space.recs[d]
  BY <1>1 DEF Versions
<1> HIDE DEF n
<1>6. CASE space' = [space EXCEPT !.sync.seen = @ \union {c}] /\ peers' = peers
  <2>1. space' = [space EXCEPT !.sync = y]
    BY <1>6
  <2> HIDE DEF y
  <2>2. /\ space' \in SpaceType /\ space'.recs = space.recs /\ space'.staged = space.staged
        /\ space'.hydrating = space.hydrating /\ space'.once = space.once /\ space'.err = space.err
        /\ space'.epoch = space.epoch /\ space'.queue = space.queue
        /\ space'.finishing = space.finishing /\ space'.sync = y
    BY <1>1, <1>2, <2>1 DEF SpaceType
  <2>3. /\ Under(space.recs, space'.recs) /\ peers.ver <= peers'.ver
        /\ \A d \in Cookies : space'.recs[d] <= peers'.ver
    BY <1>1, <1>4, <1>6, <2>2, UnderItself
  <2>4. GateTypeOK'
    BY <1>1, <1>3, <1>6, <2>2, ShapesNext
  <2> QED BY <1>2, <1>3, <1>6, <2>2, <2>3, <2>4, SilentKeeps
<1>7. CASE /\ peers' = [peers EXCEPT !.ver = @ + 1]
           /\ space' = [space EXCEPT !.sync.seen = @ \union {c}, !.recs[c] = peers.ver + 1]
  <2>1. space' = [space EXCEPT !.sync = y, !.recs = n]
    BY <1>1, <1>7 DEF SpaceType, n
  <2> HIDE DEF y
  <2>2. /\ space' \in SpaceType /\ space'.recs = n /\ space'.staged = space.staged
        /\ space'.hydrating = space.hydrating /\ space'.once = space.once /\ space'.err = space.err
        /\ space'.epoch = space.epoch /\ space'.queue = space.queue
        /\ space'.finishing = space.finishing /\ space'.sync = y
    BY <1>1, <1>2, <1>5, <2>1 DEF SpaceType
  <2>3. peers' \in PeersType /\ peers'.ver = peers.ver + 1 /\ peers'.hub = peers.hub
    BY <1>1, <1>7 DEF PeersType
  <2>4. /\ Under(space.recs, n) /\ peers.ver <= peers'.ver
        /\ \A d \in Cookies : n[d] <= peers'.ver
    BY <1>1, <1>4, <1>5, <2>3 DEF Under
  <2>5. GateTypeOK'
    BY <1>1, <1>3, <2>2, <2>3, ShapesNext
  <2> QED BY <1>2, <1>3, <2>2, <2>3, <2>4, <2>5, SilentKeeps
<1> QED BY <1>6, <1>7 DEF PushVisit

(* What the clearing sweeps away is counted as dropped; the rest is as new *)
(* as what was written.                                                    *)
LEMMA ClearedKeeps ==
  ASSUME GateTypeOK, GateTypeOK', KeptSomewhere, NEW kept \in Versions, link'.got = link.got,
         link'.dropped = link.dropped \union Cleared(kept), space'.queue = space.queue,
         Under(space.recs, space'.recs), Under(kept, space'.recs)
  PROVE  KeptSomewhere'
<1> SUFFICES ASSUME NEW c \in Cookies, c \notin link'.dropped
             PROVE  \/ link.got[c] <= space'.recs[c]
                    \/ \E i \in DOMAIN space.queue : link.got[c] <= space.queue[i].recs[c]
  BY DEF KeptSomewhere
<1>1. /\ link.got[c] \in Nat /\ space.recs[c] \in Nat /\ space.staged[c] \in Nat /\ kept[c] \in Nat
      /\ space'.recs[c] \in Nat
  <2>1. link.got \in Versions /\ space.recs \in Versions /\ space.staged \in Versions
    BY Parts
  <2>2. space'.recs \in Versions
    BY ShapesNext DEF SpaceType
  <2> QED BY <2>1, <2>2 DEF Versions
<1>2. \/ link.got[c] <= space.recs[c] \/ link.got[c] <= space.staged[c]
      \/ \E i \in DOMAIN space.queue : link.got[c] <= space.queue[i].recs[c]
  BY DEF KeptSomewhere
<1>3. space.recs[c] <= space'.recs[c] /\ kept[c] <= space'.recs[c]
  BY DEF Under
<1>4. ~(space.staged[c] > Max({kept[c], space.recs[c]}))
  BY DEF Cleared
<1>5. space.staged[c] <= space'.recs[c]
  BY <1>1, <1>3, <1>4, MaxOfTwo
<1> QED BY <1>1, <1>2, <1>3, <1>5

LEMMA PushEndKeeps == ASSUME GInv, PushEnd PROVE GInv'
<1> DEFINE n == [c \in Cookies |-> IF c \in space.jar THEN peers.ver + 1 ELSE space.recs[c]]
           D == link.dropped \union Cleared(n)
<1>1. GateTypeOK /\ space \in SpaceType /\ link \in LinkType /\ gate \in {"open", "closed"}
      /\ space.recs \in Versions /\ peers \in PeersType /\ peers.ver \in Nat
      /\ link.dropped \subseteq Cookies
  BY Shapes, Parts DEF GInv
<1>2. \A d \in Cookies : space.recs[d] \in Nat /\ space.recs[d] <= peers.ver
  BY <1>1 DEF GInv, VersionsIssued, IsIssued, Versions
<1>3. /\ n \in Versions /\ \A d \in Cookies : n[d] = IF d \in space.jar THEN peers.ver + 1 ELSE space.recs[d]
  BY <1>1, <1>2 DEF Versions
<1>4. /\ space' = [space EXCEPT !.recs = n, !.staged = NoVersions, !.sync = Idle]
      /\ link' = [link EXCEPT !.dropped = D] /\ gate' = gate /\ peers' = [peers EXCEPT !.ver = @ + 1]
  BY DEF PushEnd
<1>5. D \subseteq Cookies /\ D = link.dropped \union Cleared(n)
  BY <1>1 DEF Cleared
<1> HIDE DEF n, D
<1>6. /\ space' \in SpaceType /\ space'.recs = n /\ space'.staged = NoVersions
      /\ space'.hydrating = space.hydrating /\ space'.once = space.once /\ space'.err = space.err
      /\ space'.epoch = space.epoch /\ space'.queue = space.queue
      /\ space'.finishing = space.finishing /\ space'.sync = Idle
  BY <1>1, <1>3, <1>4, IdleHasNone DEF SpaceType
<1>7. /\ link' \in LinkType /\ link'.got = link.got /\ link'.dropped = D
      /\ link'.frames = link.frames /\ link'.asked = link.asked /\ link'.up = link.up
  BY <1>1, <1>4, <1>5 DEF LinkType
<1>8. peers' \in PeersType /\ peers'.ver = peers.ver + 1 /\ peers'.hub = peers.hub
  BY <1>1, <1>4 DEF PeersType
<1>9. GateTypeOK'
  BY <1>1, <1>4, <1>6, <1>7, <1>8, ShapesNext
<1>10. /\ Under(space.recs, n) /\ Under(n, n) /\ \A c \in Cookies : n[c] <= peers.ver + 1
  BY <1>1, <1>2, <1>3 DEF Under
<1>11. \A c \in Cookies : /\ space'.recs[c] <= peers'.ver /\ space'.staged[c] <= peers'.ver
                          /\ space'.sync.recs[c] <= peers'.ver
  BY <1>1, <1>6, <1>8, <1>10, IdleHasNone
<1>12. FirstComesFirst'
  BY <1>6, IdleHasNone DEF GInv, FirstComesFirst
<1>13. GateMeansApplied'
  BY <1>4, <1>6 DEF GInv, GateMeansApplied
<1>14. PulledIsKnown'
  BY <1>6, IdleHasNone DEF PulledIsKnown
<1>15. KeptSomewhere'
  BY <1>1, <1>3, <1>5, <1>6, <1>7, <1>9, <1>10, ClearedKeeps DEF GInv
<1>16. peers.ver <= peers'.ver
  BY <1>1, <1>8
<1> QED BY <1>6, <1>7, <1>8, <1>9, <1>10, <1>11, <1>12, <1>13, <1>14, <1>15, <1>16, QuietKeeps

LEMMA PullEndKeeps == ASSUME GInv, PullEnd PROVE GInv'
<1>1. GateTypeOK /\ space \in SpaceType /\ link \in LinkType /\ gate' = "open" /\ space.once
      /\ space.recs \in Versions /\ peers \in PeersType /\ peers.ver \in Nat
      /\ link.dropped \subseteq Cookies /\ space.sync.recs \in Versions /\ space.staged \in Versions
  BY Shapes, Parts DEF GInv, PullEnd, FirstComesFirst
<1>2. \A c \in Cookies : /\ space.recs[c] <= peers.ver /\ space.sync.recs[c] <= peers.ver
                         /\ space.staged[c] <= peers.ver
  BY DEF GInv, VersionsIssued, IsIssued
<1>3. CASE /\ space' = [Applied(space, space.sync.recs) EXCEPT !.staged = NoVersions, !.sync = Idle]
           /\ link' = [link EXCEPT !.dropped = @ \union Cleared(space.sync.recs)]
           /\ peers' = peers
  <2> DEFINE t == Applied(space, space.sync.recs)
             n == NewestOf(space.recs, space.sync.recs)
             D == link.dropped \union Cleared(space.sync.recs)
  <2>1. /\ t \in SpaceType /\ t.recs = n /\ t.hydrating = space.hydrating /\ t.once = space.once
        /\ t.err = space.err /\ t.epoch = space.epoch /\ t.queue = space.queue
        /\ t.finishing = space.finishing
    BY <1>1, AppliedFields
  <2>2. /\ n \in Versions /\ Under(space.recs, n) /\ Under(space.sync.recs, n)
        /\ \A c \in Cookies : n[c] <= peers.ver
    BY <1>1, <1>2, NewestOfTwo DEF Under, Versions
  <2>3. D \subseteq Cookies /\ D = link.dropped \union Cleared(space.sync.recs)
    BY <1>1 DEF Cleared
  <2> HIDE DEF t, n, D
  <2>4. space' = [t EXCEPT !.staged = NoVersions, !.sync = Idle] /\ link' = [link EXCEPT !.dropped = D]
    BY <1>3 DEF t, D
  <2>5. /\ space' \in SpaceType /\ space'.recs = n /\ space'.staged = NoVersions
        /\ space'.hydrating = space.hydrating /\ space'.once = space.once /\ space'.err = space.err
        /\ space'.epoch = space.epoch /\ space'.queue = space.queue
        /\ space'.finishing = space.finishing /\ space'.sync = Idle
    BY <2>1, <2>4, IdleHasNone DEF SpaceType
  <2>6. /\ link' \in LinkType /\ link'.got = link.got /\ link'.dropped = D
        /\ link'.frames = link.frames /\ link'.asked = link.asked /\ link'.up = link.up
    BY <1>1, <2>3, <2>4 DEF LinkType
  <2>7. GateTypeOK'
    BY <1>1, <1>3, <2>5, <2>6, ShapesNext
  <2>8. \A c \in Cookies : /\ space'.recs[c] <= peers'.ver /\ space'.staged[c] <= peers'.ver
                           /\ space'.sync.recs[c] <= peers'.ver
    BY <1>1, <1>3, <2>2, <2>5, IdleHasNone
  <2>9. FirstComesFirst' /\ GateMeansApplied'
    BY <1>1, <2>5 DEF FirstComesFirst, GateMeansApplied
  <2>10. PulledIsKnown'
    BY <2>5, IdleHasNone DEF PulledIsKnown
  <2>11. KeptSomewhere'
    BY <1>1, <2>2, <2>3, <2>5, <2>6, <2>7, ClearedKeeps DEF GInv
  <2>12. peers.ver <= peers'.ver /\ peers'.hub = peers.hub
    BY <1>1, <1>3
  <2> QED BY <2>2, <2>5, <2>6, <2>7, <2>8, <2>9, <2>10, <2>11, <2>12, QuietKeeps
<1>4. CASE Upset /\ space' = [space EXCEPT !.sync = Idle] /\ link' = link
  <2>1. /\ space' \in SpaceType /\ space'.recs = space.recs /\ space'.staged = space.staged
        /\ space'.hydrating = space.hydrating /\ space'.once = space.once /\ space'.err = space.err
        /\ space'.epoch = space.epoch /\ space'.queue = space.queue
        /\ space'.finishing = space.finishing /\ space'.sync = Idle
    BY <1>1, <1>4, IdleHasNone DEF SpaceType
  <2>2. peers' \in PeersType /\ peers'.ver = peers.ver /\ peers'.hub = peers.hub
    BY <1>1, <1>4, UpsetCounts
  <2>3. GateTypeOK'
    BY <1>1, <1>4, <2>1, <2>2, ShapesNext
  <2>4. \A c \in Cookies : /\ space'.recs[c] <= peers'.ver /\ space'.staged[c] <= peers'.ver
                           /\ space'.sync.recs[c] <= peers'.ver
    BY <1>1, <1>2, <2>1, <2>2, IdleHasNone
  <2>5. FirstComesFirst' /\ GateMeansApplied'
    BY <1>1, <2>1 DEF FirstComesFirst, GateMeansApplied
  <2>6. PulledIsKnown'
    BY <1>1, <2>1, IdleHasNone DEF PulledIsKnown, Versions
  <2>7. /\ Under(space.recs, space'.recs) /\ Under(space.staged, space'.staged) /\ peers.ver <= peers'.ver
    BY <1>1, <2>1, <2>2, UnderItself
  <2>8. KeptSomewhere'
    BY <1>1, <1>4, <2>1, <2>3, <2>7, KeptStays DEF GInv
  <2> QED BY <1>4, <2>1, <2>2, <2>3, <2>4, <2>5, <2>6, <2>7, <2>8, QuietKeeps
<1> QED BY <1>3, <1>4 DEF PullEnd

(* The hub and the socket.                                                 *)
LEMMA SpaceSame ==
  ASSUME GInv, space' = space, gate' = gate
  PROVE  FirstComesFirst' /\ EpochsAscend' /\ GateMeansApplied' /\ PulledIsKnown' /\ FinishCovered'
<1>1. FirstComesFirst' /\ EpochsAscend'
  BY DEF GInv, FirstComesFirst, EpochsAscend
<1>2. GateMeansApplied' /\ PulledIsKnown'
  BY DEF GInv, GateMeansApplied, PulledIsKnown
<1>3. FinishCovered'
  BY DEF GInv, FinishCovered
<1> QED BY <1>1, <1>2, <1>3

LEMMA PeerWritesKeeps == ASSUME GInv, NEW c \in Cookies, PeerWrites(c) PROVE GInv'
<1> DEFINE v == peers.ver + 1
           r == Only1(c, v)
           h == [peers.hub EXCEPT ![c] = v]
           m == Records(r)
<1>1. GateTypeOK /\ space \in SpaceType /\ link \in LinkType /\ gate \in {"open", "closed"}
      /\ peers \in PeersType /\ peers.ver \in Nat /\ peers.hub \in Versions
      /\ link.frames \in Seq(Frame) /\ link.got \in Versions
  BY Shapes, Parts DEF GInv
<1>0. v \in Nat /\ peers.ver < v
  BY <1>1
<1>2. v \in Nat /\ r \in Versions /\ \A d \in Cookies : r[d] = IF d = c THEN v ELSE 0
  <2> HIDE DEF v
  <2> QED BY <1>0, OnlyOne
<1>3. h \in Versions /\ \A d \in Cookies : h[d] = IF d = c THEN v ELSE peers.hub[d]
  BY <1>1, <1>2 DEF Versions
<1>4. m \in Frame /\ m.t = "records" /\ m.recs = r
  BY <1>2 DEF Records, Frame
<1>5. /\ peers' = [peers EXCEPT !.ver = v, !.writes = @ + 1, !.hub = h]
      /\ space' = space /\ gate' = gate
  BY <1>1 DEF PeerWrites, PeersType
<1>6. link' = link \/ link' = [link EXCEPT !.frames = Append(link.frames, m)]
  BY DEF PeerWrites
<1> HIDE DEF v, r, h, m
<1>7. peers' \in PeersType /\ peers'.ver = v /\ peers'.hub = h
  <2>1. PICK w \in Nat : w = peers.writes + 1
    BY <1>1 DEF PeersType
  <2>2. peers' = [peers EXCEPT !.ver = v, !.writes = w, !.hub = h]
    BY <1>5, <2>1
  <2> QED BY <1>1, <1>2, <1>3, <2>2 DEF PeersType
<1>8. PICK F \in Seq(Frame) : F = Append(link.frames, m)
  BY <1>1, <1>4, AppendsOne, ZenonT(60)
<1>9. /\ link' \in LinkType /\ link'.up = link.up /\ link'.asked = link.asked /\ link'.got = link.got
      /\ link'.dropped = link.dropped
      /\ link'.frames = link.frames \/ link'.frames = F
  BY <1>1, <1>6, <1>8 DEF LinkType
<1>10. /\ Len(F) = Len(link.frames) + 1 /\ F[Len(F)] = m
       /\ \A i \in DOMAIN link.frames : i \in DOMAIN F /\ F[i] = link.frames[i]
       /\ \A i \in DOMAIN F : i \in DOMAIN link.frames \/ i = Len(link.frames) + 1
       /\ DOMAIN F = 1..Len(F) /\ DOMAIN link.frames = 1..Len(link.frames) /\ Len(link.frames) \in Nat
  BY <1>1, <1>4, <1>8
<1>11. GateTypeOK'
  BY <1>1, <1>5, <1>7, <1>9, ShapesNext
<1>12. \A d \in Cookies : /\ peers.hub[d] \in Nat /\ peers.hub[d] <= peers.ver
                          /\ h[d] \in Nat /\ r[d] \in Nat
  BY <1>1, <1>2, <1>3 DEF GInv, VersionsIssued, IsIssued, Versions
<1>13. Under(peers.hub, h) /\ Under(r, h) /\ \A d \in Cookies : h[d] <= v /\ r[d] <= v
  <2>1. ASSUME NEW d \in Cookies PROVE peers.hub[d] <= h[d] /\ r[d] <= h[d] /\ h[d] <= v /\ r[d] <= v
    BY <1>0, <1>1, <1>2, <1>3, <1>12
  <2> QED BY <2>1 DEF Under
<1>14. \A q \in Versions : (\A d \in Cookies : q[d] <= peers.ver) => \A d \in Cookies : q[d] <= v
  BY <1>0, <1>1 DEF Versions
<1>15. VersionsIssued'
  <2>1. /\ \A d \in Cookies : space.recs[d] <= v /\ space.staged[d] <= v /\ space.sync.recs[d] <= v
    BY <1>1, <1>14, Parts DEF GInv, VersionsIssued, IsIssued
  <2>2. ASSUME NEW i \in DOMAIN space.queue PROVE \A d \in Cookies : space.queue[i].recs[d] <= v
    BY <1>1, <1>14, Parts DEF GInv, VersionsIssued, IsIssued
  <2>3. ASSUME NEW i \in DOMAIN link.frames PROVE \A d \in Cookies : link.frames[i].recs[d] <= v
    BY <1>1, <1>14, Parts DEF GInv, VersionsIssued, IsIssued
  <2>4. ASSUME NEW i \in DOMAIN link'.frames PROVE \A d \in Cookies : link'.frames[i].recs[d] <= v
    <3>1. CASE link'.frames = link.frames
      BY <2>3, <3>1
    <3>2. CASE link'.frames = F
      BY <1>4, <1>10, <1>13, <2>3, <3>2
    <3> QED BY <1>9, <3>1, <3>2
  <2> QED BY <1>5, <1>7, <1>13, <2>1, <2>2, <2>4 DEF VersionsIssued, IsIssued
<1>16. FramesFromHub'
  <2>1. Under(link.got, h)
    BY <1>1, <1>3, <1>13, UnderTransitive DEF GInv, FramesFromHub
  <2>2. ASSUME NEW i \in DOMAIN link.frames PROVE Under(link.frames[i].recs, h)
    BY <1>1, <1>3, <1>13, Parts, UnderTransitive DEF GInv, FramesFromHub
  <2>3. ASSUME NEW i \in DOMAIN link'.frames PROVE Under(link'.frames[i].recs, h)
    <3>1. CASE link'.frames = link.frames
      BY <2>2, <3>1
    <3>2. CASE link'.frames = F
      BY <1>4, <1>10, <1>13, <2>2, <3>2
    <3> QED BY <1>9, <3>1, <3>2
  <2> QED BY <1>7, <1>9, <2>1, <2>3 DEF FramesFromHub
<1>17. DoneCovered'
  <2>1. GotIsLast => GotIsLast'
    BY <1>5, <1>9 DEF GotIsLast
  <2>2. CASE link'.frames = link.frames
    BY <1>5, <1>9, <2>1, <2>2, DoneStays DEF GInv
  <2>3. CASE link'.frames = F
    <3> SUFFICES ASSUME NEW p \in DOMAIN F, F[p].t = "done"
                 PROVE  /\ ~link.asked /\ link.up /\ F[p].recs = NoVersions
                        /\ \A q \in DOMAIN F : F[q].t = "done" => q = p
                        /\ p > 1 => /\ Under(link.got, F[p - 1].recs)
                                    /\ \A q \in 1..(p - 1) : Under(F[q].recs, F[p - 1].recs)
                        /\ p = 1 /\ ~space.once => GotIsLast'
      BY <1>5, <1>9, <2>3 DEF DoneCovered
    <3>1. p \in DOMAIN link.frames /\ F[p] = link.frames[p]
      BY <1>4, <1>10
    <3>2. /\ ~link.asked /\ link.up /\ link.frames[p].recs = NoVersions
          /\ \A q \in DOMAIN link.frames : link.frames[q].t = "done" => q = p
          /\ p > 1 => /\ Under(link.got, link.frames[p - 1].recs)
                      /\ \A q \in 1..(p - 1) : Under(link.frames[q].recs, link.frames[p - 1].recs)
          /\ p = 1 /\ ~space.once => GotIsLast
      BY <3>1 DEF GInv, DoneCovered
    <3>3. \A q \in 1..p : F[q] = link.frames[q]
      BY <1>10, <3>1
    <3>4. \A q \in DOMAIN F : F[q].t = "done" => q = p
      BY <1>4, <1>10, <3>2
    <3>5. p > 1 => F[p - 1] = link.frames[p - 1] /\ \A q \in 1..(p - 1) : F[q] = link.frames[q]
      BY <1>10, <3>1, <3>3
    <3> QED BY <2>1, <3>1, <3>2, <3>4, <3>5
  <2> QED BY <1>9, <2>2, <2>3
<1>18. KeptSomewhere'
  BY <1>5, <1>9 DEF GInv, KeptSomewhere
<1> QED BY <1>5, <1>11, <1>15, <1>16, <1>17, <1>18, SpaceSame DEF GInv

LEMMA HubHydratesKeeps == ASSUME GInv, HubHydrates PROVE GInv'
<1> DEFINE h == peers.hub
           m == Records(h)
           A == link.frames
           B == IF h = NoVersions THEN <<>> ELSE <<m>>
           F == A \o B \o <<HydrateDone>>
           n == Len(F)
<1>1. GateTypeOK /\ space \in SpaceType /\ link \in LinkType /\ gate \in {"open", "closed"}
      /\ peers \in PeersType /\ h \in Versions /\ A \in Seq(Frame) /\ link.got \in Versions
      /\ \A i \in DOMAIN A : A[i] \in Frame /\ A[i].recs \in Versions
  BY Shapes, Parts DEF GInv
<1>2. /\ m \in Frame /\ m.t = "records" /\ m.recs = h
      /\ HydrateDone \in Frame /\ HydrateDone.t = "done" /\ HydrateDone.recs = NoVersions
  BY <1>1, NoneAndOnly DEF Records, HydrateDone, Frame
<1>3. /\ space' = space /\ gate' = gate /\ peers' = peers
      /\ link' = [link EXCEPT !.asked = FALSE, !.frames = F]
  BY DEF HubHydrates
<1>4. \A i \in DOMAIN A : A[i].t # "done" /\ Under(A[i].recs, h) /\ \A d \in Cookies : A[i].recs[d] <= peers.ver
  BY DEF GInv, DoneCovered, HubHydrates, FramesFromHub, VersionsIssued, IsIssued
<1>5. /\ Under(link.got, h) /\ Under(h, h) /\ \A d \in Cookies : h[d] <= peers.ver
  BY <1>1, UnderItself DEF GInv, FramesFromHub, VersionsIssued, IsIssued
<1> HIDE DEF m, h
<1>6. /\ F \in Seq(Frame) /\ n \in Nat /\ n > 0 /\ DOMAIN F = 1..n /\ F[n] = HydrateDone
      /\ \A q \in 1..(n - 1) : q \in DOMAIN A \/ (q = n - 1 /\ F[q] = m)
      /\ \A q \in DOMAIN A : F[q] = A[q] /\ q <= n - 1
      /\ \A q \in 1..(n - 1) : F[q] = A[q] \/ F[q] = m
      /\ n > 1 => F[n - 1] = m \/ (h = NoVersions /\ n - 1 \in DOMAIN A /\ F[n - 1] = A[n - 1])
  <2>1. CASE h = NoVersions
    <3>1. F = A \o <<HydrateDone>>
      BY <1>1, <2>1
    <3> QED BY <1>1, <1>2, <2>1, <3>1
  <2>2. CASE h # NoVersions
    <3>1. F = A \o <<m>> \o <<HydrateDone>>
      BY <2>2
    <3> DEFINE G == A \o <<m>>
    <3>2. /\ G \in Seq(Frame) /\ Len(G) = Len(A) + 1 /\ G[Len(A) + 1] = m
          /\ \A q \in 1..Len(A) : G[q] = A[q]
          /\ DOMAIN A = 1..Len(A) /\ Len(A) \in Nat
      BY <1>1, <1>2, AppendsOne
    <3>4. F = G \o <<HydrateDone>>
      BY <3>1
    <3> HIDE DEF G, F
    <3>5. /\ F \in Seq(Frame) /\ Len(F) = Len(G) + 1 /\ F[Len(G) + 1] = HydrateDone
          /\ \A q \in 1..Len(G) : F[q] = G[q]
      BY <1>2, <3>2, <3>4, AppendsOne
    <3>3. /\ F \in Seq(Frame) /\ Len(F) = Len(A) + 2 /\ F[Len(A) + 2] = HydrateDone /\ F[Len(A) + 1] = m
          /\ \A q \in 1..Len(A) : F[q] = A[q]
          /\ DOMAIN A = 1..Len(A) /\ Len(A) \in Nat
      BY <3>2, <3>5
    <3> QED BY <3>3
  <2> QED BY <2>1, <2>2
<1> HIDE DEF F, B
<1>7. /\ link' \in LinkType /\ link'.up = link.up /\ link'.asked = FALSE /\ link'.got = link.got
      /\ link'.dropped = link.dropped /\ link'.frames = F
  BY <1>1, <1>3, <1>6 DEF LinkType
<1> HIDE DEF n
<1>8. GateTypeOK'
  BY <1>1, <1>3, <1>7, ShapesNext
<1>9. \A q \in 1..(n - 1) : /\ F[q].t # "done" /\ Under(F[q].recs, h) /\ F[q].recs \in Versions
                            /\ \A d \in Cookies : F[q].recs[d] <= peers.ver
  <2> SUFFICES ASSUME NEW q \in 1..(n - 1)
               PROVE  /\ F[q].t # "done" /\ Under(F[q].recs, h) /\ F[q].recs \in Versions
                      /\ \A d \in Cookies : F[q].recs[d] <= peers.ver
    OBVIOUS
  <2>1. CASE F[q] = m
    BY <1>1, <1>2, <1>5, <2>1
  <2>2. CASE q \in DOMAIN A
    BY <1>1, <1>4, <1>6, <2>2
  <2> QED BY <1>6, <2>1, <2>2
<1>10. \A d \in Cookies : NoVersions[d] = 0 /\ NoVersions[d] <= peers.ver
  BY <1>1, NoneAndOnly, Parts
<1>11. VersionsIssued'
  <2>1. ASSUME NEW i \in DOMAIN F PROVE \A d \in Cookies : F[i].recs[d] <= peers.ver
    BY <1>2, <1>6, <1>9, <1>10
  <2> QED BY <1>3, <1>7, <2>1 DEF GInv, VersionsIssued, IsIssued
<1>12. Under(NoVersions, h)
  BY <1>1, NoneIsUnder
<1>13. FramesFromHub'
  <2>1. ASSUME NEW i \in DOMAIN F PROVE Under(F[i].recs, h)
    BY <1>2, <1>6, <1>9, <1>12
  <2> QED BY <1>3, <1>5, <1>7, <2>1 DEF FramesFromHub, h
<1>14. n > 1 => Under(h, F[n - 1].recs) /\ F[n - 1].recs \in Versions
  <2> SUFFICES ASSUME n > 1 PROVE Under(h, F[n - 1].recs) /\ F[n - 1].recs \in Versions
    OBVIOUS
  <2>1. F[n - 1].recs \in Versions
    BY <1>6, <1>9
  <2>2. CASE F[n - 1] = m
    BY <1>2, <1>5, <2>1, <2>2
  <2>3. CASE h = NoVersions
    BY <2>1, <2>3, NoneIsUnder
  <2> QED BY <1>6, <2>1, <2>2, <2>3
<1>15. DoneCovered'
  <2> SUFFICES ASSUME NEW p \in DOMAIN F, F[p].t = "done"
               PROVE  /\ link.up /\ F[p].recs = NoVersions
                      /\ \A q \in DOMAIN F : F[q].t = "done" => q = p
                      /\ p > 1 => /\ Under(link.got, F[p - 1].recs)
                                  /\ \A q \in 1..(p - 1) : Under(F[q].recs, F[p - 1].recs)
                      /\ p = 1 /\ ~space.once => GotIsLast'
    BY <1>3, <1>7 DEF DoneCovered
  <2>1. p = n /\ \A q \in DOMAIN F : F[q].t = "done" => q = n
    BY <1>6, <1>9
  <2>2. ASSUME p > 1 PROVE /\ Under(link.got, F[p - 1].recs)
                           /\ \A q \in 1..(p - 1) : Under(F[q].recs, F[p - 1].recs)
    BY <1>1, <1>5, <1>9, <1>14, <2>1, <2>2, UnderTransitive
  <2>3. ASSUME p = 1, ~space.once PROVE GotIsLast'
    <3>1. h = NoVersions
      <4>1. CASE h # NoVersions
        <5>1. F = A \o <<m>> \o <<HydrateDone>>
          BY <4>1 DEF F, B
        <5> DEFINE G == A \o <<m>>
        <5>2. G \in Seq(Frame) /\ Len(G) = Len(A) + 1 /\ Len(A) \in Nat
          BY <1>1, <1>2, AppendsOne
        <5>3. F = G \o <<HydrateDone>>
          BY <5>1
        <5> HIDE DEF G
        <5>4. Len(F) = Len(G) + 1
          BY <1>2, <5>2, <5>3, AppendsOne
        <5>5. n = Len(A) + 2
          BY <5>2, <5>4 DEF n
        <5>6. n = 1
          BY <2>1, <2>3
        <5> HIDE DEF A
        <5> QED BY <5>2, <5>5, <5>6
      <4> QED BY <4>1
    <3>2. \A r \in Versions : Under(link.got, r)
      BY <1>1, <1>5, <3>1, NoneIsUnder, UnderTransitive
    <3>3. space.recs \in Versions /\ space.queue \in Seq(Job)
          /\ \A i \in DOMAIN space.queue : space.queue[i].recs \in Versions
      BY <1>1, Parts
    <3>4. space.queue # <<>> => Len(space.queue) \in DOMAIN space.queue
      BY <3>3
    <3> QED BY <1>3, <1>7, <3>2, <3>3, <3>4 DEF GotIsLast
  <2> QED BY <1>2, <1>6, <2>1, <2>2, <2>3 DEF HubHydrates
<1>16. KeptSomewhere'
  BY <1>3, <1>7 DEF GInv, KeptSomewhere
<1> QED BY <1>3, <1>8, <1>11, <1>13, <1>15, <1>16, SpaceSame DEF GInv

(* A new connection forgets the error, but no finishHydration is due then. *)
LEMMA ConnectKeeps == ASSUME GInv, Connect PROVE GInv'
<1>1. GateTypeOK /\ space \in SpaceType /\ link \in LinkType /\ gate \in {"open", "closed"}
      /\ peers \in PeersType /\ peers.hub \in Versions /\ space.recs \in Versions
      /\ space.staged \in Versions /\ space.queue \in Seq(Job)
  BY Shapes, Parts DEF GInv
<1>2. /\ space' = [space EXCEPT !.hydrating = @ \/ ~space.once, !.err = @ /\ space.once]
      /\ gate' = (IF ~space.once /\ ~space.hydrating THEN "closed" ELSE gate) /\ peers' = peers
      /\ link' = [up |-> TRUE, asked |-> TRUE, frames |-> <<>>, got |-> NoVersions, dropped |-> {}]
  BY DEF Connect, Reconnected
<1>3. /\ space' \in SpaceType /\ space'.recs = space.recs /\ space'.staged = space.staged
      /\ space'.once = space.once /\ space'.epoch = space.epoch /\ space'.queue = space.queue
      /\ space'.finishing = space.finishing /\ space'.sync = space.sync
      /\ space'.hydrating = (space.hydrating \/ ~space.once)
  BY <1>1, <1>2 DEF SpaceType
<1>4. /\ link' \in LinkType /\ link'.got = NoVersions /\ link'.frames = <<>>
  BY <1>2, NoneAndOnly, Nothing DEF LinkType
<1>5. GateTypeOK'
  BY <1>1, <1>2, <1>3, <1>4, ShapesNext
<1>6. VersionsIssued' /\ FirstComesFirst' /\ EpochsAscend'
  BY <1>2, <1>3, <1>4 DEF GInv, VersionsIssued, IsIssued, FirstComesFirst, EpochsAscend
<1>7. GateMeansApplied'
  BY <1>1, <1>2, <1>3 DEF GInv, GateMeansApplied
<1>8. PulledIsKnown'
  BY <1>3 DEF GInv, PulledIsKnown
<1>9. KeptSomewhere'
  <2>1. \A c \in Cookies : link'.got[c] <= space'.recs[c]
    BY <1>1, <1>3, <1>4, NoneIsUnder DEF Under
  <2> QED BY <2>1 DEF KeptSomewhere
<1>10. FramesFromHub' /\ DoneCovered'
  BY <1>1, <1>2, <1>4, NoneIsUnder DEF FramesFromHub, DoneCovered
<1>11. FinishCovered'
  <2> SUFFICES ASSUME ~space.once, NEW i \in DOMAIN space.finishing
               PROVE  LET f == space.finishing[i] IN
                      /\ f.wait <= Len(space.queue)
                      /\ f.step = "queue" /\ f.wait > 0 => Under(f.due, space.queue[f.wait].recs)
                      /\ ~(f.step = "queue" /\ f.wait = 0)
                      /\ f.step = "seed" => Under(f.due, space.recs)
    BY <1>3 DEF FinishCovered
  <2>1. ~Ready(space.finishing[i])
    BY DEF Connect, Turn
  <2> QED BY <2>1 DEF GInv, FinishCovered, Ready
<1> QED BY <1>5, <1>6, <1>7, <1>8, <1>9, <1>10, <1>11 DEF GInv

----------------------------------------------------------------------------
(* onRecords and onHydrated.                                               *)

LEMMA AppendsJob ==
  ASSUME NEW A \in Seq(Job), NEW j \in Job
  PROVE  LET Q == Append(A, j) IN
         /\ Q \in Seq(Job) /\ Len(Q) = Len(A) + 1 /\ Q[Len(A) + 1] = j /\ Q # <<>>
         /\ \A q \in 1..Len(A) : Q[q] = A[q]
         /\ DOMAIN Q = 1..(Len(A) + 1) /\ DOMAIN A = 1..Len(A) /\ Len(A) \in Nat
  OBVIOUS

LEMMA AppendsFinish ==
  ASSUME NEW A \in Seq(Finish), NEW g \in Finish
  PROVE  LET F == Append(A, g) IN
         /\ F \in Seq(Finish) /\ F[Len(A) + 1] = g
         /\ \A q \in 1..Len(A) : F[q] = A[q]
         /\ DOMAIN F = 1..(Len(A) + 1) /\ DOMAIN A = 1..Len(A) /\ Len(A) \in Nat
  OBVIOUS

LEMMA TailOfFrames ==
  ASSUME NEW A \in Seq(Frame), A # <<>>
  PROVE  /\ Head(A) \in Frame /\ Head(A) = A[1] /\ 1 \in DOMAIN A
         /\ Tail(A) \in Seq(Frame) /\ DOMAIN A = 1..Len(A) /\ Len(A) \in Nat \ {0}
         /\ DOMAIN Tail(A) = 1..(Len(A) - 1)
         /\ \A i \in 1..(Len(A) - 1) : Tail(A)[i] = A[i + 1]
  OBVIOUS

(* What a delivered frame leaves of the frames.                            *)
LEMMA DeliverLink ==
  ASSUME GInv, Deliver
  PROVE  LET f == Head(link.frames)
             n == NewestOf(link.got, f.recs) IN
         /\ link' \in LinkType /\ f \in Frame /\ f.recs \in Versions /\ n \in Versions
         /\ link'.got = n /\ link'.dropped = link.dropped /\ link'.frames = Tail(link.frames)
         /\ link'.up = link.up /\ link'.asked = link.asked
         /\ \A c \in Cookies : n[c] = link.got[c] \/ n[c] = f.recs[c]
         /\ \A c \in Cookies : f.recs[c] <= peers.ver
         /\ FramesFromHub'
         /\ \A i \in DOMAIN link'.frames : \A c \in Cookies : link'.frames[i].recs[c] <= peers.ver
<1> DEFINE f == Head(link.frames)
           n == NewestOf(link.got, f.recs)
           rest == Tail(link.frames)
<1>1. GateTypeOK /\ link \in LinkType /\ link.frames \in Seq(Frame) /\ link.got \in Versions
      /\ link.frames # <<>> /\ peers' = peers /\ peers.hub \in Versions
  BY Shapes, Parts DEF GInv, Deliver
<1>2. /\ f \in Frame /\ f = link.frames[1] /\ 1 \in DOMAIN link.frames /\ rest \in Seq(Frame)
      /\ DOMAIN link.frames = 1..Len(link.frames) /\ Len(link.frames) \in Nat \ {0}
      /\ DOMAIN rest = 1..(Len(link.frames) - 1)
      /\ \A i \in 1..(Len(link.frames) - 1) : rest[i] = link.frames[i + 1]
  BY <1>1, TailOfFrames
<1>3. link' = [link EXCEPT !.frames = rest, !.got = n]
  BY <1>1 DEF Deliver, LinkType
<1>4. f.recs \in Versions
  BY <1>2 DEF Frame
<1> HIDE DEF f, rest
<1>5. /\ n \in Versions /\ \A c \in Cookies : n[c] = link.got[c] \/ n[c] = f.recs[c]
  BY <1>1, <1>4, NewestOfTwo
<1> HIDE DEF n
<1>6. /\ link' \in LinkType /\ link'.got = n /\ link'.dropped = link.dropped /\ link'.frames = rest
      /\ link'.up = link.up /\ link'.asked = link.asked
  BY <1>1, <1>2, <1>3, <1>5 DEF LinkType
<1>7. \A i \in DOMAIN rest : i + 1 \in DOMAIN link.frames /\ rest[i] = link.frames[i + 1]
  BY <1>2
<1>8. FramesFromHub'
  <2>1. Under(link.got, peers.hub) /\ Under(f.recs, peers.hub)
    BY <1>2 DEF GInv, FramesFromHub
  <2>2. Under(n, peers.hub)
    BY <1>5, <2>1 DEF Under
  <2>3. \A i \in DOMAIN rest : Under(rest[i].recs, peers.hub)
    BY <1>7 DEF GInv, FramesFromHub
  <2> QED BY <1>1, <1>6, <2>2, <2>3 DEF FramesFromHub
<1>9. /\ \A c \in Cookies : f.recs[c] <= peers.ver
      /\ \A i \in DOMAIN rest : \A c \in Cookies : rest[i].recs[c] <= peers.ver
  BY <1>2, <1>7 DEF GInv, VersionsIssued, IsIssued
<1> QED BY <1>2, <1>4, <1>5, <1>6, <1>8, <1>9 DEF f, n, rest

(* hydrate.done moves up; the frame before it has everything.              *)
LEMMA DeliverDone ==
  ASSUME GInv, Deliver, space.once => space'.once,
         /\ link.frames[1].t # "done" /\ 2 \in DOMAIN link.frames /\ link.frames[2].t = "done"
            /\ Under(link'.got, link.frames[1].recs) /\ ~space'.once => GotIsLast'
  PROVE  DoneCovered'
<1> DEFINE f == Head(link.frames)
           n == NewestOf(link.got, f.recs)
           rest == Tail(link.frames)
<1>1. /\ link'.got = n /\ link'.frames = rest
      /\ link'.up = link.up /\ link'.asked = link.asked
      /\ \A c \in Cookies : n[c] = link.got[c] \/ n[c] = f.recs[c]
  BY DeliverLink
<1>2. link.frames \in Seq(Frame) /\ link.frames # <<>>
  BY Parts DEF GInv, Deliver
<1>3. /\ f = link.frames[1] /\ 1 \in DOMAIN link.frames
      /\ DOMAIN link.frames = 1..Len(link.frames) /\ Len(link.frames) \in Nat \ {0}
      /\ DOMAIN rest = 1..(Len(link.frames) - 1)
      /\ \A i \in 1..(Len(link.frames) - 1) : rest[i] = link.frames[i + 1]
  BY <1>2, TailOfFrames
<1> HIDE DEF f, n, rest
<1> SUFFICES ASSUME NEW p \in DOMAIN rest, rest[p].t = "done"
             PROVE  /\ ~link.asked /\ link.up /\ rest[p].recs = NoVersions
                    /\ \A q \in DOMAIN rest : rest[q].t = "done" => q = p
                    /\ p > 1 => /\ Under(n, rest[p - 1].recs)
                                /\ \A q \in 1..(p - 1) : Under(rest[q].recs, rest[p - 1].recs)
                    /\ p = 1 /\ ~space'.once => GotIsLast'
  BY <1>1 DEF DoneCovered
<1>4. p \in Nat /\ p >= 1 /\ p + 1 \in DOMAIN link.frames /\ link.frames[p + 1] = rest[p]
  BY <1>3
<1>5. /\ ~link.asked /\ link.up /\ link.frames[p + 1].recs = NoVersions
      /\ \A q \in DOMAIN link.frames : link.frames[q].t = "done" => q = p + 1
      /\ p + 1 > 1 => /\ Under(link.got, link.frames[p].recs)
                      /\ \A q \in 1..p : Under(link.frames[q].recs, link.frames[p].recs)
  <2>1. (p + 1) - 1 = p
    BY <1>4
  <2> QED BY <1>4, <2>1 DEF GInv, DoneCovered
<1>6. Under(n, link.frames[p].recs)
  <2>1. Under(link.got, link.frames[p].recs) /\ Under(f.recs, link.frames[p].recs)
    BY <1>3, <1>4, <1>5
  <2> QED BY <1>1, <2>1 DEF Under
<1>7. \A q \in DOMAIN rest : rest[q].t = "done" => q = p
  <2> SUFFICES ASSUME NEW q \in DOMAIN rest, rest[q].t = "done" PROVE q = p
    OBVIOUS
  <2>1. q \in Nat /\ q + 1 \in DOMAIN link.frames /\ link.frames[q + 1] = rest[q]
    BY <1>3
  <2>2. q + 1 = p + 1
    BY <1>5, <2>1
  <2> QED BY <1>4, <2>1, <2>2
<1>8. ASSUME p > 1 PROVE /\ Under(n, rest[p - 1].recs)
                         /\ \A q \in 1..(p - 1) : Under(rest[q].recs, rest[p - 1].recs)
  <2>1. rest[p - 1] = link.frames[p]
    BY <1>3, <1>4, <1>8
  <2>2. ASSUME NEW q \in 1..(p - 1) PROVE Under(rest[q].recs, rest[p - 1].recs)
    <3>1. q + 1 \in 1..p /\ rest[q] = link.frames[q + 1]
      BY <1>3, <1>4, <1>8
    <3> QED BY <1>4, <1>5, <2>1, <3>1
  <2> QED BY <1>6, <2>1, <2>2
<1>9. ASSUME p = 1, ~space'.once PROVE GotIsLast'
  <2>1. 2 \in DOMAIN link.frames /\ link.frames[2].t = "done"
    BY <1>4, <1>9
  <2>2. link.frames[1].t # "done"
    BY <1>3, <1>5, <1>9
  <2>3. Under(link'.got, link.frames[1].recs)
    BY <1>1, <1>6, <1>9
  <2> QED BY <1>9, <2>1, <2>2, <2>3
<1> QED BY <1>4, <1>5, <1>7, <1>8, <1>9

(* A record of the first hydration, or a newer one later, is queued.       *)
LEMMA QueuedKeeps ==
  ASSUME GInv, Deliver, GateTypeOK', NEW j \in Job, space'.queue = Append(space.queue, j),
         space'.recs = space.recs, space'.staged = space.staged, space'.once = space.once,
         space'.err = space.err, space'.finishing = space.finishing, space'.sync = space.sync,
         j.kind = "apply" => space'.epoch = j.epoch /\ j.epoch = space.epoch + 1 /\ gate' = "closed",
         j.kind # "apply" => space.once /\ space'.epoch = space.epoch,
         \A c \in Cookies : j.recs[c] <= peers.ver,
         \A c \in Cookies : \/ Head(link.frames).recs[c] <= space.recs[c]
                            \/ Head(link.frames).recs[c] <= j.recs[c],
         ~space.once => j.recs = Head(link.frames).recs
  PROVE  GInv'
<1> DEFINE f == Head(link.frames)
           n == NewestOf(link.got, f.recs)
           L == Len(space.queue)
<1>1. /\ GateTypeOK /\ space.queue \in Seq(Job) /\ space.recs \in Versions /\ space.staged \in Versions
      /\ space.epoch \in Nat /\ link.got \in Versions /\ peers.hub \in Versions
      /\ link.frames \in Seq(Frame) /\ link.frames # <<>>
      /\ \A i \in DOMAIN space.queue : space.queue[i].epoch \in Nat
  BY Parts DEF GInv, Deliver
<1>2. /\ Len(space'.queue) = L + 1 /\ space'.queue[L + 1] = j /\ space'.queue # <<>>
      /\ \A q \in 1..L : space'.queue[q] = space.queue[q]
      /\ DOMAIN space'.queue = 1..(L + 1) /\ DOMAIN space.queue = 1..L /\ L \in Nat
  BY <1>1, AppendsJob
<1>3. /\ f.recs \in Versions /\ n \in Versions
      /\ link'.got = n /\ link'.dropped = link.dropped
      /\ \A c \in Cookies : n[c] = link.got[c] \/ n[c] = f.recs[c]
      /\ FramesFromHub'
      /\ \A i \in DOMAIN link'.frames : \A c \in Cookies : link'.frames[i].recs[c] <= peers.ver
  BY DeliverLink
<1>4. peers' = peers /\ j.epoch \in Nat /\ j.recs \in Versions
  BY DEF Deliver, Job, Versions
<1> HIDE DEF f, n, L
<1>5. f = link.frames[1]
  BY <1>1, TailOfFrames DEF f
<1>6. VersionsIssued'
  <2>1. ASSUME NEW i \in DOMAIN space'.queue PROVE \A c \in Cookies : space'.queue[i].recs[c] <= peers.ver
    <3>1. CASE i \in 1..L
      BY <1>2, <3>1 DEF GInv, VersionsIssued, IsIssued
    <3>2. CASE i = L + 1
      BY <1>2, <3>2
    <3> QED BY <1>2, <3>1, <3>2
  <2> QED BY <1>3, <1>4, <2>1 DEF GInv, VersionsIssued, IsIssued
<1>7. FirstComesFirst'
  <2> SUFFICES ASSUME ~space.once, NEW i \in DOMAIN space'.queue PROVE space'.queue[i].kind = "apply"
    BY DEF GInv, FirstComesFirst
  <2>1. CASE i \in 1..L
    BY <1>2, <2>1 DEF GInv, FirstComesFirst
  <2>2. CASE i = L + 1
    BY <1>2, <2>2
  <2> QED BY <1>2, <2>1, <2>2
<1>8. EpochsAscend'
  <2>1. space'.epoch \in Nat /\ space.epoch <= space'.epoch
    BY <1>1, <1>4
  <2>2. ASSUME NEW i \in 1..L, space.queue[i].kind = "apply"
        PROVE  space.queue[i].epoch \in Nat /\ space.queue[i].epoch <= space.epoch
    BY <1>1, <1>2, <2>2 DEF GInv, EpochsAscend
  <2> SUFFICES ASSUME NEW i \in 1..(L + 1), space'.queue[i].kind = "apply"
               PROVE  /\ space'.queue[i].epoch <= space'.epoch
                      /\ \A k \in 1..(L + 1) : k > i /\ space'.queue[k].kind = "apply"
                           => space'.queue[i].epoch < space'.queue[k].epoch
    BY <1>2 DEF EpochsAscend
  <2>3. CASE i = L + 1
    BY <1>2, <1>4, <2>1, <2>3
  <2>4. CASE i \in 1..L
    <3>1. space'.queue[i] = space.queue[i] /\ space.queue[i].kind = "apply"
      BY <1>2, <2>4
    <3>2. space'.queue[i].epoch <= space'.epoch
      BY <1>1, <2>1, <2>2, <2>4, <3>1
    <3>3. ASSUME NEW k \in 1..(L + 1), k > i, space'.queue[k].kind = "apply"
          PROVE  space'.queue[i].epoch < space'.queue[k].epoch
      <4>1. CASE k = L + 1
        BY <1>1, <1>2, <1>4, <2>2, <2>4, <3>1, <3>3, <4>1
      <4>2. CASE k \in 1..L
        BY <1>2, <2>4, <3>1, <3>3, <4>2 DEF GInv, EpochsAscend
      <4> QED BY <1>2, <4>1, <4>2
    <3> QED BY <3>2, <3>3
  <2> QED BY <1>2, <2>3, <2>4
<1>9. GateMeansApplied'
  BY <1>7 DEF GateMeansApplied, FirstComesFirst, Job
<1>10. PulledIsKnown'
  BY DEF GInv, PulledIsKnown
<1>11. KeptSomewhere'
  <2> SUFFICES ASSUME NEW c \in Cookies \ link.dropped
               PROVE  \/ n[c] <= space.recs[c] \/ n[c] <= space.staged[c]
                      \/ \E i \in DOMAIN space'.queue : n[c] <= space'.queue[i].recs[c]
    BY <1>3 DEF KeptSomewhere
  <2>1. CASE n[c] = link.got[c]
    <3>1. \/ link.got[c] <= space.recs[c] \/ link.got[c] <= space.staged[c]
          \/ \E i \in DOMAIN space.queue : link.got[c] <= space.queue[i].recs[c]
      BY DEF GInv, KeptSomewhere
    <3> QED BY <1>2, <2>1, <3>1
  <2>2. CASE n[c] = f.recs[c]
    <3>1. f.recs[c] <= space.recs[c] \/ f.recs[c] <= j.recs[c]
      BY DEF f
    <3> QED BY <1>2, <2>2, <3>1
  <2> QED BY <1>3, <2>1, <2>2
<1>12. DoneCovered'
  <2>1. ~space'.once /\ Under(link'.got, link.frames[1].recs) => GotIsLast'
    BY <1>2, <1>5 DEF GotIsLast, f
  <2> QED BY <2>1, DeliverDone
<1>13. FinishCovered'
  <2>1. Under(space.recs, space'.recs) /\ Len(space.queue) <= Len(space'.queue)
        /\ \A i \in DOMAIN space.queue : space'.queue[i].recs = space.queue[i].recs
    BY <1>1, <1>2, UnderItself DEF L
  <2> QED BY <1>1, <2>1, FinishStays DEF GInv
<1> QED BY <1>3, <1>6, <1>7, <1>8, <1>9, <1>10, <1>11, <1>12, <1>13 DEF GInv

(* A frame that changes nothing but what has been delivered.               *)
LEMMA KnownKeeps ==
  ASSUME GInv, Deliver, GateTypeOK', space'.queue = space.queue, space'.epoch = space.epoch,
         space'.recs = space.recs, space'.staged = space.staged, space'.once = space.once,
         space'.err = space.err, space'.sync = space.sync, space'.hydrating = space.hydrating,
         gate' = gate, FinishCovered',
         \A c \in Cookies : Head(link.frames).recs[c] <= space.recs[c],
         space.once \/ link.frames[1].t = "done"
  PROVE  GInv'
<1> DEFINE f == Head(link.frames)
           n == NewestOf(link.got, f.recs)
<1>1. /\ f.recs \in Versions /\ n \in Versions
      /\ link'.got = n /\ link'.dropped = link.dropped
      /\ \A c \in Cookies : n[c] = link.got[c] \/ n[c] = f.recs[c]
      /\ FramesFromHub'
      /\ \A i \in DOMAIN link'.frames : \A c \in Cookies : link'.frames[i].recs[c] <= peers.ver
  BY DeliverLink
<1>2. peers' = peers
  BY DEF Deliver
<1> HIDE DEF f, n
<1>3. VersionsIssued' /\ FirstComesFirst' /\ EpochsAscend'
  BY <1>1, <1>2 DEF GInv, VersionsIssued, IsIssued, FirstComesFirst, EpochsAscend
<1>4. GateMeansApplied' /\ PulledIsKnown'
  BY DEF GInv, GateMeansApplied, PulledIsKnown
<1>5. KeptSomewhere'
  <2> SUFFICES ASSUME NEW c \in Cookies \ link.dropped
               PROVE  \/ n[c] <= space.recs[c] \/ n[c] <= space.staged[c]
                      \/ \E i \in DOMAIN space.queue : n[c] <= space.queue[i].recs[c]
    BY <1>1 DEF KeptSomewhere
  <2>1. f.recs[c] <= space.recs[c]
    BY DEF f
  <2> QED BY <1>1, <2>1 DEF GInv, KeptSomewhere
<1>6. DoneCovered'
  BY DeliverDone
<1> QED BY <1>1, <1>3, <1>4, <1>5, <1>6 DEF GInv

LEMMA DeliverKeeps == ASSUME GInv, Deliver PROVE GInv'
<1> DEFINE f == Head(link.frames)
           r == f.recs
<1>1. /\ GateTypeOK /\ space \in SpaceType /\ gate \in {"open", "closed"} /\ peers \in PeersType
      /\ space.queue \in Seq(Job) /\ space.recs \in Versions /\ space.epoch \in Nat
      /\ space.finishing \in Seq(Finish)
      /\ link.frames \in Seq(Frame) /\ link.frames # <<>> /\ link.got \in Versions
  BY Shapes, Parts DEF GInv, Deliver
<1>2. link' \in LinkType /\ r \in Versions /\ (\A c \in Cookies : r[c] <= peers.ver) /\ peers' = peers
  BY DeliverLink DEF Deliver
<1>3. f = link.frames[1] /\ 1 \in DOMAIN link.frames
  BY <1>1, TailOfFrames
<1>4. CASE f.t = "records" /\ space.once /\ TakeLive(r)
  <2> DEFINE new == Only(r, Candidates(r))
             j == [kind |-> "live", recs |-> new, epoch |-> 0]
  <2>1. new \in Versions /\ \A c \in Cookies : new[c] = IF c \in Candidates(r) THEN r[c] ELSE 0
    BY <1>2, NoneAndOnly
  <2>2. \A c \in Cookies : r[c] \in Nat /\ space.recs[c] \in Nat
    BY <1>1, <1>2 DEF Versions
  <2>3. \A c \in Cookies : c \notin Candidates(r) => r[c] <= space.recs[c]
    BY <2>2 DEF Candidates
  <2>4. j \in Job /\ j.kind = "live" /\ j.recs = new
    BY <2>1 DEF Job, Versions
  <2>5. gate' = gate /\ space' = IF new = NoVersions THEN space
                                 ELSE [space EXCEPT !.queue = Append(@, j)]
    BY <1>4 DEF TakeLive
  <2> HIDE DEF new, j
  <2>6. CASE new = NoVersions
    <3>1. \A c \in Cookies : r[c] <= space.recs[c]
      <4> SUFFICES ASSUME NEW c \in Cookies, c \in Candidates(r) PROVE FALSE
        BY <2>3
      <4>1. r[c] = 0
        BY <2>1, <2>6, NoneAndOnly
      <4> QED BY <2>2, <4>1 DEF Candidates
    <3>2. space' = space
      BY <2>5, <2>6
    <3>3. GateTypeOK'
      BY <1>1, <1>2, <2>5, <3>2, ShapesNext
    <3>4. FinishCovered'
      BY <3>2 DEF GInv, FinishCovered
    <3> QED BY <1>4, <2>5, <3>1, <3>2, <3>3, <3>4, KnownKeeps
  <2>7. CASE new # NoVersions
    <3>1. PICK Q \in Seq(Job) : Q = Append(space.queue, j)
      BY <1>1, <2>4, AppendsJob
    <3>2. space' = [space EXCEPT !.queue = Q]
      BY <2>5, <2>7, <3>1
    <3>3. /\ space' \in SpaceType /\ space'.recs = space.recs /\ space'.staged = space.staged
          /\ space'.once = space.once /\ space'.err = space.err /\ space'.epoch = space.epoch
          /\ space'.queue = Q /\ space'.finishing = space.finishing /\ space'.sync = space.sync
      BY <1>1, <3>2 DEF SpaceType
    <3>4. GateTypeOK'
      BY <1>1, <1>2, <2>5, <3>3, ShapesNext
    <3>5. \A c \in Cookies : j.recs[c] <= peers.ver /\ (r[c] <= space.recs[c] \/ r[c] <= j.recs[c])
      <4>1. peers.ver \in Nat
        BY <1>1, Parts
      <4> QED BY <1>2, <2>1, <2>2, <2>3, <2>4, <4>1
    <3> QED BY <1>4, <2>4, <3>1, <3>3, <3>4, <3>5, QueuedKeeps
  <2> QED BY <2>6, <2>7
<1>5. CASE f.t = "records" /\ ~space.once /\ TakeFirst(r)
  <2> DEFINE e == space.epoch + 1
             j == [kind |-> "apply", recs |-> r, epoch |-> e]
  <2>1. e \in Nat
    BY <1>1
  <2>2. /\ gate' = "closed"
        /\ space' = [space EXCEPT !.epoch = e, !.queue = Append(@, j)]
    BY <1>1, <1>5 DEF TakeFirst
  <2>3. j \in Job /\ j.kind = "apply" /\ j.recs = r /\ j.epoch = e
    BY <1>2, <2>1 DEF Job, Versions
  <2> HIDE DEF j
  <2>4. PICK Q \in Seq(Job) : Q = Append(space.queue, j)
    BY <1>1, <2>3, AppendsJob
  <2>5. space' = [space EXCEPT !.epoch = e, !.queue = Q]
    BY <2>2, <2>4
  <2> HIDE DEF e
  <2>6. /\ space' \in SpaceType /\ space'.recs = space.recs /\ space'.staged = space.staged
        /\ space'.once = space.once /\ space'.err = space.err /\ space'.epoch = e
        /\ space'.queue = Q /\ space'.finishing = space.finishing /\ space'.sync = space.sync
    BY <1>1, <2>1, <2>5 DEF SpaceType
  <2>7. GateTypeOK'
    BY <1>1, <1>2, <2>2, <2>6, ShapesNext
  <2>8. \A c \in Cookies : j.recs[c] <= peers.ver /\ r[c] <= j.recs[c]
    BY <1>2, <2>3 DEF Versions
  <2> QED BY <1>5, <2>2, <2>3, <2>4, <2>6, <2>7, <2>8, QueuedKeeps DEF e
<1>6. CASE f.t = "done" /\ FinishHydration /\ gate' = gate
  <2>1. r = NoVersions /\ (~space.once => GotIsLast)
    BY <1>3, <1>6 DEF GInv, DoneCovered
  <2>2. \A c \in Cookies : r[c] <= space.recs[c]
    BY <1>1, <2>1, NoneIsUnder DEF Under
  <2>3. CASE space' = space
    <3>1. GateTypeOK'
      BY <1>1, <1>2, <1>6, <2>3, ShapesNext
    <3>2. FinishCovered'
      BY <2>3 DEF GInv, FinishCovered
    <3> QED BY <1>3, <1>6, <2>2, <2>3, <3>1, <3>2, KnownKeeps
  <2>4. CASE space' = [space EXCEPT !.finishing =
                          Append(@, [step |-> "queue", wait |-> Len(space.queue), due |-> link.got])]
    <3> DEFINE g == [step |-> "queue", wait |-> Len(space.queue), due |-> link.got]
               N == Len(space.finishing)
    <3>1. g \in Finish /\ g.step = "queue" /\ g.wait = Len(space.queue) /\ g.due = link.got
      BY <1>1 DEF Finish, Versions
    <3> HIDE DEF g
    <3>2. PICK F \in Seq(Finish) :
             /\ F = Append(space.finishing, g) /\ N \in Nat /\ DOMAIN F = 1..(N + 1) /\ F[N + 1] = g
             /\ DOMAIN space.finishing = 1..N /\ \A i \in 1..N : F[i] = space.finishing[i]
      BY <1>1, <3>1, AppendsFinish
    <3>3. space' = [space EXCEPT !.finishing = F]
      BY <2>4, <3>2 DEF g
    <3>4. /\ space' \in SpaceType /\ space'.recs = space.recs /\ space'.staged = space.staged
          /\ space'.once = space.once /\ space'.err = space.err /\ space'.epoch = space.epoch
          /\ space'.queue = space.queue /\ space'.finishing = F /\ space'.sync = space.sync
          /\ space'.hydrating = space.hydrating
      BY <1>1, <3>3 DEF SpaceType
    <3>5. GateTypeOK'
      BY <1>1, <1>2, <1>6, <3>4, ShapesNext
    <3>6. FinishCovered'
      <4> SUFFICES ASSUME ~space.once, NEW i \in 1..(N + 1)
                   PROVE  LET k == F[i] IN
                          /\ k.wait <= Len(space.queue)
                          /\ k.step = "queue" /\ k.wait > 0 => Under(k.due, space.queue[k.wait].recs)
                          /\ k.step = "queue" /\ k.wait = 0 => Under(k.due, space.recs) \/ space.err
                          /\ k.step = "seed" => Under(k.due, space.recs)
        BY <3>2, <3>4 DEF FinishCovered
      <4>1. CASE i \in 1..N
        BY <3>2, <4>1 DEF GInv, FinishCovered
      <4>2. CASE i = N + 1
        <5>1. F[i] = g /\ GotIsLast /\ Len(space.queue) \in Nat
          BY <1>1, <2>1, <3>2, <4>2
        <5>2. space.queue = <<>> <=> Len(space.queue) = 0
          BY <1>1
        <5> QED BY <3>1, <5>1, <5>2 DEF GotIsLast
      <4> QED BY <3>2, <4>1, <4>2
    <3> QED BY <1>3, <1>6, <2>2, <3>4, <3>5, <3>6, KnownKeeps
  <2> QED BY <1>6, <2>3, <2>4 DEF FinishHydration
<1> QED BY <1>4, <1>5, <1>6 DEF Deliver

----------------------------------------------------------------------------
(* recordQueue.                                                            *)

LEMMA TailOfJobs ==
  ASSUME NEW A \in Seq(Job), A # <<>>
  PROVE  /\ Head(A) \in Job /\ Head(A) = A[1] /\ 1 \in DOMAIN A
         /\ Tail(A) \in Seq(Job) /\ DOMAIN A = 1..Len(A) /\ Len(A) \in Nat \ {0}
         /\ Len(Tail(A)) = Len(A) - 1 /\ DOMAIN Tail(A) = 1..(Len(A) - 1)
         /\ \A i \in 1..(Len(A) - 1) : Tail(A)[i] = A[i + 1]
         /\ Tail(A) = <<>> <=> Len(A) = 1
<1>1. /\ Head(A) \in Job /\ Head(A) = A[1] /\ 1 \in DOMAIN A
      /\ Tail(A) \in Seq(Job) /\ DOMAIN A = 1..Len(A) /\ Len(A) \in Nat \ {0}
      /\ Len(Tail(A)) = Len(A) - 1 /\ DOMAIN Tail(A) = 1..(Len(A) - 1)
      /\ \A i \in 1..(Len(A) - 1) : Tail(A)[i] = A[i + 1]
  OBVIOUS
<1>2. \A B \in Seq(Job) : B = <<>> <=> Len(B) = 0
  OBVIOUS
<1>3. Tail(A) = <<>> <=> Len(A) - 1 = 0
  BY <1>1, <1>2
<1>4. Len(A) - 1 = 0 <=> Len(A) = 1
  BY <1>1
<1> QED BY <1>1, <1>3, <1>4

(* The head of the queue has been applied, staged or refused: whoever      *)
(* waited for it is answered by the records or by the error.               *)
PopsQueue(job) ==
  /\ Turn /\ space.queue # <<>> /\ job = Head(space.queue)
  /\ space'.queue = Tail(space.queue) /\ space'.epoch = space.epoch
  /\ space'.once = space.once /\ space'.hydrating = space.hydrating
  /\ space'.sync = space.sync /\ (space.err => space'.err)
  /\ DOMAIN space'.finishing = DOMAIN space.finishing
  /\ \A i \in DOMAIN space.finishing :
       /\ space'.finishing[i].step = space.finishing[i].step
       /\ space'.finishing[i].due = space.finishing[i].due
       /\ space'.finishing[i].wait =
            IF space.finishing[i].wait > 0 THEN space.finishing[i].wait - 1 ELSE 0
  /\ peers'.ver = peers.ver /\ peers'.hub = peers.hub
  /\ link'.got = link.got /\ link'.frames = link.frames /\ link'.asked = link.asked
  /\ link'.up = link.up /\ link.dropped \subseteq link'.dropped
  /\ \/ gate' = gate
     \/ ~space.hydrating /\ job.kind = "apply" /\ job.epoch = space.epoch

WritesOrRefuses(job) ==
  /\ Under(space.recs, space'.recs)
  /\ ~space.once => Under(job.recs, space'.recs) \/ space'.err
  /\ ~space.once => space'.staged = space.staged
  /\ \A c \in Cookies : space'.recs[c] <= peers.ver /\ space'.staged[c] <= peers.ver
  /\ \A c \in Cookies : \/ space.staged[c] <= space'.staged[c]
                         \/ space.staged[c] <= space'.recs[c]
  /\ \A c \in Cookies \ link'.dropped : \/ job.recs[c] <= space'.recs[c]
                                        \/ job.recs[c] <= space'.staged[c]

LEMMA PoppedKeeps ==
  ASSUME GInv, GateTypeOK', NEW job, PopsQueue(job), WritesOrRefuses(job)
  PROVE  GInv'
<1> DEFINE Q == space.queue
           L == Len(space.queue)
<1>1. /\ GateTypeOK /\ Q \in Seq(Job) /\ space.recs \in Versions /\ space.staged \in Versions
      /\ space'.recs \in Versions /\ space'.staged \in Versions /\ link.got \in Versions
      /\ space.sync.recs \in Versions
      /\ \A i \in DOMAIN space.finishing : /\ space.finishing[i].wait \in Nat
                                           /\ space.finishing[i].due \in Versions
      /\ \A i \in DOMAIN Q : Q[i].recs \in Versions /\ Q[i].epoch \in Nat
  BY Parts, ShapesNext DEF GInv, SpaceType
<1>2. /\ job = Q[1] /\ 1 \in DOMAIN Q /\ DOMAIN Q = 1..L /\ L \in Nat \ {0}
      /\ Len(space'.queue) = L - 1 /\ DOMAIN space'.queue = 1..(L - 1)
      /\ \A i \in 1..(L - 1) : space'.queue[i] = Q[i + 1]
      /\ space'.queue = <<>> <=> L = 1
  <2>1. Q \in Seq(Job) /\ Q # <<>> /\ job = Head(Q) /\ space'.queue = Tail(Q) /\ L = Len(Q)
    BY <1>1 DEF PopsQueue
  <2> HIDE DEF Q, L
  <2>2. /\ Head(Q) = Q[1] /\ 1 \in DOMAIN Q /\ DOMAIN Q = 1..Len(Q) /\ Len(Q) \in Nat \ {0}
        /\ Len(Tail(Q)) = Len(Q) - 1 /\ DOMAIN Tail(Q) = 1..(Len(Q) - 1)
        /\ \A i \in 1..(Len(Q) - 1) : Tail(Q)[i] = Q[i + 1]
        /\ Tail(Q) = <<>> <=> Len(Q) = 1
    BY <2>1, TailOfJobs
  <2> QED BY <2>1, <2>2
<1> HIDE DEF L, Q
<1>3. \A i \in 1..(L - 1) : i + 1 \in DOMAIN Q
  BY <1>2
<1>4. VersionsIssued'
  <2>1. \A i \in 1..(L - 1) : \A c \in Cookies : space'.queue[i].recs[c] <= peers.ver
    BY <1>2, <1>3 DEF GInv, VersionsIssued, IsIssued, Q
  <2>2. \A c \in Cookies : space'.recs[c] <= peers.ver /\ space'.staged[c] <= peers.ver
    BY DEF WritesOrRefuses
  <2>3. /\ space'.sync = space.sync /\ peers'.ver = peers.ver /\ peers'.hub = peers.hub
        /\ link'.frames = link.frames
    BY DEF PopsQueue
  <2> QED BY <1>2, <2>1, <2>2, <2>3 DEF GInv, VersionsIssued, IsIssued
<1>5. FirstComesFirst'
  <2>1. ASSUME ~space.once PROVE \A i \in 1..(L - 1) : space'.queue[i].kind = "apply"
    BY <1>2, <1>3, <2>1 DEF GInv, FirstComesFirst, Q
  <2>2. space'.once = space.once /\ space'.sync = space.sync /\ (~space.once => space'.staged = space.staged)
    BY DEF PopsQueue, WritesOrRefuses
  <2> QED BY <1>2, <2>1, <2>2 DEF GInv, FirstComesFirst
<1>6. EpochsAscend'
  <2> SUFFICES ASSUME NEW i \in 1..(L - 1), space'.queue[i].kind = "apply"
               PROVE  /\ space'.queue[i].epoch <= space.epoch
                      /\ \A k \in 1..(L - 1) : k > i /\ space'.queue[k].kind = "apply"
                           => space'.queue[i].epoch < space'.queue[k].epoch
    BY <1>2 DEF EpochsAscend, PopsQueue
  <2>1. /\ i + 1 \in DOMAIN Q /\ space'.queue[i] = Q[i + 1]
    BY <1>2, <1>3
  <2>2. ASSUME NEW k \in 1..(L - 1), k > i, space'.queue[k].kind = "apply"
        PROVE  space'.queue[i].epoch < space'.queue[k].epoch
    <3>1. k + 1 \in DOMAIN Q /\ space'.queue[k] = Q[k + 1] /\ k + 1 > i + 1
      BY <1>2, <1>3, <2>2
    <3> QED BY <2>1, <2>2, <3>1 DEF GInv, EpochsAscend, Q
  <2> QED BY <2>1, <2>2 DEF GInv, EpochsAscend, Q
<1>7. GateMeansApplied'
  <2> SUFFICES ASSUME gate' = "open", ~space.once
               PROVE  /\ ~space.hydrating
                      /\ \A i \in 1..(L - 1) : space'.queue[i].kind # "apply"
    BY <1>2 DEF GateMeansApplied, PopsQueue
  <2>1. CASE gate' = gate
    BY <1>2, <1>3, <2>1 DEF GInv, GateMeansApplied, Q
  <2>2. CASE ~space.hydrating /\ job.kind = "apply" /\ job.epoch = space.epoch
    <3> SUFFICES ASSUME NEW i \in 1..(L - 1), space'.queue[i].kind = "apply" PROVE FALSE
      BY <2>2
    <3>1. i + 1 \in DOMAIN Q /\ space'.queue[i] = Q[i + 1] /\ i + 1 > 1
      BY <1>2, <1>3
    <3>2. /\ Q[1].epoch < Q[i + 1].epoch /\ Q[i + 1].epoch <= space.epoch /\ Q[1].epoch = space.epoch
      BY <1>2, <2>2, <3>1 DEF GInv, EpochsAscend, Q
    <3>3. space.epoch \in Nat /\ Q[i + 1].epoch \in Nat
      BY <1>1, <3>1, Parts
    <3> QED BY <3>2, <3>3
  <2> QED BY <2>1, <2>2 DEF PopsQueue
<1>8. \A c \in Cookies : /\ space.recs[c] \in Nat /\ space.staged[c] \in Nat /\ space'.recs[c] \in Nat
                         /\ space'.staged[c] \in Nat /\ link.got[c] \in Nat /\ space.sync.recs[c] \in Nat
                         /\ job.recs[c] \in Nat /\ space.recs[c] <= space'.recs[c]
  <2>1. Under(space.recs, space'.recs) /\ job.recs \in Versions
    BY <1>1, <1>2 DEF WritesOrRefuses
  <2> QED BY <1>1, <2>1 DEF Versions, Under
<1>9. PulledIsKnown'
  <2> SUFFICES ASSUME NEW c \in Cookies
               PROVE  \/ space.sync.recs[c] <= space'.staged[c] \/ space.sync.recs[c] <= space'.recs[c]
    BY DEF PulledIsKnown, PopsQueue
  <2>1. space.sync.recs[c] <= space.staged[c] \/ space.sync.recs[c] <= space.recs[c]
    BY DEF GInv, PulledIsKnown
  <2>2. space.staged[c] <= space'.staged[c] \/ space.staged[c] <= space'.recs[c]
    BY DEF WritesOrRefuses
  <2> QED BY <1>8, <2>1, <2>2
<1>10. KeptSomewhere'
  <2> SUFFICES ASSUME NEW c \in Cookies \ link'.dropped
               PROVE  \/ link.got[c] <= space'.recs[c] \/ link.got[c] <= space'.staged[c]
                      \/ \E i \in 1..(L - 1) : link.got[c] <= space'.queue[i].recs[c]
    BY <1>2 DEF KeptSomewhere, PopsQueue
  <2>1. \/ link.got[c] <= space.recs[c] \/ link.got[c] <= space.staged[c]
        \/ \E i \in DOMAIN Q : link.got[c] <= Q[i].recs[c]
    BY DEF GInv, KeptSomewhere, Q, PopsQueue
  <2>2. CASE link.got[c] <= space.recs[c] \/ link.got[c] <= space.staged[c]
    <3>1. space.staged[c] <= space'.staged[c] \/ space.staged[c] <= space'.recs[c]
      BY DEF WritesOrRefuses
    <3> QED BY <1>8, <2>2, <3>1
  <2>3. ASSUME NEW i \in DOMAIN Q, link.got[c] <= Q[i].recs[c]
        PROVE  \/ link.got[c] <= space'.recs[c] \/ link.got[c] <= space'.staged[c]
               \/ \E k \in 1..(L - 1) : link.got[c] <= space'.queue[k].recs[c]
    <3>1. CASE i = 1
      <4>1. job.recs[c] <= space'.recs[c] \/ job.recs[c] <= space'.staged[c]
        BY DEF WritesOrRefuses
      <4> QED BY <1>2, <1>8, <2>3, <3>1, <4>1
    <3>2. CASE i # 1
      <4>1. i - 1 \in 1..(L - 1) /\ space'.queue[i - 1] = Q[(i - 1) + 1] /\ (i - 1) + 1 = i
        BY <1>2, <3>2
      <4> QED BY <2>3, <4>1
    <3> QED BY <3>1, <3>2
  <2> QED BY <2>1, <2>2, <2>3
<1>11. FramesFromHub'
  BY DEF GInv, FramesFromHub, PopsQueue
<1>12. DoneCovered'
  <2>1. ASSUME ~space.once, GotIsLast PROVE GotIsLast'
    <3>1. Under(link.got, Q[L].recs) /\ link'.got = link.got
      BY <2>1 DEF GotIsLast, Q, L, PopsQueue
    <3>2. CASE L = 1
      <4>1. space'.queue = <<>> /\ Under(link.got, job.recs)
        BY <1>2, <3>1, <3>2
      <4>2. Under(job.recs, space'.recs) => Under(link.got, space'.recs)
        BY <1>1, <1>2, <4>1, UnderTransitive
      <4> QED BY <2>1, <3>1, <4>1, <4>2 DEF GotIsLast, WritesOrRefuses
    <3>3. CASE L # 1
      <4>1. L - 1 \in 1..(L - 1) /\ (L - 1) + 1 = L
        BY <1>2, <3>3
      <4>2. space'.queue # <<>> /\ space'.queue[L - 1] = Q[L] /\ Len(space'.queue) = L - 1
        BY <1>2, <3>3, <4>1
      <4> QED BY <3>1, <4>2 DEF GotIsLast
    <3> QED BY <3>2, <3>3
  <2>2. /\ link'.frames = link.frames /\ link'.got = link.got /\ link'.asked = link.asked
        /\ link'.up = link.up /\ space'.once = space.once
    BY DEF PopsQueue
  <2> QED BY <2>1, <2>2, DoneStays DEF GInv
<1>13. FinishCovered'
  <2> SUFFICES ASSUME ~space.once, NEW i \in DOMAIN space.finishing
               PROVE  LET f == space'.finishing[i] IN
                      /\ f.wait <= L - 1
                      /\ f.step = "queue" /\ f.wait > 0 => Under(f.due, space'.queue[f.wait].recs)
                      /\ f.step = "queue" /\ f.wait = 0 => Under(f.due, space'.recs) \/ space'.err
                      /\ f.step = "seed" => Under(f.due, space'.recs)
    BY <1>2 DEF FinishCovered, PopsQueue
  <2> DEFINE f == space.finishing[i]
             g == space'.finishing[i]
  <2>1. /\ g.step = f.step /\ g.due = f.due /\ g.wait = IF f.wait > 0 THEN f.wait - 1 ELSE 0
        /\ f.wait \in Nat /\ f.due \in Versions
    BY <1>1 DEF PopsQueue
  <2>2. /\ f.wait <= L
        /\ f.step = "queue" /\ f.wait > 0 => Under(f.due, Q[f.wait].recs)
        /\ f.step = "queue" /\ f.wait = 0 => Under(f.due, space.recs) \/ space.err
        /\ f.step = "seed" => Under(f.due, space.recs)
    BY DEF GInv, FinishCovered, Q, L
  <2>3. ~(f.step = "queue" /\ f.wait = 0)
    BY DEF PopsQueue, Turn, Ready
  <2>4. Under(f.due, space.recs) => Under(f.due, space'.recs)
    BY <1>1, <2>1, UnderTransitive DEF WritesOrRefuses
  <2> HIDE DEF f, g
  <2>5. g.wait <= L - 1
    BY <1>2, <2>1, <2>2
  <2>6. ASSUME g.step = "queue", g.wait > 0 PROVE Under(g.due, space'.queue[g.wait].recs)
    <3>1. f.wait = g.wait + 1 /\ g.wait \in 1..(L - 1)
      BY <1>2, <2>1, <2>5, <2>6
    <3> QED BY <1>2, <2>1, <2>2, <2>6, <3>1
  <2>7. ASSUME g.step = "queue", g.wait = 0 PROVE Under(g.due, space'.recs) \/ space'.err
    <3>1. f.wait = 1
      BY <2>1, <2>3, <2>7
    <3>2. Under(f.due, job.recs)
      BY <1>2, <2>1, <2>2, <2>7, <3>1
    <3>3. Under(job.recs, space'.recs) => Under(f.due, space'.recs)
      BY <1>1, <1>2, <2>1, <3>2, UnderTransitive
    <3> QED BY <2>1, <3>3 DEF WritesOrRefuses
  <2> QED BY <2>1, <2>2, <2>4, <2>5, <2>6, <2>7 DEF f, g
<1> QED BY <1>4, <1>5, <1>6, <1>7, <1>9, <1>10, <1>11, <1>12, <1>13 DEF GInv

(* A refused write is counted as dropped.                                  *)
LEMMA RefusedFields ==
  ASSUME GInv, NEW r \in Versions, Refused(r)
  PROVE  /\ link' \in LinkType /\ link'.got = link.got /\ link'.frames = link.frames
         /\ link'.asked = link.asked /\ link'.up = link.up /\ link.dropped \subseteq link'.dropped
         /\ \A c \in Cookies \ link'.dropped : r[c] <= space.recs[c]
         /\ peers' \in PeersType /\ peers'.ver = peers.ver /\ peers'.hub = peers.hub
<1> DEFINE D == link.dropped \union {c \in Cookies : r[c] > space.recs[c]}
<1>1. GateTypeOK /\ link \in LinkType /\ space.recs \in Versions
  BY Shapes, Parts DEF GInv
<1>2. link' = [link EXCEPT !.dropped = D] /\ Upset
  BY DEF Refused
<1>3. D \subseteq Cookies /\ link.dropped \subseteq D /\ \A c \in Cookies \ D : r[c] <= space.recs[c]
  BY <1>1 DEF LinkType, Versions
<1> HIDE DEF D
<1>4. /\ link' \in LinkType /\ link'.got = link.got /\ link'.frames = link.frames
      /\ link'.asked = link.asked /\ link'.up = link.up /\ link'.dropped = D
  BY <1>1, <1>2, <1>3 DEF LinkType
<1> QED BY <1>1, <1>2, <1>3, <1>4, UpsetCounts

LEMMA HeadJob ==
  ASSUME GInv, space.queue # <<>>
  PROVE  /\ Head(space.queue) \in Job /\ Head(space.queue).recs \in Versions
         /\ \A c \in Cookies : /\ Head(space.queue).recs[c] <= peers.ver
                               /\ Head(space.queue).recs[c] \in Nat
         /\ ~space.once => Head(space.queue).kind = "apply"
         /\ Head(space.queue) = space.queue[1] /\ 1 \in DOMAIN space.queue
<1>1. space.queue \in Seq(Job) /\ \A i \in DOMAIN space.queue : space.queue[i].recs \in Versions
  BY Parts DEF GInv
<1>2. Head(space.queue) = space.queue[1] /\ 1 \in DOMAIN space.queue /\ Head(space.queue) \in Job
  BY <1>1, TailOfJobs
<1> QED BY <1>1, <1>2 DEF GInv, VersionsIssued, IsIssued, FirstComesFirst, Versions

(* What an applied job makes of the records.                               *)
LEMMA AppliedWrites ==
  ASSUME GInv, NEW r \in Versions, \A c \in Cookies : r[c] <= peers.ver
  PROVE  LET n == NewestOf(space.recs, r) IN
         /\ n \in Versions /\ Under(space.recs, n) /\ Under(r, n) /\ \A c \in Cookies : n[c] <= peers.ver
<1>1. space.recs \in Versions /\ \A c \in Cookies : space.recs[c] <= peers.ver
  BY Parts DEF GInv, VersionsIssued, IsIssued
<1> DEFINE n == NewestOf(space.recs, r)
<1>2. /\ n \in Versions
      /\ \A c \in Cookies : /\ n[c] >= space.recs[c] /\ n[c] >= r[c]
                            /\ n[c] = space.recs[c] \/ n[c] = r[c]
  BY <1>1, NewestOfTwo
<1> HIDE DEF n
<1>3. \A c \in Cookies : /\ n[c] \in Nat /\ space.recs[c] \in Nat /\ r[c] \in Nat
                         /\ space.recs[c] <= n[c] /\ r[c] <= n[c] /\ n[c] <= peers.ver
  BY <1>1, <1>2 DEF Versions
<1> QED BY <1>2, <1>3 DEF n, Under

LEMMA RunApplyKeeps == ASSUME GInv, RunApply PROVE GInv'
<1> DEFINE job == Head(space.queue)
           r == job.recs
           n == NewestOf(space.recs, r)
<1>1. /\ GateTypeOK /\ space \in SpaceType /\ link \in LinkType /\ peers \in PeersType
      /\ gate \in {"open", "closed"} /\ space.recs \in Versions /\ space.staged \in Versions
      /\ Turn /\ space.queue # <<>> /\ job.kind = "apply"
  BY Shapes, Parts DEF GInv, RunApply
<1>2. r \in Versions /\ \A c \in Cookies : r[c] <= peers.ver /\ r[c] \in Nat
  BY <1>1, HeadJob
<1>3. /\ n \in Versions /\ Under(space.recs, n) /\ Under(r, n) /\ \A c \in Cookies : n[c] <= peers.ver
  BY <1>2, AppliedWrites
<1>4. gate' \in {"open", "closed"} /\ (gate' = gate \/ (~space.hydrating /\ job.epoch = space.epoch))
  BY <1>1 DEF RunApply, GateAfter
<1>5. \A c \in Cookies : /\ space.recs[c] \in Nat /\ space.staged[c] \in Nat /\ space.staged[c] <= peers.ver
                         /\ space.recs[c] <= peers.ver
  BY <1>1 DEF GInv, VersionsIssued, IsIssued, Versions
<1>6. CASE space' = Popped(Applied(space, r)) /\ UNCHANGED <<link, peers>>
  <2> DEFINE t == Applied(space, r)
  <2>1. /\ t \in SpaceType /\ t.recs = n /\ t.staged = space.staged /\ t.hydrating = space.hydrating
        /\ t.once = space.once /\ t.err = space.err /\ t.epoch = space.epoch /\ t.queue = space.queue
        /\ t.finishing = space.finishing /\ t.sync = space.sync
    BY <1>1, <1>2, AppliedFields
  <2> HIDE DEF t, n, r, job
  <2>2. t.queue # <<>> /\ space' = Popped(t)
    BY <1>1, <1>6, <2>1 DEF t
  <2>3. /\ space' \in SpaceType /\ space'.recs = n /\ space'.staged = space.staged
        /\ space'.hydrating = space.hydrating /\ space'.once = space.once /\ space'.err = space.err
        /\ space'.epoch = space.epoch /\ space'.queue = Tail(space.queue) /\ space'.sync = space.sync
        /\ DOMAIN space'.finishing = DOMAIN space.finishing
        /\ \A i \in DOMAIN space.finishing :
             /\ space'.finishing[i].step = space.finishing[i].step
             /\ space'.finishing[i].due = space.finishing[i].due
             /\ space'.finishing[i].wait =
                  IF space.finishing[i].wait > 0 THEN space.finishing[i].wait - 1 ELSE 0
    BY <2>1, <2>2, PoppedFields
  <2>4. GateTypeOK'
    BY <1>1, <1>4, <1>6, <2>3, ShapesNext
  <2>5. PopsQueue(job)
    BY <1>1, <1>4, <1>6, <2>3 DEF PopsQueue, job
  <2>6. WritesOrRefuses(job)
    BY <1>3, <1>5, <2>3 DEF WritesOrRefuses, Under, r
  <2> QED BY <2>4, <2>5, <2>6, PoppedKeeps
<1>7. CASE space' = [Popped(space) EXCEPT !.err = TRUE] /\ Refused(r)
  <2> DEFINE t == Popped(space)
  <2>1. /\ t \in SpaceType /\ t.recs = space.recs /\ t.staged = space.staged
        /\ t.hydrating = space.hydrating
        /\ t.once = space.once /\ t.epoch = space.epoch /\ t.queue = Tail(space.queue)
        /\ t.sync = space.sync
        /\ DOMAIN t.finishing = DOMAIN space.finishing
        /\ \A i \in DOMAIN space.finishing :
             /\ t.finishing[i].step = space.finishing[i].step
             /\ t.finishing[i].due = space.finishing[i].due
             /\ t.finishing[i].wait =
                  IF space.finishing[i].wait > 0 THEN space.finishing[i].wait - 1 ELSE 0
    BY <1>1, PoppedFields
  <2> HIDE DEF t, n
  <2>2. space' = [t EXCEPT !.err = TRUE]
    BY <1>7 DEF t
  <2>3. /\ space' \in SpaceType /\ space'.recs = t.recs /\ space'.staged = t.staged
        /\ space'.hydrating = t.hydrating /\ space'.once = t.once /\ space'.err = TRUE
        /\ space'.epoch = t.epoch /\ space'.queue = t.queue /\ space'.sync = t.sync
        /\ space'.finishing = t.finishing
    BY <2>1, <2>2 DEF SpaceType
  <2>4. /\ link' \in LinkType /\ link'.got = link.got /\ link'.frames = link.frames
        /\ link'.asked = link.asked /\ link'.up = link.up /\ link.dropped \subseteq link'.dropped
        /\ \A c \in Cookies \ link'.dropped : r[c] <= space.recs[c]
        /\ peers' \in PeersType /\ peers'.ver = peers.ver /\ peers'.hub = peers.hub
    BY <1>2, <1>7, RefusedFields
  <2>5. GateTypeOK'
    BY <1>4, <2>1, <2>3, <2>4, ShapesNext
  <2>6. PopsQueue(job)
    BY <1>1, <1>4, <2>1, <2>3, <2>4 DEF PopsQueue
  <2>7. WritesOrRefuses(job)
    BY <1>1, <1>5, <2>1, <2>3, <2>4, UnderItself DEF WritesOrRefuses
  <2> QED BY <2>5, <2>6, <2>7, PoppedKeeps
<1> QED BY <1>6, <1>7 DEF RunApply

LEMMA RunLiveApplyKeeps == ASSUME GInv, RunLiveApply PROVE GInv'
<1> DEFINE job == Head(space.queue)
           r == job.recs
           n == NewestOf(space.recs, r)
           u == Unstaged(space.staged, r)
<1>1. /\ GateTypeOK /\ space \in SpaceType /\ link \in LinkType /\ peers \in PeersType
      /\ gate \in {"open", "closed"} /\ space.recs \in Versions /\ space.staged \in Versions
      /\ Turn /\ space.queue # <<>> /\ job.kind = "liveApply" /\ gate' = gate /\ peers.ver \in Nat
  BY Shapes, Parts DEF GInv, RunLiveApply
<1>2. r \in Versions /\ (\A c \in Cookies : r[c] <= peers.ver /\ r[c] \in Nat) /\ space.once
  BY <1>1, HeadJob
<1>3. /\ n \in Versions /\ Under(space.recs, n) /\ Under(r, n) /\ \A c \in Cookies : n[c] <= peers.ver
  BY <1>2, AppliedWrites
<1>4. \A c \in Cookies : /\ space.recs[c] \in Nat /\ space.staged[c] \in Nat /\ space.staged[c] <= peers.ver
                         /\ space.recs[c] <= peers.ver
  BY <1>1 DEF GInv, VersionsIssued, IsIssued, Versions
<1>5. u \in Versions /\ \A c \in Cookies : u[c] = IF space.staged[c] <= r[c] THEN 0 ELSE space.staged[c]
  BY <1>4 DEF Unstaged, Versions
<1>6. CASE /\ space' = [Popped(Applied(space, r)) EXCEPT !.staged = Unstaged(@, r)]
           /\ UNCHANGED <<link, peers>>
  <2> DEFINE t == Applied(space, r)
             s == Popped(t)
  <2>1. /\ t \in SpaceType /\ t.recs = n /\ t.staged = space.staged /\ t.hydrating = space.hydrating
        /\ t.once = space.once /\ t.err = space.err /\ t.epoch = space.epoch /\ t.queue = space.queue
        /\ t.finishing = space.finishing /\ t.sync = space.sync
    BY <1>1, <1>2, AppliedFields
  <2> HIDE DEF t
  <2>2. /\ s \in SpaceType /\ s.recs = n /\ s.staged = space.staged
        /\ s.hydrating = space.hydrating /\ s.once = space.once /\ s.err = space.err
        /\ s.epoch = space.epoch /\ s.queue = Tail(space.queue) /\ s.sync = space.sync
        /\ DOMAIN s.finishing = DOMAIN space.finishing
        /\ \A i \in DOMAIN space.finishing :
             /\ s.finishing[i].step = space.finishing[i].step
             /\ s.finishing[i].due = space.finishing[i].due
             /\ s.finishing[i].wait =
                  IF space.finishing[i].wait > 0 THEN space.finishing[i].wait - 1 ELSE 0
    BY <1>1, <2>1, PoppedFields
  <2> HIDE DEF s, n
  <2>3. space' = [s EXCEPT !.staged = u]
    BY <1>6, <2>2 DEF s, t
  <2> HIDE DEF u
  <2>4. /\ space' \in SpaceType /\ space'.recs = s.recs /\ space'.staged = u
        /\ space'.hydrating = s.hydrating /\ space'.once = s.once /\ space'.err = s.err
        /\ space'.epoch = s.epoch /\ space'.queue = s.queue /\ space'.sync = s.sync
        /\ space'.finishing = s.finishing
    BY <1>5, <2>2, <2>3 DEF SpaceType
  <2>5. GateTypeOK'
    BY <1>1, <1>6, <2>4, ShapesNext
  <2>6. PopsQueue(job)
    BY <1>1, <1>6, <2>2, <2>4 DEF PopsQueue
  <2>7. \A c \in Cookies : /\ n[c] \in Nat /\ n[c] <= peers.ver /\ r[c] <= n[c] /\ u[c] <= peers.ver
                           /\ space.staged[c] <= u[c] \/ space.staged[c] <= n[c]
    <3> SUFFICES ASSUME NEW c \in Cookies
                 PROVE  /\ n[c] \in Nat /\ n[c] <= peers.ver /\ r[c] <= n[c] /\ u[c] <= peers.ver
                        /\ space.staged[c] <= u[c] \/ space.staged[c] <= n[c]
      OBVIOUS
    <3>1. n[c] \in Nat /\ n[c] <= peers.ver /\ r[c] <= n[c]
      BY <1>3 DEF Under, Versions
    <3>2. u[c] = IF space.staged[c] <= r[c] THEN 0 ELSE space.staged[c]
      BY <1>5
    <3> HIDE DEF r, job
    <3> QED BY <1>1, <1>2, <1>4, <3>1, <3>2
  <2>8. WritesOrRefuses(job)
    BY <1>2, <1>3, <2>2, <2>4, <2>7 DEF WritesOrRefuses
  <2> QED BY <2>5, <2>6, <2>8, PoppedKeeps
<1>7. CASE space' = Popped(space) /\ Refused(r)
  <2>1. /\ space' \in SpaceType /\ space'.recs = space.recs /\ space'.staged = space.staged
        /\ space'.hydrating = space.hydrating /\ space'.err = space.err
        /\ space'.once = space.once /\ space'.epoch = space.epoch /\ space'.queue = Tail(space.queue)
        /\ space'.sync = space.sync
        /\ DOMAIN space'.finishing = DOMAIN space.finishing
        /\ \A i \in DOMAIN space.finishing :
             /\ space'.finishing[i].step = space.finishing[i].step
             /\ space'.finishing[i].due = space.finishing[i].due
             /\ space'.finishing[i].wait =
                  IF space.finishing[i].wait > 0 THEN space.finishing[i].wait - 1 ELSE 0
    BY <1>1, <1>7, PoppedFields
  <2>2. /\ link' \in LinkType /\ link'.got = link.got /\ link'.frames = link.frames
        /\ link'.asked = link.asked /\ link'.up = link.up /\ link.dropped \subseteq link'.dropped
        /\ \A c \in Cookies \ link'.dropped : r[c] <= space.recs[c]
        /\ peers' \in PeersType /\ peers'.ver = peers.ver /\ peers'.hub = peers.hub
    BY <1>2, <1>7, RefusedFields
  <2>3. GateTypeOK'
    BY <1>1, <2>1, <2>2, ShapesNext
  <2>4. PopsQueue(job)
    BY <1>1, <2>1, <2>2 DEF PopsQueue
  <2>5. WritesOrRefuses(job)
    BY <1>1, <1>2, <1>4, <2>1, <2>2, UnderItself DEF WritesOrRefuses
  <2> QED BY <2>3, <2>4, <2>5, PoppedKeeps
<1> QED BY <1>6, <1>7 DEF RunLiveApply

LEMMA RunLiveKeeps == ASSUME GInv, RunLive PROVE GInv'
<1> DEFINE job == Head(space.queue)
           r == job.recs
           now == Only(r, space.live)
           rest == Only(r, Cookies \ space.live)
           g == Staged(r)
<1>1. /\ GateTypeOK /\ space \in SpaceType /\ link \in LinkType /\ peers \in PeersType
      /\ gate \in {"open", "closed"} /\ space.recs \in Versions /\ space.staged \in Versions
      /\ Turn /\ space.queue # <<>> /\ job.kind = "live" /\ gate' = gate /\ peers.ver \in Nat
      /\ link' = link /\ peers' = peers /\ space.queue \in Seq(Job)
  BY Shapes, Parts DEF GInv, RunLive
<1>2. r \in Versions /\ (\A c \in Cookies : r[c] <= peers.ver /\ r[c] \in Nat) /\ space.once
      /\ job \in Job /\ job = space.queue[1] /\ 1 \in DOMAIN space.queue
  BY <1>1, HeadJob
<1>3. /\ now \in Versions /\ \A c \in Cookies : now[c] = IF c \in space.live THEN r[c] ELSE 0
      /\ rest \in Versions /\ \A c \in Cookies : rest[c] = IF c \in space.live THEN 0 ELSE r[c]
  BY <1>2, NoneAndOnly
<1>4. g = NewestOf(space.staged, rest)
  BY DEF Staged
<1>5. \A c \in Cookies : /\ space.recs[c] \in Nat /\ space.staged[c] \in Nat /\ space.staged[c] <= peers.ver
                         /\ space.recs[c] <= peers.ver
  BY <1>1 DEF GInv, VersionsIssued, IsIssued, Versions
<1>6. /\ space' = IF now = NoVersions THEN [Popped(space) EXCEPT !.staged = g]
                  ELSE [space EXCEPT !.staged = g,
                          !.queue[1] = [@ EXCEPT !.kind = "liveApply", !.recs = now]]
  BY DEF RunLive
<1> HIDE DEF r, now, rest, g
<1>7. /\ g \in Versions
      /\ \A c \in Cookies : /\ g[c] \in Nat /\ space.staged[c] <= g[c] /\ rest[c] <= g[c]
                            /\ g[c] <= peers.ver
  <2>1. /\ g \in Versions
        /\ \A c \in Cookies : /\ g[c] >= space.staged[c] /\ g[c] >= rest[c]
                              /\ g[c] = space.staged[c] \/ g[c] = rest[c]
    BY <1>1, <1>3, <1>4, NewestOfTwo
  <2>2. ASSUME NEW c \in Cookies
        PROVE  rest[c] \in Nat /\ rest[c] <= peers.ver /\ g[c] \in Nat
    <3> HIDE DEF job
    <3>1. rest[c] = IF c \in space.live THEN 0 ELSE r[c]
      BY <1>3
    <3>2. r[c] \in Nat /\ r[c] <= peers.ver /\ peers.ver \in Nat
      BY <1>1, <1>2
    <3>3. g[c] \in Nat
      BY <2>1 DEF Versions
    <3> QED BY <3>1, <3>2, <3>3
  <2> QED BY <1>1, <1>5, <2>1, <2>2
<1>8. CASE now = NoVersions
  <2> DEFINE t == Popped(space)
  <2>1. /\ t \in SpaceType /\ t.recs = space.recs /\ t.staged = space.staged
        /\ t.hydrating = space.hydrating /\ t.err = space.err
        /\ t.once = space.once /\ t.epoch = space.epoch /\ t.queue = Tail(space.queue)
        /\ t.sync = space.sync
        /\ DOMAIN t.finishing = DOMAIN space.finishing
        /\ \A i \in DOMAIN space.finishing :
             /\ t.finishing[i].step = space.finishing[i].step
             /\ t.finishing[i].due = space.finishing[i].due
             /\ t.finishing[i].wait =
                  IF space.finishing[i].wait > 0 THEN space.finishing[i].wait - 1 ELSE 0
    BY <1>1, PoppedFields
  <2>2. space' = [t EXCEPT !.staged = g]
    BY <1>6, <1>8
  <2> HIDE DEF t
  <2>3. /\ space' \in SpaceType /\ space'.recs = t.recs /\ space'.staged = g
        /\ space'.hydrating = t.hydrating /\ space'.once = t.once /\ space'.err = t.err
        /\ space'.epoch = t.epoch /\ space'.queue = t.queue /\ space'.sync = t.sync
        /\ space'.finishing = t.finishing
    BY <1>7, <2>1, <2>2 DEF SpaceType
  <2>4. GateTypeOK'
    BY <1>1, <2>3, ShapesNext
  <2>5. PopsQueue(job)
    BY <1>1, <2>1, <2>3 DEF PopsQueue
  <2>6. \A c \in Cookies : r[c] <= space.recs[c] \/ r[c] <= g[c]
    <3> SUFFICES ASSUME NEW c \in Cookies PROVE r[c] <= space.recs[c] \/ r[c] <= g[c]
      OBVIOUS
    <3>1. CASE c \in space.live
      <4>1. r[c] = 0
        BY <1>3, <1>8, <3>1, NoneAndOnly
      <4> QED BY <1>5, <4>1
    <3>2. CASE c \notin space.live
      BY <1>3, <1>7, <3>2
    <3> QED BY <3>1, <3>2
  <2>7. WritesOrRefuses(job)
    BY <1>1, <1>2, <1>5, <1>7, <2>1, <2>3, <2>6, UnderItself DEF WritesOrRefuses, r
  <2> QED BY <2>4, <2>5, <2>7, PoppedKeeps
<1>9. CASE now # NoVersions
  <2> DEFINE k == [job EXCEPT !.kind = "liveApply", !.recs = now]
             Q == [space.queue EXCEPT ![1] = k]
  <2>1. k \in Job /\ k.kind = "liveApply" /\ k.recs = now
    BY <1>2, <1>3 DEF Job, Versions
  <2>2. space' = [space EXCEPT !.staged = g, !.queue = Q]
    BY <1>1, <1>2, <1>6, <1>9 DEF SpaceType
  <2> HIDE DEF k
  <2>3. /\ Q \in Seq(Job) /\ Q[1] = k /\ DOMAIN Q = DOMAIN space.queue
        /\ \A i \in DOMAIN Q : i # 1 => Q[i] = space.queue[i]
    BY <1>1, <1>2, <2>1
  <2> HIDE DEF Q, job
  <2>4. /\ space' \in SpaceType /\ space'.recs = space.recs /\ space'.staged = g
        /\ space'.hydrating = space.hydrating /\ space'.once = space.once /\ space'.err = space.err
        /\ space'.epoch = space.epoch /\ space'.queue = Q /\ space'.sync = space.sync
        /\ space'.finishing = space.finishing
    BY <1>1, <1>7, <2>2, <2>3 DEF SpaceType
  <2>5. GateTypeOK'
    BY <1>1, <2>4, ShapesNext
  <2>6. VersionsIssued'
    <3>1. ASSUME NEW i \in DOMAIN Q PROVE \A c \in Cookies : Q[i].recs[c] <= peers.ver
      <4>1. CASE i = 1
        BY <1>1, <1>2, <1>3, <2>1, <2>3, <4>1
      <4>2. CASE i # 1
        BY <2>3, <4>2 DEF GInv, VersionsIssued, IsIssued
      <4> QED BY <4>1, <4>2
    <3> QED BY <1>1, <1>7, <2>4, <3>1 DEF GInv, VersionsIssued, IsIssued
  <2>7. FirstComesFirst' /\ GateMeansApplied' /\ FinishCovered'
    BY <1>2, <2>4 DEF FirstComesFirst, GateMeansApplied, FinishCovered
  <2>8. EpochsAscend'
    <3>1. \A i \in DOMAIN Q : Q[i].kind = "apply" => Q[i] = space.queue[i]
      BY <2>1, <2>3
    <3> QED BY <2>3, <2>4, <3>1 DEF GInv, EpochsAscend
  <2>9. PulledIsKnown'
    <3> SUFFICES ASSUME NEW c \in Cookies
                 PROVE  space.sync.recs[c] <= g[c] \/ space.sync.recs[c] <= space.recs[c]
      BY <2>4 DEF PulledIsKnown
    <3>1. space.sync.recs[c] <= space.staged[c] \/ space.sync.recs[c] <= space.recs[c]
      BY DEF GInv, PulledIsKnown
    <3>2. space.sync.recs[c] \in Nat
      BY <1>1, Parts DEF Versions
    <3> QED BY <1>5, <1>7, <3>1, <3>2
  <2>10. KeptSomewhere'
    <3> SUFFICES ASSUME NEW c \in Cookies \ link.dropped
                 PROVE  \/ link.got[c] <= space.recs[c] \/ link.got[c] <= g[c]
                        \/ \E i \in DOMAIN Q : link.got[c] <= Q[i].recs[c]
      BY <1>1, <2>4 DEF KeptSomewhere
    <3>1. \/ link.got[c] <= space.recs[c] \/ link.got[c] <= space.staged[c]
          \/ \E i \in DOMAIN space.queue : link.got[c] <= space.queue[i].recs[c]
      BY DEF GInv, KeptSomewhere
    <3>2. link.got[c] \in Nat
      BY <1>1, Parts DEF Versions
    <3>3. CASE link.got[c] <= space.recs[c] \/ link.got[c] <= space.staged[c]
      BY <1>5, <1>7, <3>2, <3>3
    <3>4. ASSUME NEW i \in DOMAIN space.queue, link.got[c] <= space.queue[i].recs[c]
          PROVE  link.got[c] <= g[c] \/ \E q \in DOMAIN Q : link.got[c] <= Q[q].recs[c]
      <4>1. CASE i # 1
        BY <2>3, <3>4, <4>1
      <4>2. CASE i = 1 /\ c \in space.live
        <5>1. link.got[c] <= Q[1].recs[c] /\ 1 \in DOMAIN Q
          BY <1>2, <1>3, <2>1, <2>3, <3>4, <4>2 DEF r
        <5> QED BY <5>1
      <4>3. CASE i = 1 /\ c \notin space.live
        <5>1. link.got[c] <= r[c] /\ r[c] <= g[c]
          BY <1>2, <1>3, <1>7, <3>4, <4>3 DEF r
        <5> QED BY <1>2, <1>7, <3>2, <5>1
      <4> QED BY <4>1, <4>2, <4>3
    <3> QED BY <3>1, <3>3, <3>4
  <2>11. FramesFromHub'
    BY <1>1 DEF GInv, FramesFromHub
  <2>12. DoneCovered'
    BY <1>1, <1>2, <2>4, DoneStays DEF GInv
  <2> QED BY <2>5, <2>6, <2>7, <2>8, <2>9, <2>10, <2>11, <2>12 DEF GInv
<1> QED BY <1>8, <1>9

----------------------------------------------------------------------------
(* A new space, before its first connection.                               *)
LEMMA InitGInv == GateInit => GInv
<1> SUFFICES ASSUME GateInit PROVE GInv
  OBVIOUS
<1>1. PICK browser \in SUBSET Cookies : space = NewSpace(browser)
  BY DEF GateInit
<1>2. gate = "closed" /\ link = NoLink /\ peers = NoPeers
  BY DEF GateInit
<1>3. /\ space.recs = NoVersions /\ space.jar = browser /\ space.live = Rotating
      /\ space.staged = NoVersions /\ space.once = FALSE /\ space.err = FALSE /\ space.epoch = 0
      /\ space.queue = <<>> /\ space.finishing = <<>> /\ space.sync = Idle
      /\ space.hydrating = TRUE
  BY <1>1 DEF NewSpace
<1>4. space \in SpaceType
  <2>1. <<>> \in Seq(Job) /\ <<>> \in Seq(Finish)
    OBVIOUS
  <2> QED BY <1>1, <2>1, NoneAndOnly, IdleHasNone DEF NewSpace, SpaceType
<1>5. link \in LinkType /\ link.up = FALSE /\ link.frames = <<>> /\ link.got = NoVersions
  BY <1>2, Nothing, NoneAndOnly DEF NoLink, LinkType
<1>6. peers \in PeersType /\ peers.ver = 0 /\ peers.hub = NoVersions
  BY <1>2, NoneAndOnly DEF NoPeers, PeersType
<1>7. GateTypeOK
  BY <1>2, <1>4, <1>5, <1>6, Shapes
<1>8. VersionsIssued
  <2>1. IsIssued(NoVersions)
    BY <1>6, NoneAndOnly DEF IsIssued
  <2> QED BY <1>3, <1>5, <1>6, <2>1, IdleHasNone DEF VersionsIssued
<1>9. FirstComesFirst /\ EpochsAscend /\ GateMeansApplied /\ FinishCovered
  BY <1>2, <1>3, IdleHasNone DEF FirstComesFirst, EpochsAscend, GateMeansApplied, FinishCovered
<1>10. PulledIsKnown /\ KeptSomewhere
  BY <1>3, <1>5, NoneAndOnly, IdleHasNone DEF PulledIsKnown, KeptSomewhere
<1>11. FramesFromHub /\ DoneCovered
  BY <1>5, <1>6, NoneAndOnly, NoneIsUnder DEF FramesFromHub, DoneCovered
<1> QED BY <1>7, <1>8, <1>9, <1>10, <1>11 DEF GInv

(* Every step keeps the invariant: one case for each action.               *)
LEMMA StepKeepsGInv == GInv /\ [GateNext]_gateVars => GInv'
<1> SUFFICES ASSUME GInv, [GateNext]_gateVars PROVE GInv'
  OBVIOUS
<1>1. CASE UNCHANGED gateVars
  BY <1>1 DEF gateVars, GInv, GateTypeOK, VersionsIssued, IsIssued, FirstComesFirst, EpochsAscend,
              GateMeansApplied, PulledIsKnown, KeptSomewhere, FramesFromHub, GotIsLast, DoneCovered,
              FinishCovered
<1>2. ASSUME NEW c \in Cookies, PeerWrites(c) PROVE GInv'
  BY <1>2, PeerWritesKeeps
<1>3. CASE Connect
  BY <1>3, ConnectKeeps
<1>4. CASE HubHydrates
  BY <1>4, HubHydratesKeeps
<1>5. CASE Disconnect
  BY <1>5, DisconnectKeeps
<1>6. CASE Deliver
  BY <1>6, DeliverKeeps
<1>7. CASE RetryTimer
  BY <1>7, RetryTimerKeeps
<1>8. CASE QueueStep
  BY <1>8, RunApplyKeeps, RunLiveKeeps, RunLiveApplyKeeps DEF QueueStep
<1>9. CASE FinishStep
  BY <1>9, FinishQueueKeeps, FinishSeedKeeps DEF FinishStep
<1>10. ASSUME NEW c \in Rotating, NeverSync(c) \/ SyncAgain(c) PROVE GInv'
  BY <1>10, NeverSyncKeeps, SyncAgainKeeps
<1>11. CASE PullStart
  BY <1>11, PullStartKeeps
<1>12. CASE PullEnd
  BY <1>12, PullEndKeeps
<1>13. CASE PushStart
  BY <1>13, PushStartKeeps
<1>14. CASE PushStep
  BY <1>14, PushVisitKeeps, PushEndKeeps DEF PushStep
<1> QED BY <1>1, <1>2, <1>3, <1>4, <1>5, <1>6, <1>7, <1>8, <1>9, <1>10, <1>11, <1>12, <1>13, <1>14
        DEF GateNext

(* The invariant holds in every state of a space's life: its sync state,   *)
(* its gate, the frames under way and what the hub holds fit together.     *)
THEOREM GInvHolds == GateSpec => []GInv
<1> QED BY InitGInv, StepKeepsGInv, PTL DEF GateSpec

(* TabManager's gate: before a space's first hydration is through, the     *)
(* gate is open only when every record that arrived has been written, for  *)
(* any cookies and any number of frames, drops and refused writes.         *)
THEOREM GateMeansAppliedAlways == GateSpec => []GateMeansApplied
<1>1. GInv => GateMeansApplied
  BY DEF GInv
<1> QED BY <1>1, GInvHolds, PTL

(* The maximum of a finite set of versions is its newest one.              *)
LEMMA MaxOfFinite ==
  ASSUME NEW S \in SUBSET Nat, IsFiniteSet(S), S # {}
  PROVE  Max(S) \in S /\ \A g \in S : g <= Max(S)
<1> DEFINE Later(g) == {f \in S : f > g}
           T == {Later(g) : g \in S}
<1>1. T \subseteq FiniteSubsetsOf(S) /\ T # {}
  <2>1. \A g \in S : Later(g) \in SUBSET S
    OBVIOUS
  <2>2. \A U \in SUBSET S : IsFiniteSet(U)
    BY FS_Subset
  <2> QED BY <2>1, <2>2 DEF FiniteSubsetsOf
<1>2. IsWellFoundedOn(StrictSubsetOrdering(S), FiniteSubsetsOf(S))
  BY FS_StrictSubsetOrderingWellFounded
<1>3. PICK x \in T : \A y \in T : <<y, x>> \notin StrictSubsetOrdering(S)
  <2> HIDE DEF T
  <2> QED BY <1>1, <1>2, WFMin
<1>4. PICK h \in S : x = Later(h)
  OBVIOUS
<1>5. ASSUME NEW g \in S, ~(g <= h) PROVE FALSE
  <2>1. g > h /\ g \in Nat /\ h \in Nat
    BY <1>5
  <2>2. Later(g) \subseteq Later(h) /\ g \in Later(h) /\ g \notin Later(g)
    <3>1. \A f \in S : f > g => f > h
      BY <2>1
    <3>2. \A a, b : a \in Later(b) <=> a \in S /\ a > b
      OBVIOUS
    <3> HIDE DEF T, Later
    <3>3. ~(g > g)
      BY <2>1
    <3> QED BY <2>1, <3>1, <3>2, <3>3
  <2>3. <<Later(g), Later(h)>> \in StrictSubsetOrdering(S)
    BY <2>2 DEF StrictSubsetOrdering
  <2> QED BY <1>3, <1>4, <2>3
<1>6. \A y \in S : (\A g \in S : y >= g) <=> y = h
  BY <1>5
<1>7. Max(S) = h
  BY <1>6 DEF Max
<1> QED BY <1>5, <1>7

(* The copies of a cookie that the space has in hand are finitely many.    *)
LEMMA InHandFinite ==
  ASSUME GateTypeOK, NEW c \in Cookies
  PROVE  InHand(c) \in SUBSET Nat /\ IsFiniteSet(InHand(c)) /\ space.recs[c] \in InHand(c)
<1>1. /\ space.recs[c] \in Nat /\ space.staged[c] \in Nat /\ space.sync.recs[c] \in Nat
      /\ \A i \in DOMAIN space.queue : space.queue[i].recs[c] \in Nat
  BY Parts DEF Versions
<1>2. IsFiniteSet(DOMAIN space.queue)
  <2>1. DOMAIN space.queue = 1..Len(space.queue) /\ Len(space.queue) \in Nat
    BY Parts
  <2> QED BY <2>1, FS_Interval
<1>3. IsFiniteSet(Queued(c))
  <2> DEFINE g == [i \in DOMAIN space.queue |-> space.queue[i].recs[c]]
  <2>1. g \in Surjection(DOMAIN space.queue, Queued(c))
    BY DEF Surjection, Queued
  <2> QED BY <1>2, <2>1, FS_Surjection
<1>4. IsFiniteSet(Queued(c) \union {space.recs[c], space.staged[c], space.sync.recs[c]})
  <2>1. \A x : IsFiniteSet({x})
    BY FS_Singleton
  <2>2. /\ IsFiniteSet({space.recs[c]}) /\ IsFiniteSet({space.staged[c]})
        /\ IsFiniteSet({space.sync.recs[c]})
    BY <2>1
  <2>3. IsFiniteSet(Queued(c) \union {space.recs[c]})
    BY <1>3, <2>2, FS_Union
  <2>4. IsFiniteSet(Queued(c) \union {space.recs[c]} \union {space.staged[c]})
    BY <2>2, <2>3, FS_Union
  <2>5. IsFiniteSet(Queued(c) \union {space.recs[c]} \union {space.staged[c]} \union {space.sync.recs[c]})
    BY <2>2, <2>4, FS_Union
  <2>6. Queued(c) \union {space.recs[c]} \union {space.staged[c]} \union {space.sync.recs[c]}
          = Queued(c) \union {space.recs[c], space.staged[c], space.sync.recs[c]}
    OBVIOUS
  <2> QED BY <2>5, <2>6
<1> QED BY <1>1, <1>4 DEF InHand, Queued

(* SyncService: a record that a connection delivered is written, staged or *)
(* queued for one of the two, unless the cookie store refused it or the    *)
(* clearing at the end of a Pull or Push swept it away.                    *)
THEOREM ReceivedIsKeptAlways == GateSpec => []ReceivedIsKept
<1>1. ASSUME GInv PROVE ReceivedIsKept
  <2> SUFFICES ASSUME NEW c \in Cookies, c \notin link.dropped PROVE ~(link.got[c] > Max(InHand(c)))
    BY DEF ReceivedIsKept
  <2>1. GateTypeOK /\ link.got[c] \in Nat
    BY <1>1, Parts DEF GInv, Versions
  <2>2. PICK v \in InHand(c) : link.got[c] <= v
    BY <1>1 DEF GInv, KeptSomewhere, InHand, Queued
  <2>3. InHand(c) \in SUBSET Nat /\ IsFiniteSet(InHand(c)) /\ InHand(c) # {}
    BY <2>1, InHandFinite
  <2>4. Max(InHand(c)) \in Nat /\ v <= Max(InHand(c)) /\ v \in Nat
    BY <2>3, MaxOfFinite
  <2> QED BY <2>1, <2>2, <2>4
<1> QED BY <1>1, GInvHolds, PTL

(* Only finishHydration's end declares a space hydrated.                   *)
LEMMA OnlySeedDeclares ==
  ASSUME GInv, [GateNext]_gateVars, \A i \in DOMAIN space.finishing : ~FinishSeed(i)
  PROVE  space'.once = space.once
<1>1. GateTypeOK /\ space \in SpaceType /\ peers.ver \in Nat
  BY Shapes, Parts DEF GInv
<1>2. CASE UNCHANGED space
  BY <1>2
<1>3. CASE Connect
  BY <1>1, <1>3 DEF Connect, Reconnected, SpaceType
<1>4. CASE Disconnect \/ RetryTimer
  BY <1>1, <1>4 DEF Disconnect, Offline, RetryTimer, SpaceType
<1>5. CASE Deliver
  BY <1>1, <1>5 DEF Deliver, TakeLive, TakeFirst, FinishHydration, SpaceType
<1>6. CASE QueueStep
  <2>1. space.queue # <<>>
    BY <1>6 DEF QueueStep, RunApply, RunLive, RunLiveApply
  <2>2. Head(space.queue).recs \in Versions
    BY <2>1, HeadJob
  <2>3. Popped(space) \in SpaceType /\ Popped(space).once = space.once
    BY <1>1, <2>1, PoppedFields
  <2> DEFINE a == Applied(space, Head(space.queue).recs)
  <2>4. a \in SpaceType /\ a.once = space.once /\ a.queue # <<>>
    BY <1>1, <2>1, <2>2, AppliedFields
  <2>5. Popped(a) \in SpaceType /\ Popped(a).once = space.once
    BY <2>4, PoppedFields
  <2>6. \A s \in SpaceType : \A v : /\ [s EXCEPT !.staged = v].once = s.once
                                   /\ [s EXCEPT !.err = v].once = s.once
    BY DEF SpaceType
  <2> HIDE DEF a
  <2>7. CASE RunApply
    <3>1. space' = Popped(a) \/ \E v : space' = [Popped(space) EXCEPT !.err = v]
      BY <2>7 DEF RunApply, a
    <3> QED BY <2>3, <2>5, <2>6, <3>1, ZenonT(60)
  <2>8. CASE RunLiveApply
    <3>1. space' = Popped(space) \/ \E v : space' = [Popped(a) EXCEPT !.staged = v]
      BY <2>8 DEF RunLiveApply, a
    <3>2. ASSUME NEW v, space' = [Popped(a) EXCEPT !.staged = v] PROVE space'.once = space.once
      BY <2>5, <3>2 DEF SpaceType
    <3> QED BY <2>3, <3>1, <3>2
  <2>9. CASE RunLive
    <3>1. \/ \E v : space' = [Popped(space) EXCEPT !.staged = v]
          \/ \E v, q : space' = [space EXCEPT !.staged = v, !.queue = q]
      BY <2>9 DEF RunLive
    <3> QED BY <1>1, <2>3, <2>6, <3>1 DEF SpaceType
  <2> QED BY <1>6, <2>7, <2>8, <2>9 DEF QueueStep
<1>7. CASE FinishStep
  <2>1. PICK i \in DOMAIN space.finishing : FinishQueue(i)
    BY <1>7 DEF FinishStep
  <2>2. \/ \E F : space' = [space EXCEPT !.finishing = F]
        \/ \E F : space' = [space EXCEPT !.finishing = F, !.retry = TRUE]
        \/ \E F : space' = [space EXCEPT !.finishing = F, !.hydrating = FALSE]
    BY <1>1, <2>1 DEF FinishQueue, Without, SpaceType
  <2> QED BY <1>1, <2>2 DEF SpaceType
<1>8. ASSUME NEW c \in Rotating, NeverSync(c) \/ SyncAgain(c) PROVE space'.once = space.once
  <2>1. Seeded(space) \in SpaceType /\ Seeded(space).once = space.once
    BY SeededFields
  <2> QED BY <1>1, <1>8, <2>1 DEF NeverSync, SyncAgain, SpaceType
<1>9. CASE PullStart \/ PushStart
  BY <1>1, <1>9 DEF PullStart, PushStart, SpaceType
<1>10. CASE PullEnd
  <2>1. space.sync.recs \in Versions
    BY <1>1, Parts
  <2>2. Applied(space, space.sync.recs) \in SpaceType /\ Applied(space, space.sync.recs).once = space.once
    BY <1>1, <2>1, AppliedFields
  <2> QED BY <1>1, <1>10, <2>2 DEF PullEnd, SpaceType
<1>11. ASSUME NEW c \in Cookies, PushVisit(c) PROVE space'.once = space.once
  <2>1. \/ \E y : space' = [space EXCEPT !.sync = y]
        \/ \E y, r : space' = [space EXCEPT !.sync = y, !.recs = r]
    BY <1>1, <1>11 DEF PushVisit, SpaceType
  <2> QED BY <1>1, <2>1 DEF SpaceType
<1>12. CASE PushEnd
  BY <1>1, <1>12 DEF PushEnd, SpaceType
<1> QED BY <1>2, <1>3, <1>4, <1>5, <1>6, <1>7, <1>8, <1>9, <1>10, <1>11, <1>12
        DEF GateNext, gateVars, PeerWrites, HubHydrates, FinishStep, PushStep

(* finishHydration: the step that declares a space hydrated finds in the   *)
(* engine everything the hub had sent before its hydrate.done, however     *)
(* many connections, refused writes and overlapping hydrations there were. *)
THEOREM OnceMeansCompleteAlways == GateSpec => OnceMeansComplete
<1> DEFINE Declared(i) == ~space.once /\ space'.once /\ space'.finishing = RemoveAt(space.finishing, i)
                          /\ space.finishing[i].step = "seed"
           Whole == \A i \in DOMAIN space.finishing :
                      Declared(i) => \A c \in Cookies : space.finishing[i].due[c] <= space'.recs[c]
<1>1. ASSUME GInv, [GateNext]_gateVars PROVE Whole
  <2> SUFFICES ASSUME NEW i \in DOMAIN space.finishing, Declared(i), NEW c \in Cookies
               PROVE  space.finishing[i].due[c] <= space'.recs[c]
    OBVIOUS
  <2>1. PICK j \in DOMAIN space.finishing : FinishSeed(j)
    BY <1>1, OnlySeedDeclares
  <2>2. /\ Seeded(space) \in SpaceType /\ Under(space.recs, Seeded(space).recs)
        /\ \A d \in Cookies : Seeded(space).recs[d] \in Nat
    BY <1>1, SeededFields
  <2>3. space'.recs = Seeded(space).recs
    <3>1. \E F : space' = [Seeded(space) EXCEPT !.finishing = F, !.once = TRUE]
      BY <2>1, <2>2 DEF FinishSeed, Without, SpaceType
    <3> QED BY <2>2, <3>1 DEF SpaceType
  <2>4. Under(space.finishing[i].due, space.recs)
    BY <1>1 DEF GInv, FinishCovered
  <2>5. space.finishing[i].due[c] \in Nat /\ space.recs[c] \in Nat
    BY <1>1, Parts DEF GInv, Versions
  <2> QED BY <2>2, <2>3, <2>4, <2>5 DEF Under
<1>2. GInv /\ [GateNext]_gateVars => [Whole]_gateVars
  BY <1>1
<1> HIDE DEF Whole
<1>3. GateSpec => [][Whole]_gateVars
  BY <1>2, GInvHolds, PTL DEF GateSpec
<1> QED BY <1>3 DEF OnceMeansComplete, Whole
=============================================================================
