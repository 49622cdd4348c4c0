------------------------ MODULE MachineAgent_proofs ------------------------
(* The terminal of the machine agent, for any number of desktops, launches   *)
(* and bytes: a shell's exit is told once, and the pump of a channel         *)
(* implements the ordered delivery of PtyDelivery.                           *)
(*                                                                           *)
(* The second rests on two facts.  The chunks of the broadcast, and the one  *)
(* in the reader's hand, follow each other in the stream.  And what a pump   *)
(* has still to deliver is in a chunk it has not taken, or was a capture of  *)
(* the screen.                                                               *)
EXTENDS PtyStream, FiniteSetTheorems, WellFoundedInduction, TLAPS

Piece == [end : Nat, len : Nat]

LaneRow == [base : Nat, total : Nat, mute : SUBSET Nat, child : {"live", "exited"},
            pc : {"read", "send", "over"}, hand : Piece, sent : Seq(Piece)]

ConnRow == [up : BOOLEAN, record : {"none", "running", "exited"},
            pump : {"none", "asked", "running", "resync", "ended"}, gen : 0..MaxLaunches,
            at : Nat, delivered : Nat, stray : BOOLEAN, got : Seq(Nat \X Nat)]

TerminalShape ==
    agent \in AgentType /\ lane \in [Launches -> LaneRow] /\ conn \in [Conns -> ConnRow]

(* Without tmux the session's child is the shell; a tmux client that died    *)
(* while its shell lives can be launched again.                              *)
SessionStands ==
    /\ agent.shell = "none" => ~agent.open /\ agent.gen = 0
    /\ agent.open => agent.gen \in Launches
    /\ agent.open /\ agent.shell = "live" /\ lane[agent.gen].child = "exited"
         => agent.mux /\ agent.gen < MaxLaunches

(* The exit of a shell that is still in the table has not been told.         *)
ToldWhenReaped ==
    agent.told + agent.pending
      <= agent.failed + (IF agent.shell = "gone" /\ ~agent.open THEN 1 ELSE 0)

Lies(p, o) == p.end - p.len < o /\ o <= p.end

(* The pieces of a launch follow each other, and none goes beyond the ring.  *)
Follows(l) ==
    /\ l.base <= l.total
    /\ l.pc # "send" => l.hand = NoChunk
    /\ l.pc = "send" => l.hand.end <= l.total
    /\ \A i \in DOMAIN l.sent :
         /\ l.sent[i].end <= l.total
         /\ l.pc = "send" => l.sent[i].end <= l.hand.end - l.hand.len
         /\ \A j \in DOMAIN l.sent : i < j => l.sent[i].end <= l.sent[j].end - l.sent[j].len

LanesFollow ==
    \A g \in Launches :
        /\ Follows(lane[g])
        /\ g > agent.gen => /\ lane[g].base = 0 /\ lane[g].total = 0 /\ lane[g].mute = {}
                            /\ lane[g].sent = <<>> /\ lane[g].pc = "over"

(* Offset o is still on its way to a pump.                                   *)
Comes(k, l, o) ==
    Lies(l.hand, o) \/ \E i \in DOMAIN l.sent : i > k.at /\ Lies(l.sent[i], o)

Complete(k, l) ==
    \A o \in Nat : k.delivered < o /\ o <= l.total => o \in l.mute \/ Comes(k, l, o)

PumpStands(k) ==
    /\ k.gen <= agent.gen
    /\ k.pump \in {"none", "asked"} => k.gen = 0 /\ ~k.stray
    /\ k.pump \in {"running", "resync"} => k.gen # 0
    /\ k.gen # 0 => k.at <= Len(lane[k.gen].sent)
    /\ k.gen # 0 /\ ~k.stray => k.delivered <= lane[k.gen].total
    /\ k.pump = "running" /\ ~k.stray => Complete(k, lane[k.gen])

PumpsStand == \A c \in Conns : PumpStands(conn[c])

TInv == TerminalShape /\ SessionStands /\ ToldWhenReaped /\ LanesFollow /\ PumpsStand

----------------------------------------------------------------------------
(* The ring.                                                                 *)

(* The last of a set of offsets of a ring.                                   *)
LEMMA LastOffset ==
  ASSUME NEW t \in Nat, NEW S \in SUBSET (0..t), S # {}
  PROVE  Max(S) \in S /\ \A o \in S : o <= Max(S)
<1> DEFINE Beyond(o) == {p \in S : p > o}
           T == {Beyond(o) : o \in S}
<1>1. IsFiniteSet(S)
  <2>1. IsFiniteSet(0..t)
    BY FS_Interval
  <2> QED BY <2>1, FS_Subset
<1>2. T \subseteq FiniteSubsetsOf(S) /\ T # {}
  <2>1. \A U \in SUBSET S : IsFiniteSet(U)
    BY <1>1, FS_Subset
  <2>2. \A o \in S : Beyond(o) \in SUBSET S
    OBVIOUS
  <2> QED BY <2>1, <2>2 DEF FiniteSubsetsOf
<1>3. PICK x \in T : \A y \in T : <<y, x>> \notin StrictSubsetOrdering(S)
  <2>1. IsWellFoundedOn(StrictSubsetOrdering(S), FiniteSubsetsOf(S))
    BY FS_StrictSubsetOrderingWellFounded
  <2> HIDE DEF T
  <2> QED BY <1>2, <2>1, WFMin
<1>4. PICK h \in S : x = Beyond(h)
  OBVIOUS
<1>5. ASSUME NEW o \in S PROVE o <= h
  <2>1. SUFFICES ASSUME o > h PROVE FALSE
    OBVIOUS
  <2>2. ~(o > o) /\ \A p \in S : p > o => p > h
    BY <2>1
  <2>3. \A p, q : p \in Beyond(q) <=> p \in S /\ p > q
    OBVIOUS
  <2>4. Beyond(o) \in T
    OBVIOUS
  <2> HIDE DEF Beyond, T
  <2>5. /\ o \in Beyond(h) /\ o \notin Beyond(o)
        /\ Beyond(o) \subseteq Beyond(h) /\ Beyond(h) \subseteq S
    BY <2>1, <2>2, <2>3
  <2>6. <<Beyond(o), Beyond(h)>> \in StrictSubsetOrdering(S)
    BY <2>5 DEF StrictSubsetOrdering
  <2> QED BY <1>3, <1>4, <2>4, <2>6
<1>6. \A y \in S : (\A o \in S : y >= o) <=> y = h
  BY <1>5
<1>7. Max(S) = h
  BY <1>6 DEF Max
<1> QED BY <1>5, <1>7

(* Bytes enter the ring at its end; lines over the cap leave it at its front. *)
LEMMA PushFields ==
  ASSUME NEW l \in LaneRow, l.base <= l.total, NEW n \in Nat
  PROVE  LET e == Push(l, n) IN
         /\ e \in LaneRow /\ e.total = l.total + n /\ l.base <= e.base /\ e.base <= e.total
         /\ e.mute = l.mute /\ e.child = l.child /\ e.pc = l.pc /\ e.hand = l.hand /\ e.sent = l.sent
<1>1. PICK t \in Nat : t = l.total + n
  BY DEF LaneRow
<1> DEFINE m == [l EXCEPT !.total = t]
           over == {o \in LineEnds(m) : Cardinality({p \in LineEnds(m) : p > o}) >= MaxLines}
           S == {m.base} \union over
           e == Push(l, n)
<1>2. /\ m \in LaneRow /\ m.base = l.base /\ m.total = t /\ m.mute = l.mute /\ m.child = l.child
      /\ m.pc = l.pc /\ m.hand = l.hand /\ m.sent = l.sent
  BY DEF LaneRow
<1>3. e = [m EXCEPT !.base = Max(S)]
  BY <1>1 DEF Push, Evicted
<1>4. l.base \in Nat /\ l.total \in Nat /\ l.base <= t
  BY <1>1 DEF LaneRow
<1> HIDE DEF m
<1>5. over \subseteq 0..t
  <2>1. \A o \in LineEnds(m) : o \in Nat /\ o <= t
    BY <1>2, PtyAssumption DEF LineEnds
  <2> QED BY <1>1, <2>1
<1>6. S \in SUBSET (0..t) /\ m.base \in S
  BY <1>1, <1>2, <1>4, <1>5
<1> HIDE DEF S
<1>7. Max(S) \in 0..t /\ m.base <= Max(S)
  BY <1>1, <1>6, LastOffset
<1>8. PICK b \in Nat : b = Max(S)
  BY <1>7
<1>9. e = [m EXCEPT !.base = b]
  BY <1>3, <1>8
<1> HIDE DEF e
<1>10. /\ e \in LaneRow /\ e.total = m.total /\ e.base = b /\ e.mute = m.mute /\ e.child = m.child
       /\ e.pc = m.pc /\ e.hand = m.hand /\ e.sent = m.sent
  BY <1>2, <1>9 DEF LaneRow
<1> QED BY <1>1, <1>2, <1>7, <1>8, <1>10 DEF e

(* A capture takes the place of what is retained.                            *)
LEMMA ReplaceFields ==
  ASSUME NEW l \in LaneRow, l.base <= l.total, NEW n \in Nat
  PROVE  LET e == ReplaceRetained(l, n) IN
         /\ e \in LaneRow /\ e.total = l.total + n /\ l.base <= e.base /\ e.base <= e.total
         /\ e.mute = l.mute \union ((l.total + 1)..(l.total + n))
         /\ e.child = l.child /\ e.pc = l.pc /\ e.hand = l.hand /\ e.sent = l.sent
<1> DEFINE M == l.mute \union ((l.total + 1)..(l.total + n))
           m == [l EXCEPT !.base = l.total, !.mute = M]
           e == ReplaceRetained(l, n)
<1>1. l.total \in Nat /\ l.base \in Nat /\ M \in SUBSET Nat
  BY DEF LaneRow
<1>2. e = Push(m, n)
  BY DEF ReplaceRetained
<1> HIDE DEF M
<1>3. /\ m \in LaneRow /\ m.base = l.total /\ m.total = l.total /\ m.mute = M /\ m.child = l.child
      /\ m.pc = l.pc /\ m.hand = l.hand /\ m.sent = l.sent
  BY <1>1 DEF LaneRow
<1> HIDE DEF m, e
<1>4. m.base <= m.total
  BY <1>1, <1>3
<1>5. /\ e \in LaneRow /\ e.total = m.total + n /\ m.base <= e.base /\ e.base <= e.total
      /\ e.mute = m.mute /\ e.child = m.child /\ e.pc = m.pc /\ e.hand = m.hand /\ e.sent = m.sent
  BY <1>2, <1>3, <1>4, PushFields
<1>6. e.base \in Nat
  BY <1>5 DEF LaneRow
<1> QED BY <1>1, <1>3, <1>5, <1>6 DEF M, e

LEMMA LaneOfFields ==
  ASSUME NEW n \in Nat
  PROVE  LET e == LaneOf(n) IN
         /\ e \in LaneRow /\ e.total = n /\ 0 <= e.base /\ e.base <= e.total
         /\ e.mute = 1..n /\ e.child = "live" /\ e.pc = "read" /\ e.hand = NoChunk /\ e.sent = <<>>
<1> DEFINE m == [base |-> 0, total |-> 0, mute |-> 1..n, child |-> "live", pc |-> "read",
                 hand |-> NoChunk, sent |-> <<>>]
           e == LaneOf(n)
<1>1. e = Push(m, n)
  BY DEF LaneOf
<1>2. <<>> \in Seq(Piece) /\ NoChunk \in Piece /\ 1..n \in SUBSET Nat
  BY DEF NoChunk, Piece
<1>3. /\ m \in LaneRow /\ m.base = 0 /\ m.total = 0 /\ m.mute = 1..n /\ m.child = "live"
      /\ m.pc = "read" /\ m.hand = NoChunk /\ m.sent = <<>>
  BY <1>2 DEF LaneRow
<1> HIDE DEF m, e
<1>4. /\ e \in LaneRow /\ e.total = m.total + n /\ m.base <= e.base /\ e.base <= e.total
      /\ e.mute = m.mute /\ e.child = m.child /\ e.pc = m.pc /\ e.hand = m.hand /\ e.sent = m.sent
  <2>1. m.base <= m.total
    BY <1>3
  <2> QED BY <1>1, <1>3, <2>1, PushFields
<1> QED BY <1>3, <1>4 DEF e

----------------------------------------------------------------------------
(* The lane of a launch goes from l to m.                                    *)

Grows(l, m) ==
  /\ m \in LaneRow /\ Follows(m) /\ l.total <= m.total /\ l.base <= m.base
  /\ l.mute \subseteq m.mute /\ m.mute \ l.mute \subseteq (l.total + 1)..m.total
  /\ Len(l.sent) <= Len(m.sent)
  /\ \A k \in ConnRow : k.at <= Len(l.sent) /\ Complete(k, l) => Complete(k, m)

LEMMA RowNumbers ==
  ASSUME NEW l \in LaneRow
  PROVE  /\ l.base \in Nat /\ l.total \in Nat /\ l.mute \in SUBSET Nat /\ l.sent \in Seq(Piece)
         /\ l.hand.end \in Nat /\ l.hand.len \in Nat /\ Len(l.sent) \in Nat
         /\ DOMAIN l.sent = 1..Len(l.sent)
         /\ \A i \in DOMAIN l.sent : l.sent[i].end \in Nat /\ l.sent[i].len \in Nat
<1>1. /\ l.base \in Nat /\ l.total \in Nat /\ l.mute \in SUBSET Nat /\ l.sent \in Seq(Piece)
      /\ l.hand \in Piece
  BY DEF LaneRow
<1>2. \A i \in DOMAIN l.sent : l.sent[i] \in Piece
  BY <1>1
<1> QED BY <1>1, <1>2 DEF Piece

(* A step that touches neither the ring nor the broadcast.                   *)
LEMMA StaysGrows ==
  ASSUME NEW l \in LaneRow, Follows(l), NEW m \in LaneRow, m.base = l.base, m.total = l.total,
         m.mute = l.mute, m.pc = "send" <=> l.pc = "send", m.hand = l.hand, m.sent = l.sent
  PROVE  Grows(l, m)
<1>1. l.base \in Nat /\ l.total \in Nat /\ Len(l.sent) \in Nat
  BY RowNumbers
<1>2. \A k \in ConnRow : Complete(k, l) => Complete(k, m)
  BY DEF Complete, Comes
<1>3. Follows(m)
  BY DEF Follows
<1> QED BY <1>1, <1>2, <1>3 DEF Grows

LEMMA ReadGrows ==
  ASSUME NEW l \in LaneRow, Follows(l), l.pc = "read", NEW n \in Nat
  PROVE  Grows(l, [Push(l, n) EXCEPT !.pc = "send", !.hand = [end |-> l.total + n, len |-> n]])
<1> DEFINE p == Push(l, n)
           h == [end |-> l.total + n, len |-> n]
           m == [p EXCEPT !.pc = "send", !.hand = h]
<1>1. /\ l.base \in Nat /\ l.total \in Nat /\ Len(l.sent) \in Nat
      /\ \A i \in DOMAIN l.sent : l.sent[i].end \in Nat /\ l.sent[i].len \in Nat
  BY RowNumbers
<1>2. /\ p \in LaneRow /\ p.total = l.total + n /\ l.base <= p.base /\ p.base <= p.total
      /\ p.mute = l.mute /\ p.sent = l.sent
  BY PushFields DEF Follows
<1>3. h \in Piece /\ h.end = l.total + n /\ h.len = n
  BY <1>1 DEF Piece
<1> HIDE DEF p, h
<1>4. /\ m \in LaneRow /\ m.total = l.total + n /\ m.base = p.base /\ m.mute = l.mute
      /\ m.sent = l.sent /\ m.hand = h /\ m.pc = "send"
  BY <1>2, <1>3 DEF LaneRow
<1> HIDE DEF m
<1>5. \A i \in DOMAIN l.sent : /\ l.sent[i].end <= l.total
                               /\ \A j \in DOMAIN l.sent : i < j => l.sent[i].end <= l.sent[j].end - l.sent[j].len
  BY DEF Follows
<1>6. h.end - h.len = l.total
  BY <1>1, <1>3
<1>7. Follows(m)
  <2>1. m.hand.end <= m.total /\ m.base <= m.total
    BY <1>1, <1>2, <1>3, <1>4
  <2>2. \A i \in DOMAIN m.sent : m.sent[i].end <= m.total
    BY <1>1, <1>4, <1>5
  <2> QED BY <1>4, <1>5, <1>6, <2>1, <2>2 DEF Follows
<1>8. ASSUME NEW k \in ConnRow, Complete(k, l) PROVE Complete(k, m)
  <2> SUFFICES ASSUME NEW o \in Nat, k.delivered < o, o <= m.total, o \notin m.mute PROVE Comes(k, m, o)
    BY DEF Complete
  <2>1. CASE o <= l.total
    <3>1. Comes(k, l, o)
      BY <1>4, <1>8, <2>1 DEF Complete
    <3>2. ~Lies(l.hand, o)
      BY DEF Follows, NoChunk, Lies
    <3> QED BY <1>4, <3>1, <3>2 DEF Comes
  <2>2. CASE ~(o <= l.total)
    BY <1>1, <1>3, <1>4, <1>6, <2>2 DEF Comes, Lies
  <2> QED BY <2>1, <2>2
<1>9. l.total <= m.total /\ l.base <= m.base
  BY <1>1, <1>2, <1>4
<1> QED BY <1>1, <1>4, <1>7, <1>8, <1>9 DEF Grows, m, p, h

LEMMA SendGrows ==
  ASSUME NEW l \in LaneRow, Follows(l), l.pc = "send"
  PROVE  Grows(l, [l EXCEPT !.pc = "read", !.hand = NoChunk, !.sent = Append(@, l.hand)])
<1> DEFINE s == Append(l.sent, l.hand)
           m == [l EXCEPT !.pc = "read", !.hand = NoChunk, !.sent = s]
           z == Len(l.sent) + 1
<1>1. /\ l.base \in Nat /\ l.total \in Nat /\ l.sent \in Seq(Piece) /\ Len(l.sent) \in Nat
      /\ DOMAIN l.sent = 1..Len(l.sent) /\ l.hand.end \in Nat /\ l.hand.len \in Nat
      /\ \A i \in DOMAIN l.sent : l.sent[i].end \in Nat /\ l.sent[i].len \in Nat
  BY RowNumbers
<1>2. l.hand \in Piece /\ NoChunk \in Piece
  BY DEF LaneRow, Piece, NoChunk
<1>3. /\ s \in Seq(Piece) /\ Len(s) = z /\ DOMAIN s = 1..z /\ s[z] = l.hand
      /\ \A i \in 1..Len(l.sent) : s[i] = l.sent[i]
  BY <1>1, <1>2
<1> HIDE DEF s
<1>4. /\ m \in LaneRow /\ m.total = l.total /\ m.base = l.base /\ m.mute = l.mute
      /\ m.sent = s /\ m.hand = NoChunk /\ m.pc = "read"
  BY <1>2, <1>3 DEF LaneRow
<1> HIDE DEF m
<1>5. /\ l.base <= l.total /\ l.hand.end <= l.total
      /\ \A i \in DOMAIN l.sent :
           /\ l.sent[i].end <= l.total
           /\ l.sent[i].end <= l.hand.end - l.hand.len
           /\ \A j \in DOMAIN l.sent : i < j => l.sent[i].end <= l.sent[j].end - l.sent[j].len
  BY DEF Follows
<1>6. \A i \in DOMAIN s : i = z \/ (i \in DOMAIN l.sent /\ s[i] = l.sent[i])
  BY <1>1, <1>3
<1>7. \A i \in DOMAIN s : \A j \in DOMAIN s : i < j => s[i].end <= s[j].end - s[j].len
  <2> SUFFICES ASSUME NEW i \in DOMAIN s, NEW j \in DOMAIN s, i < j PROVE s[i].end <= s[j].end - s[j].len
    OBVIOUS
  <2>1. i # z /\ i \in DOMAIN l.sent /\ s[i] = l.sent[i]
    BY <1>1, <1>3, <1>6
  <2> QED BY <1>3, <1>5, <1>6, <2>1
<1>8. Follows(m)
  <2>1. \A i \in DOMAIN s : s[i].end <= l.total
    BY <1>3, <1>5, <1>6
  <2> QED BY <1>4, <1>5, <1>7, <2>1 DEF Follows
<1>9. ASSUME NEW k \in ConnRow, k.at <= Len(l.sent), Complete(k, l) PROVE Complete(k, m)
  <2> SUFFICES ASSUME NEW o \in Nat, k.delivered < o, o <= m.total, o \notin m.mute PROVE Comes(k, m, o)
    BY DEF Complete
  <2>1. Comes(k, l, o)
    BY <1>4, <1>9 DEF Complete
  <2>2. CASE Lies(l.hand, o)
    <3>1. z \in DOMAIN s /\ z > k.at
      BY <1>1, <1>3, <1>9 DEF ConnRow
    <3> QED BY <1>3, <1>4, <2>2, <3>1 DEF Comes
  <2>3. CASE \E i \in DOMAIN l.sent : i > k.at /\ Lies(l.sent[i], o)
    <3>1. PICK i \in DOMAIN l.sent : i > k.at /\ Lies(l.sent[i], o)
      BY <2>3
    <3>2. i \in DOMAIN s /\ s[i] = l.sent[i]
      BY <1>1, <1>3
    <3> QED BY <1>4, <3>1, <3>2 DEF Comes
  <2> QED BY <2>1, <2>2, <2>3 DEF Comes
<1> QED BY <1>1, <1>3, <1>4, <1>8, <1>9 DEF Grows, m, s

LEMMA ReplaceGrows ==
  ASSUME NEW l \in LaneRow, Follows(l), NEW n \in Nat
  PROVE  Grows(l, ReplaceRetained(l, n))
<1> DEFINE m == ReplaceRetained(l, n)
           M == (l.total + 1)..(l.total + n)
<1>1. /\ l.base \in Nat /\ l.total \in Nat /\ Len(l.sent) \in Nat /\ l.hand.end \in Nat
      /\ \A i \in DOMAIN l.sent : l.sent[i].end \in Nat /\ l.sent[i].len \in Nat
  BY RowNumbers
<1>2. /\ m \in LaneRow /\ m.total = l.total + n /\ l.base <= m.base /\ m.base <= m.total
      /\ m.mute = l.mute \union M /\ m.pc = l.pc /\ m.hand = l.hand /\ m.sent = l.sent
  BY ReplaceFields DEF Follows
<1>3. \A o \in Nat : o <= l.total \/ o <= l.total + n => o <= l.total \/ o \in M
  BY <1>1
<1> HIDE DEF m, M
<1>4. Follows(m)
  <2>1. \A i \in DOMAIN l.sent : l.sent[i].end <= l.total => l.sent[i].end <= m.total
    BY <1>1, <1>2
  <2>2. l.hand.end <= l.total => l.hand.end <= m.total
    BY <1>1, <1>2
  <2> QED BY <1>2, <2>1, <2>2 DEF Follows
<1>5. \A k \in ConnRow : Complete(k, l) => Complete(k, m)
  BY <1>2, <1>3 DEF Complete, Comes
<1>6. m.mute \ l.mute \subseteq (l.total + 1)..m.total
  BY <1>2 DEF M
<1> QED BY <1>1, <1>2, <1>4, <1>5, <1>6 DEF Grows, m

(* A launch that was not used until now.                                     *)
LEMMA LaunchGrows ==
  ASSUME NEW l \in LaneRow, l.base = 0, l.total = 0, l.mute = {}, l.sent = <<>>, NEW n \in Nat
  PROVE  Grows(l, LaneOf(n))
<1> DEFINE m == LaneOf(n)
<1>1. /\ m \in LaneRow /\ m.total = n /\ 0 <= m.base /\ m.base <= m.total
      /\ m.mute = 1..n /\ m.pc = "read" /\ m.hand = NoChunk /\ m.sent = <<>>
  BY LaneOfFields
<1> HIDE DEF m
<1>2. Follows(m)
  BY <1>1 DEF Follows
<1>3. \A k \in ConnRow : Complete(k, m)
  <2> SUFFICES ASSUME NEW k \in ConnRow, NEW o \in Nat, k.delivered < o, o <= n PROVE o \in 1..n
    BY <1>1 DEF Complete
  <2> QED BY DEF ConnRow
<1>4. m.mute \ l.mute \subseteq (l.total + 1)..m.total
  BY <1>1
<1> QED BY <1>1, <1>2, <1>3, <1>4 DEF Grows, m

----------------------------------------------------------------------------
(* What a step is to PtyDelivery.                                            *)

Windows == [g \in Launches |-> WindowOf(lane[g])]
Feeds   == [c \in Conns |-> FeedOf(conn[c])]
NoFeed  == [launch |-> 0, upto |-> 0, got |-> <<>>]

DeliveryStep == [Delivery!DeliveryNext]_(Delivery!deliveryVars)

(* One launch's lane grows, at most.                                         *)
OneLane(g) ==
  /\ lane' = [lane EXCEPT ![g] = lane'[g]]
  /\ Grows(lane[g], lane'[g])
  /\ g > agent'.gen => lane'[g] = lane[g]

(* The pump of a channel is left alone, or the channel is closed.            *)
SamePump(k, e) == /\ e.pump = k.pump /\ e.gen = k.gen /\ e.at = k.at /\ e.delivered = k.delivered
                  /\ e.stray = k.stray /\ e.got = k.got
Shut(e) == e.pump \in {"none", "asked"} /\ e.gen = 0 /\ e.at = 0 /\ e.delivered = 0 /\ e.stray = FALSE

LEMMA ShutFeed == \A e : Shut(e) => FeedOf(e) = NoFeed
  BY DEF Shut, FeedOf, NoFeed

LEMMA SameFeed == \A k, e : SamePump(k, e) => FeedOf(e) = FeedOf(k)
  BY DEF SamePump, FeedOf

LEMMA GrowsItself == ASSUME TInv, NEW g \in Launches PROVE Grows(lane[g], lane[g])
<1>1. lane[g] \in LaneRow /\ Follows(lane[g])
  BY DEF TInv, TerminalShape, LanesFollow
<1> QED BY <1>1, StaysGrows

LEMMA LanesKept ==
  ASSUME TInv, NEW g \in Launches, OneLane(g), agent' \in AgentType, agent.gen <= agent'.gen
  PROVE  /\ lane' \in [Launches -> LaneRow] /\ LanesFollow'
         /\ \A h \in Launches : (h # g => lane'[h] = lane[h]) /\ Grows(lane[h], lane'[h])
<1>1. /\ lane \in [Launches -> LaneRow] /\ agent.gen \in Nat /\ agent'.gen \in Nat
      /\ lane'[g] \in LaneRow /\ MaxLaunches \in Nat
  BY PtyAssumption DEF TInv, TerminalShape, AgentType, OneLane, Grows
<1>2. lane' \in [Launches -> LaneRow] /\ \A h \in Launches : h # g => lane'[h] = lane[h]
  BY <1>1 DEF OneLane
<1>3. \A h \in Launches : Grows(lane[h], lane'[h])
  BY <1>2, GrowsItself DEF OneLane
<1>4. LanesFollow'
  <2> SUFFICES ASSUME NEW h \in Launches
               PROVE  /\ Follows(lane'[h])
                      /\ h > agent'.gen => /\ lane'[h].base = 0 /\ lane'[h].total = 0 /\ lane'[h].mute = {}
                                           /\ lane'[h].sent = <<>> /\ lane'[h].pc = "over"
    BY DEF LanesFollow
  <2>1. Follows(lane'[h])
    BY <1>3 DEF Grows
  <2>2. ASSUME h > agent'.gen PROVE lane'[h] = lane[h] /\ h > agent.gen
    <3>1. h \in Nat
      BY DEF Launches
    <3> QED BY <1>1, <1>2, <2>2, <3>1 DEF OneLane
  <2> QED BY <2>1, <2>2 DEF TInv, LanesFollow
<1> QED BY <1>2, <1>3, <1>4

(* A pump that is left alone keeps its place.                                *)
LEMMA PumpKept ==
  ASSUME TInv, NEW k \in ConnRow, NEW e \in ConnRow, PumpStands(k), SamePump(k, e),
         lane' \in [Launches -> LaneRow], \A h \in Launches : Grows(lane[h], lane'[h]),
         agent' \in AgentType, agent.gen <= agent'.gen
  PROVE  PumpStands(e)'
<1>1. k.gen \in Nat /\ agent.gen \in Nat /\ agent'.gen \in Nat /\ k.at \in Nat /\ k.delivered \in Nat
  BY PtyAssumption DEF TInv, TerminalShape, AgentType, ConnRow
<1>2. e.gen <= agent'.gen
  BY <1>1 DEF PumpStands, SamePump
<1>3. CASE k.gen = 0
  BY <1>2, <1>3 DEF PumpStands, SamePump
<1>4. CASE k.gen # 0
  <2> DEFINE l == lane[k.gen]
             m == lane'[k.gen]
  <2>1. k.gen \in Launches
    BY <1>4, PtyAssumption DEF ConnRow, Launches
  <2>2. l \in LaneRow /\ m \in LaneRow /\ Grows(l, m)
    BY <2>1 DEF TInv, TerminalShape
  <2>3. Len(l.sent) \in Nat /\ Len(m.sent) \in Nat /\ l.total \in Nat /\ m.total \in Nat
    BY <2>2, RowNumbers
  <2>4. k.at <= Len(m.sent) /\ (~k.stray => k.delivered <= m.total)
    <3>1. k.at <= Len(l.sent) /\ (~k.stray => k.delivered <= l.total)
      BY <1>4 DEF PumpStands
    <3>2. Len(l.sent) <= Len(m.sent) /\ l.total <= m.total
      BY <2>2 DEF Grows
    <3> HIDE DEF l, m
    <3> QED BY <1>1, <2>3, <3>1, <3>2
  <2>5. k.pump = "running" /\ ~k.stray => Complete(k, m)
    BY <1>4, <2>2 DEF PumpStands, Grows
  <2>6. Complete(k, m) => Complete(e, m)
    BY DEF Complete, Comes, SamePump
  <2> QED BY <1>2, <1>4, <2>4, <2>5, <2>6 DEF PumpStands, SamePump
<1> QED BY <1>3, <1>4

LEMMA PumpsKept ==
  ASSUME TInv, lane' \in [Launches -> LaneRow], \A h \in Launches : Grows(lane[h], lane'[h]),
         agent' \in AgentType, agent.gen <= agent'.gen, conn' \in [Conns -> ConnRow],
         \A c \in Conns : SamePump(conn[c], conn'[c]) \/ Shut(conn'[c])
  PROVE  PumpsStand'
<1> SUFFICES ASSUME NEW c \in Conns PROVE PumpStands(conn[c])'
  BY DEF PumpsStand
<1>1. conn[c] \in ConnRow /\ PumpStands(conn[c]) /\ conn'[c] \in ConnRow
  BY DEF TInv, TerminalShape, PumpsStand
<1>2. PICK e \in ConnRow : e = conn'[c]
  BY <1>1
<1>3. PICK k \in ConnRow : k = conn[c]
  BY <1>1
<1>4. PumpStands(k)
  BY <1>1, <1>3
<1>5. PumpStands(e)'
  <2>1. CASE SamePump(k, e)
    BY <1>4, <2>1, PumpKept
  <2>2. CASE Shut(e)
    <3>1. 0 <= agent'.gen
      BY DEF AgentType
    <3> QED BY <2>2, <3>1 DEF Shut, PumpStands
  <2> QED BY <1>2, <1>3, <2>1, <2>2
<1> QED BY <1>2, <1>5 DEF PumpStands

(* Steps of the agent and its readers: one lane grows, one channel may close. *)
LEMMA LaneStep ==
  ASSUME TInv, NEW g \in Launches, OneLane(g), agent' \in AgentType, agent.gen <= agent'.gen,
         conn' \in [Conns -> ConnRow],
         \/ \A c \in Conns : SamePump(conn[c], conn'[c])
         \/ \E c \in Conns : /\ Shut(conn'[c])
                             /\ \A d \in Conns : d # c => SamePump(conn[d], conn'[d]),
         SessionStands', ToldWhenReaped'
  PROVE  TInv' /\ DeliveryStep
<1>1. /\ lane' \in [Launches -> LaneRow] /\ LanesFollow'
      /\ \A h \in Launches : (h # g => lane'[h] = lane[h]) /\ Grows(lane[h], lane'[h])
  BY LanesKept
<1>2. TInv'
  BY <1>1, PumpsKept DEF TInv, TerminalShape
<1>3. Windows' = [Windows EXCEPT ![g] = Windows'[g]]
  BY <1>1 DEF Windows
<1>4. /\ Windows[g] = WindowOf(lane[g]) /\ Windows'[g] = WindowOf(lane'[g])
  BY DEF Windows
<1>5. /\ Windows[g].total <= Windows'[g].total /\ Windows[g].base <= Windows'[g].base
      /\ Windows'[g].base <= Windows'[g].total /\ Windows[g].mute \subseteq Windows'[g].mute
      /\ Windows'[g].mute \ Windows[g].mute \subseteq (Windows[g].total + 1)..Windows'[g].total
  BY <1>1, <1>4 DEF WindowOf, Grows, Follows
<1>6. Feeds' = Feeds \/ \E c \in Conns : Feeds' = [Feeds EXCEPT ![c] = NoFeed]
  <2>1. CASE \A c \in Conns : SamePump(conn[c], conn'[c])
    <3>1. \A c \in Conns : FeedOf(conn'[c]) = FeedOf(conn[c])
      BY <2>1, SameFeed
    <3> QED BY <3>1 DEF Feeds
  <2>2. ASSUME NEW c \in Conns, Shut(conn'[c]), \A d \in Conns : d # c => SamePump(conn[d], conn'[d])
        PROVE  Feeds' = [Feeds EXCEPT ![c] = NoFeed]
    <3>1. \A d \in Conns : d # c => FeedOf(conn'[d]) = FeedOf(conn[d])
      BY <2>2, SameFeed
    <3>2. FeedOf(conn'[c]) = NoFeed
      BY <2>2, ShutFeed
    <3> QED BY <3>1, <3>2 DEF Feeds
  <2> QED BY <2>1, <2>2
<1>7. Delivery!Grow(g)
  BY <1>3, <1>5, <1>6 DEF Delivery!Grow, Delivery!Closed, Delivery!Idle, Windows, Feeds, NoFeed
<1> QED BY <1>2, <1>7 DEF DeliveryStep, Delivery!DeliveryNext

----------------------------------------------------------------------------
(* The reader threads.                                                       *)

LEMMA Types ==
  ASSUME TInv
  PROVE  /\ agent \in AgentType /\ lane \in [Launches -> LaneRow] /\ conn \in [Conns -> ConnRow]
         /\ MaxLaunches \in Nat /\ 1 \in Launches /\ Launches \subseteq Nat
         /\ agent.gen \in 0..MaxLaunches /\ agent.gen \in Nat
         /\ agent.told \in Nat /\ agent.pending \in Nat /\ agent.failed \in Nat
         /\ \A g \in Launches : lane[g] \in LaneRow /\ Follows(lane[g])
         /\ \A c \in Conns : conn[c] \in ConnRow /\ PumpStands(conn[c])
  BY PtyAssumption DEF TInv, TerminalShape, AgentType, LanesFollow, PumpsStand, Launches

LEMMA RowStep ==
  ASSUME TInv, NEW g \in Launches, g <= agent.gen, lane' = [lane EXCEPT ![g] = lane'[g]],
         Grows(lane[g], lane'[g]), lane'[g].child = lane[g].child, agent' = agent, conn' = conn
  PROVE  TInv' /\ DeliveryStep
<1>1. OneLane(g)
  <2>1. ~(g > agent.gen)
    BY Types
  <2> QED BY <2>1 DEF OneLane
<1>2. \A h \in Launches : lane'[h].child = lane[h].child
  BY Types
<1>3. SessionStands' /\ ToldWhenReaped'
  BY <1>2 DEF TInv, SessionStands, ToldWhenReaped
<1>4. agent.gen <= agent'.gen /\ agent' \in AgentType /\ conn' \in [Conns -> ConnRow]
  BY Types
<1>5. \A c \in Conns : SamePump(conn[c], conn'[c])
  BY DEF SamePump
<1> QED BY <1>1, <1>3, <1>4, <1>5, LaneStep

(* A thread that is not over is one of a launch there has been.              *)
LEMMA ReaderLaunched ==
  ASSUME TInv, NEW g \in Launches, lane[g].pc # "over"
  PROVE  g <= agent.gen
  BY Types DEF TInv, LanesFollow

LEMMA ReadKeeps ==
  ASSUME TInv, NEW g \in Launches, NEW n \in ChunkSizes, Read(g, n)
  PROVE  TInv' /\ DeliveryStep
<1> DEFINE l == lane[g]
           p == Push(l, n)
           h == [end |-> l.total + n, len |-> n]
           m == [p EXCEPT !.pc = "send", !.hand = h]
<1>1. l \in LaneRow /\ Follows(l) /\ l.pc = "read" /\ n \in Nat
  BY Types, PtyAssumption DEF Read
<1>2. lane' = [lane EXCEPT ![g] = m] /\ agent' = agent /\ conn' = conn
  BY DEF Read
<1>3. Grows(l, m)
  BY <1>1, ReadGrows
<1>4. p \in LaneRow /\ p.child = l.child
  BY <1>1, PushFields DEF Follows
<1> HIDE DEF p, h
<1>5. m.child = l.child
  BY <1>4 DEF LaneRow
<1> HIDE DEF m
<1>6. lane'[g] = m
  BY <1>2, Types
<1> QED BY <1>1, <1>2, <1>3, <1>5, <1>6, RowStep, ReaderLaunched

LEMMA SendKeeps ==
  ASSUME TInv, NEW g \in Launches, Send(g)
  PROVE  TInv' /\ DeliveryStep
<1> DEFINE l == lane[g]
           m == [l EXCEPT !.pc = "read", !.hand = NoChunk, !.sent = Append(@, l.hand)]
<1>1. l \in LaneRow /\ Follows(l) /\ l.pc = "send" /\ lane \in [Launches -> LaneRow]
  BY Types DEF Send
<1>2. lane' = [lane EXCEPT ![g] = m] /\ agent' = agent /\ conn' = conn
  BY <1>1 DEF Send
<1>3. Grows(l, m)
  BY <1>1, SendGrows
<1>4. m.child = l.child
  BY <1>1 DEF LaneRow
<1> HIDE DEF m
<1>5. lane'[g] = m
  BY <1>1, <1>2
<1> QED BY <1>1, <1>2, <1>3, <1>4, <1>5, RowStep, ReaderLaunched

LEMMA EofKeeps ==
  ASSUME TInv, NEW g \in Launches, Eof(g)
  PROVE  TInv' /\ DeliveryStep
<1> DEFINE l == lane[g]
           m == [l EXCEPT !.pc = "over"]
<1>1. l \in LaneRow /\ Follows(l) /\ l.pc = "read" /\ lane \in [Launches -> LaneRow]
  BY Types DEF Eof
<1>2. lane' = [lane EXCEPT ![g] = m] /\ agent' = agent /\ conn' = conn
  BY <1>1 DEF Eof
<1>3. /\ m \in LaneRow /\ m.base = l.base /\ m.total = l.total /\ m.mute = l.mute /\ m.pc = "over"
      /\ m.hand = l.hand /\ m.sent = l.sent /\ m.child = l.child
  BY <1>1 DEF LaneRow
<1> HIDE DEF m
<1>4. Grows(l, m)
  BY <1>1, <1>3, StaysGrows
<1>5. lane'[g] = m
  BY <1>1, <1>2
<1> QED BY <1>1, <1>2, <1>3, <1>4, <1>5, RowStep, ReaderLaunched

----------------------------------------------------------------------------
(* The agent: what reaping, launching and restarting do to the table.        *)

AgentMoves ==
  /\ agent' \in AgentType /\ agent.gen <= agent'.gen /\ SessionStands' /\ ToldWhenReaped'
  /\ \E g \in Launches : OneLane(g)

LEMMA LaneAlone == ASSUME TInv, lane' = lane PROVE \E g \in Launches : OneLane(g)
<1>1. lane' = [lane EXCEPT ![1] = lane'[1]] /\ 1 \in Launches
  BY Types
<1> QED BY <1>1, GrowsItself DEF OneLane

(* A shell that is reaped is gone, and had not been told.                    *)
LEMMA ReapedFields ==
  ASSUME TInv
  PROVE  LET a == Reaped IN
         /\ a \in AgentType /\ a.gen = agent.gen /\ a.mux = agent.mux /\ a.shell = agent.shell
         /\ a.open <=> agent.open /\ ~Dead
         /\ a.told = agent.told /\ a.failed = agent.failed /\ a.pending \in Nat
         /\ a.told + a.pending <= a.failed + (IF a.shell = "gone" /\ ~a.open THEN 1 ELSE 0)
<1> DEFINE a == Reaped
<1>1. CASE ~Dead
  <2>1. a = agent
    BY <1>1 DEF Reaped
  <2> QED BY <1>1, <2>1, Types DEF TInv, ToldWhenReaped
<1>2. CASE Dead
  <2>1. PICK q \in Nat : q = agent.pending + (IF HasSession THEN 0 ELSE 1)
    BY Types
  <2>2. a = [agent EXCEPT !.open = FALSE, !.pending = q]
    BY <1>2, <2>1 DEF Reaped
  <2> HIDE DEF a
  <2>3. /\ a \in AgentType /\ a.open = FALSE /\ a.pending = q /\ a.gen = agent.gen /\ a.mux = agent.mux
        /\ a.shell = agent.shell /\ a.told = agent.told /\ a.failed = agent.failed
    BY <2>2, Types DEF AgentType
  <2>4. agent.told + agent.pending <= agent.failed
    BY <1>2, Types DEF TInv, ToldWhenReaped, Dead
  <2>5. HasSession \/ agent.shell = "gone"
    <3>1. agent.shell \in {"none", "live", "gone"}
      BY Types DEF AgentType
    <3> QED BY <1>2, <3>1 DEF HasSession, Dead, TInv, SessionStands
  <2>6. CASE HasSession
    <3>1. q = agent.pending
      BY <2>1, <2>6, Types
    <3> QED BY <1>2, <2>3, <2>4, <3>1, Types DEF a
  <2>7. CASE ~HasSession
    <3>1. q = agent.pending + 1 /\ agent.shell = "gone"
      BY <2>1, <2>5, <2>7
    <3> QED BY <1>2, <2>3, <2>4, <3>1, Types DEF a
  <2> QED BY <2>6, <2>7
<1> QED BY <1>1, <1>2

LEMMA ListMoves == ASSUME TInv, agent' = Reaped, lane' = lane PROVE AgentMoves
<1>1. /\ agent' \in AgentType /\ agent'.gen = agent.gen /\ agent'.mux = agent.mux
      /\ agent'.shell = agent.shell /\ (agent'.open => agent.open)
      /\ agent'.told + agent'.pending
           <= agent'.failed + (IF agent'.shell = "gone" /\ ~agent'.open THEN 1 ELSE 0)
  BY ReapedFields
<1>2. SessionStands' /\ ToldWhenReaped'
  BY <1>1 DEF TInv, SessionStands, ToldWhenReaped
<1>3. agent.gen <= agent'.gen
  BY <1>1, Types
<1> QED BY <1>1, <1>2, <1>3, LaneAlone DEF AgentMoves

(* The child of the session in the table has exited.                         *)
LEMMA ChildExits ==
  ASSUME TInv, agent.open, lane' = [lane EXCEPT ![agent.gen].child = "exited"],
         agent'.gen = agent.gen
  PROVE  OneLane(agent.gen) /\ agent.gen \in Launches
<1> DEFINE g == agent.gen
           m == [lane[g] EXCEPT !.child = "exited"]
<1>1. g \in Launches /\ g \in Nat
  BY Types DEF TInv, SessionStands
<1>2. lane' = [lane EXCEPT ![g] = m] /\ lane'[g] = m /\ lane[g] \in LaneRow /\ Follows(lane[g])
  BY <1>1, Types
<1>3. /\ m \in LaneRow /\ m.base = lane[g].base /\ m.total = lane[g].total /\ m.mute = lane[g].mute
      /\ m.pc = lane[g].pc /\ m.hand = lane[g].hand /\ m.sent = lane[g].sent
  BY <1>2 DEF LaneRow
<1> HIDE DEF m
<1>4. Grows(lane[g], m)
  BY <1>2, <1>3, StaysGrows
<1>5. ~(g > agent'.gen)
  BY <1>1
<1> HIDE DEF g
<1>6. OneLane(g)
  BY <1>2, <1>4, <1>5 DEF OneLane
<1> QED BY <1>1, <1>6 DEF g

LEMMA ExitMoves == ASSUME TInv, ShellExits PROVE AgentMoves
<1>1. agent' = [agent EXCEPT !.shell = "gone", !.unseen = ~agent.open] /\ agent.shell = "live"
  BY DEF ShellExits
<1>2. /\ agent' \in AgentType /\ agent'.shell = "gone" /\ agent'.open = agent.open
      /\ agent'.gen = agent.gen /\ agent'.told = agent.told /\ agent'.pending = agent.pending
      /\ agent'.failed = agent.failed
  BY <1>1, Types DEF AgentType
<1>3. SessionStands'
  BY <1>1, <1>2 DEF TInv, SessionStands
<1>4. ToldWhenReaped'
  BY <1>1, <1>2, Types DEF TInv, ToldWhenReaped
<1>5. \E g \in Launches : OneLane(g)
  <2>1. CASE agent.open /\ ~agent.mux
    BY <1>2, <2>1, ChildExits DEF ShellExits
  <2>2. CASE ~(agent.open /\ ~agent.mux)
    BY <2>2, LaneAlone DEF ShellExits
  <2> QED BY <2>1, <2>2
<1>6. agent.gen <= agent'.gen
  BY <1>2, Types
<1> QED BY <1>2, <1>3, <1>4, <1>5, <1>6 DEF AgentMoves

(* Another session on the shell, of which no exit has been told.             *)
LEMMA LaunchMoves ==
  ASSUME TInv, NEW n \in Nat, LaunchClient(n), agent' \in AgentType, agent'.gen = agent.gen + 1,
         agent'.shell = "live", agent'.told + agent'.pending <= agent'.failed
  PROVE  AgentMoves
<1> DEFINE g == agent'.gen
<1>1. g \in Launches /\ g \in Nat /\ g > agent.gen /\ agent.gen <= g /\ ~(g > agent'.gen)
  BY Types DEF AgentType, Launches
<1>2. lane' = [lane EXCEPT ![g] = LaneOf(n)] /\ lane'[g] = LaneOf(n)
  BY <1>1, Types DEF LaunchClient
<1>3. /\ lane[g] \in LaneRow /\ lane[g].base = 0 /\ lane[g].total = 0 /\ lane[g].mute = {}
      /\ lane[g].sent = <<>>
  BY <1>1, Types DEF TInv, LanesFollow
<1>4. Grows(lane[g], LaneOf(n)) /\ LaneOf(n).child = "live"
  BY <1>3, LaunchGrows, LaneOfFields
<1>5. SessionStands'
  BY <1>1, <1>2, <1>4 DEF SessionStands
<1>6. ToldWhenReaped'
  BY DEF ToldWhenReaped, AgentType
<1>7. \E h \in Launches : OneLane(h)
  <2>1. PICK h \in Launches : h = g
    BY <1>1
  <2>2. OneLane(h)
    BY <1>1, <1>2, <1>4, <2>1 DEF OneLane
  <2> QED BY <2>2
<1> QED BY <1>1, <1>5, <1>6, <1>7 DEF AgentMoves

LEMMA LaunchedFields ==
  ASSUME TInv, agent.gen < MaxLaunches
  PROVE  LET a == Launched IN
         /\ a \in AgentType /\ a.gen = agent.gen + 1 /\ a.open = TRUE /\ a.shell = agent.shell
         /\ a.told = agent.told /\ a.pending = agent.pending /\ a.failed = agent.failed
<1>1. PICK m \in 0..MaxLaunches : m = agent.gen + 1
  BY Types
<1>2. Launched = [agent EXCEPT !.open = TRUE, !.gen = m]
  BY <1>1 DEF Launched
<1> QED BY <1>1, <1>2, Types DEF AgentType

LEMMA AttachMoves ==
  ASSUME TInv, NEW restore \in {"running", "exited", "error"}, AgentAttach(restore)
  PROVE  AgentMoves
<1>1. CASE agent.open /\ ~Dead /\ agent' = agent /\ lane' = lane
  <2>1. SessionStands' /\ ToldWhenReaped'
    BY <1>1 DEF TInv, SessionStands, ToldWhenReaped
  <2>2. agent' \in AgentType /\ agent.gen <= agent'.gen
    BY <1>1, Types
  <2> QED BY <1>1, <2>1, <2>2, LaneAlone DEF AgentMoves
<1>2. ASSUME agent.open, agent' = agent, NEW n \in Captures,
             lane' = [lane EXCEPT ![agent.gen] = ReplaceRetained(@, n)]
      PROVE  AgentMoves
  <2> DEFINE g == agent.gen
             m == ReplaceRetained(lane[g], n)
  <2>1. g \in Launches /\ n \in Nat /\ lane[g] \in LaneRow /\ Follows(lane[g])
    BY <1>2, Types DEF TInv, SessionStands, Captures
  <2>2. lane' = [lane EXCEPT ![g] = m] /\ lane'[g] = m
    BY <1>2, <2>1, Types
  <2>3. Grows(lane[g], m) /\ m.child = lane[g].child
    BY <2>1, ReplaceGrows, ReplaceFields DEF Follows
  <2> HIDE DEF m
  <2>4. SessionStands' /\ ToldWhenReaped'
    BY <1>2, <2>2, <2>3 DEF TInv, SessionStands, ToldWhenReaped
  <2>5. agent' \in AgentType /\ agent.gen <= agent'.gen /\ ~(g > agent'.gen)
    BY <1>2, Types
  <2>6. \E h \in Launches : OneLane(h)
    <3>1. PICK h \in Launches : h = g
      BY <2>1
    <3>2. OneLane(h)
      BY <2>2, <2>3, <2>5, <3>1 DEF OneLane
    <3> QED BY <3>2
  <2> QED BY <2>4, <2>5, <2>6 DEF AgentMoves
<1>3. ASSUME HasSession, agent.gen < MaxLaunches, NEW n \in Captures, LaunchClient(n), agent' = Launched
      PROVE  AgentMoves
  <2>1. /\ agent' \in AgentType /\ agent'.gen = agent.gen + 1 /\ agent'.shell = agent.shell
        /\ agent'.told = agent.told /\ agent'.pending = agent.pending /\ agent'.failed = agent.failed
    BY <1>3, LaunchedFields
  <2>2. agent.told + agent.pending <= agent.failed /\ agent.shell = "live" /\ n \in Nat
    BY <1>3, Types DEF TInv, ToldWhenReaped, HasSession, Captures
  <2> QED BY <1>3, <2>1, <2>2, LaunchMoves
<1>4. CASE agent' = Reaped /\ lane' = lane
  BY <1>4, ListMoves
<1> QED BY <1>1, <1>2, <1>3, <1>4 DEF AgentAttach

LEMMA CollectMoves == ASSUME TInv, CollectNewExits PROVE AgentMoves
<1>1. ASSUME Dead, HasSession, NEW n \in Captures, LaunchClient(n), agent' = Told(Launched, 0)
      PROVE  AgentMoves
  <2> DEFINE a == Launched
  <2>1. agent.gen < MaxLaunches
    BY <1>1 DEF TInv, SessionStands, Dead, HasSession
  <2>2. /\ a \in AgentType /\ a.gen = agent.gen + 1 /\ a.shell = agent.shell
        /\ a.told = agent.told /\ a.pending = agent.pending /\ a.failed = agent.failed
    BY <2>1, LaunchedFields
  <2>3. PICK t \in Nat : t = agent.told + agent.pending
    BY Types
  <2>4. a.told + a.pending + 0 = t
    BY <2>2, <2>3, Types
  <2>5. agent' = [a EXCEPT !.pending = 0, !.told = t]
    BY <1>1, <2>4 DEF Told
  <2> HIDE DEF a
  <2>6. /\ agent' \in AgentType /\ agent'.gen = a.gen /\ agent'.shell = a.shell
        /\ agent'.told = t /\ agent'.pending = 0 /\ agent'.failed = a.failed
    BY <2>2, <2>5 DEF AgentType
  <2>7. t <= agent.failed /\ agent.shell = "live" /\ n \in Nat
    BY <1>1, <2>3, Types DEF TInv, ToldWhenReaped, HasSession, Captures
  <2>8. agent'.told + agent'.pending <= agent'.failed
    BY <2>2, <2>6, <2>7
  <2> QED BY <1>1, <2>2, <2>6, <2>7, <2>8, LaunchMoves
<1>2. ASSUME HasSession, Dead, agent' = Told([agent EXCEPT !.open = FALSE, !.failed = @ + 1], 1), lane' = lane
      PROVE  AgentMoves
  <2>0. PICK u \in Nat : u = agent.failed + 1
    BY Types
  <2> DEFINE a == [agent EXCEPT !.open = FALSE, !.failed = u]
  <2>1. /\ a \in AgentType /\ a.open = FALSE /\ a.gen = agent.gen /\ a.shell = agent.shell
        /\ a.told = agent.told /\ a.pending = agent.pending /\ a.failed = u
    BY Types DEF AgentType
  <2>2. PICK t \in Nat : t = agent.told + agent.pending + 1
    BY Types
  <2>3. agent' = [a EXCEPT !.pending = 0, !.told = t]
    BY <1>2, <2>0, <2>1, <2>2 DEF Told
  <2> HIDE DEF a
  <2>4. /\ agent' \in AgentType /\ agent'.gen = agent.gen /\ agent'.shell = agent.shell
        /\ agent'.open = FALSE /\ agent'.told = t /\ agent'.pending = 0
        /\ agent'.failed = agent.failed + 1
    BY <2>0, <2>1, <2>3 DEF AgentType
  <2>5. agent.told + agent.pending <= agent.failed /\ agent.shell = "live"
    BY <1>2, Types DEF TInv, ToldWhenReaped, HasSession
  <2>6. SessionStands'
    BY <2>4, <2>5 DEF SessionStands
  <2>7. ToldWhenReaped'
    BY <2>2, <2>4, <2>5, Types DEF ToldWhenReaped
  <2>8. agent.gen <= agent'.gen
    BY <2>4, Types
  <2> QED BY <1>2, <2>4, <2>6, <2>7, <2>8, LaneAlone DEF AgentMoves
<1>3. ASSUME agent' = Told(Reaped, 0), lane' = lane
      PROVE  AgentMoves
  <2> DEFINE a == Reaped
  <2>1. /\ a \in AgentType /\ a.gen = agent.gen /\ a.mux = agent.mux /\ a.shell = agent.shell
        /\ (a.open => agent.open) /\ a.pending \in Nat /\ a.told \in Nat /\ a.failed \in Nat
        /\ a.told + a.pending <= a.failed + (IF a.shell = "gone" /\ ~a.open THEN 1 ELSE 0)
    BY ReapedFields DEF AgentType
  <2> HIDE DEF a
  <2>2. PICK t \in Nat : t = a.told + a.pending
    BY <2>1
  <2>3. agent' = [a EXCEPT !.pending = 0, !.told = t]
    <3>1. a.told + a.pending + 0 = t
      BY <2>1, <2>2
    <3> QED BY <1>3, <3>1 DEF Told, a
  <2>4. /\ agent' \in AgentType /\ agent'.gen = a.gen /\ agent'.shell = a.shell /\ agent'.mux = a.mux
        /\ agent'.open = a.open /\ agent'.told = t /\ agent'.pending = 0 /\ agent'.failed = a.failed
    BY <2>1, <2>3 DEF AgentType
  <2>5. SessionStands'
    BY <1>3, <2>1, <2>4 DEF TInv, SessionStands
  <2>6. ToldWhenReaped'
    BY <2>1, <2>2, <2>4 DEF ToldWhenReaped
  <2>7. agent.gen <= agent'.gen
    BY <2>1, <2>4, Types
  <2> QED BY <1>3, <2>4, <2>5, <2>6, <2>7, LaneAlone DEF AgentMoves
<1> QED BY <1>1, <1>2, <1>3 DEF CollectNewExits

LEMMA SpawnMoves ==
  ASSUME TInv, agent.shell = "none", agent' = [Launched EXCEPT !.shell = "live"], LaunchClient(0)
  PROVE  AgentMoves
<1> DEFINE a == Launched
<1>1. agent.gen = 0 /\ agent.gen < MaxLaunches /\ ~agent.open
  BY PtyAssumption DEF TInv, SessionStands
<1>2. /\ a \in AgentType /\ a.gen = agent.gen + 1 /\ a.told = agent.told
      /\ a.pending = agent.pending /\ a.failed = agent.failed
  BY <1>1, LaunchedFields
<1> HIDE DEF a
<1>3. /\ agent' \in AgentType /\ agent'.gen = agent.gen + 1 /\ agent'.shell = "live"
      /\ agent'.told = agent.told /\ agent'.pending = agent.pending /\ agent'.failed = agent.failed
  BY <1>2 DEF AgentType, a
<1>4. agent.told + agent.pending <= agent.failed
  BY Types DEF TInv, ToldWhenReaped
<1> QED BY <1>3, <1>4, LaunchMoves

----------------------------------------------------------------------------
(* The steps of the agent, with what they do to the desktops.                *)

LEMMA MovesKeep ==
  ASSUME TInv, AgentMoves, conn' \in [Conns -> ConnRow],
         \/ \A c \in Conns : SamePump(conn[c], conn'[c])
         \/ \E c \in Conns : /\ Shut(conn'[c])
                             /\ \A d \in Conns : d # c => SamePump(conn[d], conn'[d])
  PROVE  TInv' /\ DeliveryStep
<1>1. PICK g \in Launches : OneLane(g)
  BY DEF AgentMoves
<1> QED BY <1>1, LaneStep DEF AgentMoves

LEMMA NoPumpFields ==
  ASSUME NEW k \in ConnRow
  PROVE  NoPump(k) \in ConnRow /\ Shut(NoPump(k)) /\ NoPump(k).pump = "none"
<1>1. <<>> \in Seq(Nat \X Nat) /\ 0 \in 0..MaxLaunches
  BY PtyAssumption
<1> QED BY <1>1 DEF NoPump, ConnRow, Shut

LEMMA OpenedFields ==
  ASSUME TInv, NEW c \in Conns, NEW r \in {"none", "running", "exited"}
  PROVE  LET e == [Opened(c) EXCEPT !.record = r] IN e \in ConnRow /\ Shut(e)
<1> DEFINE p == NoPump(conn[c])
           o == [p EXCEPT !.pump = "asked"]
<1>1. p \in ConnRow /\ Shut(p)
  BY Types, NoPumpFields
<1> HIDE DEF p
<1>2. o \in ConnRow /\ Shut(o)
  BY <1>1 DEF ConnRow, Shut
<1> HIDE DEF o
<1>3. Opened(c) = o
  BY DEF Opened, o, p
<1> QED BY <1>2, <1>3 DEF ConnRow, Shut

(* One desktop's row is replaced.                                            *)
LEMMA OneConn ==
  ASSUME TInv, NEW c \in Conns, NEW e \in ConnRow, conn' = [conn EXCEPT ![c] = e]
  PROVE  /\ conn' \in [Conns -> ConnRow] /\ conn'[c] = e
         /\ \A d \in Conns : d # c => conn'[d] = conn[d] /\ SamePump(conn[d], conn'[d])
  BY Types DEF SamePump

LEMMA SpawnKeeps == ASSUME TInv, NEW c \in Conns, Spawn(c) PROVE TInv' /\ DeliveryStep
<1> DEFINE e == [Opened(c) EXCEPT !.record = "running"]
<1>1. conn' = [conn EXCEPT ![c] = e] /\ AgentMoves
  BY SpawnMoves DEF Spawn
<1>2. e \in ConnRow /\ Shut(e)
  BY OpenedFields
<1> HIDE DEF e
<1> QED BY <1>1, <1>2, OneConn, MovesKeep

LEMMA CloseKeeps == ASSUME TInv, NEW c \in Conns, Close(c) PROVE TInv' /\ DeliveryStep
<1> DEFINE p == NoPump(conn[c])
           e == [p EXCEPT !.record = "none"]
<1>1. conn' = [conn EXCEPT ![c] = e] /\ AgentMoves
  BY ExitMoves DEF Close
<1>2. p \in ConnRow /\ Shut(p)
  BY Types, NoPumpFields
<1> HIDE DEF p
<1>3. e \in ConnRow /\ Shut(e)
  BY <1>2 DEF ConnRow, Shut
<1> HIDE DEF e
<1> QED BY <1>1, <1>3, OneConn, MovesKeep

LEMMA ListKeeps == ASSUME TInv, NEW c \in Conns, List(c) PROVE TInv' /\ DeliveryStep
<1>1. AgentMoves
  BY ListMoves DEF List, AgentList
<1>2. PICK r \in {"running", "exited"} : conn' = [conn EXCEPT ![c].record = r]
  BY DEF List
<1> DEFINE e == [conn[c] EXCEPT !.record = r]
<1>3. conn' = [conn EXCEPT ![c] = e]
  BY <1>2, Types
<1>4. e \in ConnRow /\ SamePump(conn[c], e)
  BY Types DEF ConnRow, SamePump
<1> HIDE DEF e
<1> QED BY <1>1, <1>3, <1>4, OneConn, MovesKeep

LEMMA AttachKeeps == ASSUME TInv, NEW c \in Conns, Attach(c) PROVE TInv' /\ DeliveryStep
<1>1. PICK restore \in {"running", "exited", "error"} :
        /\ AgentAttach(restore)
        /\ conn' = IF restore = "error" THEN conn
                   ELSE [conn EXCEPT ![c] = [Opened(c) EXCEPT !.record = restore]]
  BY DEF Attach
<1>2. AgentMoves
  BY <1>1, AttachMoves
<1>3. CASE restore = "error"
  BY <1>1, <1>2, <1>3, Types, MovesKeep DEF SamePump
<1>4. CASE restore # "error"
  <2> DEFINE e == [Opened(c) EXCEPT !.record = restore]
  <2>1. conn' = [conn EXCEPT ![c] = e] /\ e \in ConnRow /\ Shut(e)
    BY <1>1, <1>4, OpenedFields
  <2> HIDE DEF e
  <2> QED BY <1>2, <2>1, OneConn, MovesKeep
<1> QED BY <1>3, <1>4

LEMMA AgentKeeps ==
  ASSUME TInv, Elsewhere \/ Exit \/ ClientExits
  PROVE  TInv' /\ DeliveryStep
<1>1. conn' \in [Conns -> ConnRow] /\ \A c \in Conns : SamePump(conn[c], conn'[c])
  BY Types DEF SamePump, Elsewhere, Exit, ClientExits
<1> SUFFICES AgentMoves
  BY <1>1, MovesKeep
<1>2. CASE Elsewhere
  BY <1>2, ListMoves, AttachMoves DEF Elsewhere, AgentList
<1>3. CASE Exit
  BY <1>3, ExitMoves DEF Exit
<1>4. CASE ClientExits
  <2>1. /\ agent.open /\ agent.mux /\ agent' = agent /\ (agent.shell = "gone" \/ agent.gen < MaxLaunches)
        /\ lane' = [lane EXCEPT ![agent.gen].child = "exited"]
    BY <1>4 DEF ClientExits
  <2>2. SessionStands' /\ ToldWhenReaped'
    BY <2>1 DEF TInv, SessionStands, ToldWhenReaped
  <2>3. agent' \in AgentType /\ agent.gen <= agent'.gen
    BY <2>1, Types
  <2>4. \E g \in Launches : OneLane(g)
    BY <2>1, ChildExits
  <2> QED BY <2>2, <2>3, <2>4 DEF AgentMoves
<1> QED BY <1>2, <1>3, <1>4

LEMMA CollectKeeps == ASSUME TInv, CollectNewExits PROVE TInv' /\ DeliveryStep
<1>1. PICK n \in Nat : Hear(n)
  BY Types DEF CollectNewExits
<1>2. conn' \in [Conns -> ConnRow] /\ \A c \in Conns : SamePump(conn[c], conn'[c])
  <2>1. ASSUME NEW c \in Conns
        PROVE  conn'[c] = conn[c] \/ conn'[c] = [conn[c] EXCEPT !.record = "exited"]
    BY <1>1 DEF Hear
  <2>2. ASSUME NEW c \in Conns PROVE conn'[c] \in ConnRow /\ SamePump(conn[c], conn'[c])
    <3>1. conn[c] \in ConnRow
      BY Types
    <3> QED BY <2>1, <3>1, ZenonT(60) DEF ConnRow, SamePump
  <2> QED BY <1>1, <2>2 DEF Hear
<1> QED BY <1>2, CollectMoves, MovesKeep

----------------------------------------------------------------------------
(* The output pumps.                                                         *)

(* A step of one channel.                                                    *)
LEMMA ConnStep ==
  ASSUME TInv, NEW c \in Conns, NEW e \in ConnRow, conn' = [conn EXCEPT ![c] = e],
         agent' = agent, lane' = lane, PumpStands(e)
  PROVE  TInv' /\ Windows' = Windows /\ Feeds' = [Feeds EXCEPT ![c] = FeedOf(e)]
<1>1. conn' \in [Conns -> ConnRow] /\ \A d \in Conns : conn'[d] = IF d = c THEN e ELSE conn[d]
  BY Types
<1>2. \A d \in Conns : PumpStands(conn'[d])
  BY <1>1, Types
<1>3. PumpsStand'
  <2> SUFFICES ASSUME NEW d \in Conns PROVE PumpStands(conn[d])'
    BY DEF PumpsStand
  <2>1. PumpStands(conn'[d])
    BY <1>2
  <2> QED BY <2>1 DEF PumpStands
<1>4. SessionStands' /\ ToldWhenReaped' /\ LanesFollow' /\ TerminalShape'
  BY <1>1 DEF TInv, SessionStands, ToldWhenReaped, LanesFollow, TerminalShape
<1>5. Feeds' = [Feeds EXCEPT ![c] = FeedOf(e)]
  BY <1>1 DEF Feeds
<1> QED BY <1>3, <1>4, <1>5 DEF TInv, Windows

(* ... which its client does not see, ...                                    *)
LEMMA QuietStep ==
  ASSUME TInv, NEW c \in Conns, NEW e \in ConnRow, conn' = [conn EXCEPT ![c] = e],
         agent' = agent, lane' = lane, PumpStands(e), FeedOf(e) = FeedOf(conn[c])
  PROVE  TInv' /\ DeliveryStep
<1>1. TInv' /\ Windows' = Windows /\ Feeds' = [Feeds EXCEPT ![c] = FeedOf(e)]
  BY ConnStep
<1>2. Feeds' = Feeds
  BY <1>1 DEF Feeds
<1> QED BY <1>1, <1>2 DEF DeliveryStep, Delivery!deliveryVars, Windows, Feeds

(* ... or that closes it.                                                    *)
LEMMA StopStep ==
  ASSUME TInv, NEW c \in Conns, NEW e \in ConnRow, conn' = [conn EXCEPT ![c] = e],
         agent' = agent, lane' = lane, PumpStands(e), FeedOf(e) = NoFeed
  PROVE  TInv' /\ DeliveryStep
<1>1. TInv' /\ Windows' = Windows /\ Feeds' = [Feeds EXCEPT ![c] = NoFeed]
  BY ConnStep
<1>2. Delivery!Stop(c)
  BY <1>1 DEF Delivery!Stop, Delivery!Closed, Delivery!Idle, Windows, Feeds, NoFeed
<1> QED BY <1>1, <1>2 DEF DeliveryStep, Delivery!DeliveryNext

LEMMA LinkKeeps ==
  ASSUME TInv, NEW c \in Conns, LinkLost(c) \/ Reconnect(c)
  PROVE  TInv' /\ DeliveryStep
<1>1. PICK b \in BOOLEAN : conn' = [conn EXCEPT ![c].up = b] /\ agent' = agent /\ lane' = lane
  BY DEF LinkLost, Reconnect
<1> DEFINE e == [conn[c] EXCEPT !.up = b]
<1>2. conn' = [conn EXCEPT ![c] = e] /\ conn[c] \in ConnRow /\ PumpStands(conn[c])
  BY <1>1, Types
<1>3. e \in ConnRow /\ SamePump(conn[c], e)
  BY <1>2 DEF ConnRow, SamePump
<1> HIDE DEF e
<1>4. PumpStands(e)
  BY <1>2, <1>3 DEF PumpStands, SamePump, Complete, Comes
<1> QED BY <1>1, <1>2, <1>3, <1>4, SameFeed, QuietStep

LEMMA ShutStands == ASSUME TInv, NEW e, Shut(e) PROVE PumpStands(e)
<1>1. 0 <= agent.gen
  BY Types
<1> QED BY <1>1 DEF Shut, PumpStands

LEMMA ChannelLostKeeps ==
  ASSUME TInv, NEW c \in Conns, ChannelLost(c)
  PROVE  TInv' /\ DeliveryStep
<1> DEFINE e == NoPump(conn[c])
<1>1. conn' = [conn EXCEPT ![c] = e] /\ agent' = agent /\ lane' = lane
  BY DEF ChannelLost
<1>2. e \in ConnRow /\ Shut(e)
  BY Types, NoPumpFields
<1> HIDE DEF e
<1> QED BY <1>1, <1>2, ShutStands, ShutFeed, StopStep

(* The pump's state alone changes, and it stops being one that has to be     *)
(* complete.                                                                 *)
LEMMA PausedKeeps ==
  ASSUME TInv, NEW c \in Conns, PumpLagged(c) \/ PumpClosed(c)
  PROVE  TInv' /\ DeliveryStep
<1> DEFINE k == conn[c]
           l == lane[k.gen]
<1>1. /\ k \in ConnRow /\ PumpStands(k) /\ k.pump = "running" /\ k.gen # 0
      /\ agent' = agent /\ lane' = lane
  BY Types DEF PumpLagged, PumpClosed, PumpStands
<1>2. k.gen \in Launches /\ k.at \in Nat
  BY <1>1, PtyAssumption DEF ConnRow, Launches
<1>3. l \in LaneRow /\ Len(l.sent) \in Nat
  BY <1>2, Types, RowNumbers
<1>4. PICK a \in Nat, p \in {"resync", "ended"} :
        a <= Len(l.sent) /\ conn' = [conn EXCEPT ![c] = [k EXCEPT !.at = a, !.pump = p]]
  <2>1. CASE PumpLagged(c)
    <3>1. PICK a \in Nat : a = Len(l.sent) - LagCapacity
      <4>1. Len(l.sent) - k.at > LagCapacity
        BY <2>1 DEF PumpLagged, Lagging
      <4>2. LagCapacity \in Nat
        BY PtyAssumption
      <4>3. PICK s \in Nat, t \in Nat : s = Len(l.sent) /\ t = k.at
        BY <1>2, <1>3
      <4>4. s - t > LagCapacity
        BY <4>1, <4>3
      <4>5. s - LagCapacity \in Nat
        BY <4>2, <4>4
      <4> QED BY <4>3, <4>5
    <3>2. a <= Len(l.sent)
      BY <1>3, <3>1, PtyAssumption
    <3>3. conn' = [conn EXCEPT ![c] = [k EXCEPT !.at = a, !.pump = "resync"]]
      BY <2>1, <3>1, Types DEF PumpLagged
    <3> QED BY <3>2, <3>3
  <2>2. CASE PumpClosed(c)
    <3>1. conn' = [conn EXCEPT ![c] = [k EXCEPT !.at = k.at, !.pump = "ended"]]
      BY <1>1, <2>2, Types DEF PumpClosed, ConnRow
    <3>2. k.at <= Len(l.sent)
      BY <1>1 DEF PumpStands
    <3> QED BY <1>2, <3>1, <3>2
  <2> QED BY <2>1, <2>2
<1> DEFINE e == [k EXCEPT !.at = a, !.pump = p]
<1> HIDE DEF k
<1>5. /\ e \in ConnRow /\ e.gen = k.gen /\ e.at = a /\ e.delivered = k.delivered
      /\ e.stray = k.stray /\ e.got = k.got /\ e.pump = p
  BY <1>1 DEF ConnRow
<1>6. conn' = [conn EXCEPT ![c] = e]
  BY <1>4
<1> HIDE DEF e
<1>7. PumpStands(e)
  BY <1>1, <1>4, <1>5 DEF PumpStands
<1>8. FeedOf(e) = FeedOf(k)
  BY <1>5 DEF FeedOf
<1> QED BY <1>1, <1>5, <1>6, <1>7, <1>8, QuietStep DEF k

(* What a client is handed, as offsets of the stream.                        *)
LEMMA SpanFields ==
  ASSUME NEW g \in Nat, NEW a \in Nat, NEW b \in Nat, a <= b
  PROVE  /\ Span(g, a, b) \in Seq(Nat \X Nat) /\ Len(Span(g, a, b)) = b - a
         /\ \A i \in 1..(b - a) : Span(g, a, b)[i][2] = a + i
<1> DEFINE n == IF b > a THEN b - a ELSE 0
<1>1. n \in Nat /\ n = b - a
  OBVIOUS
<1>2. Span(g, a, b) = [i \in 1..n |-> <<g, a + i>>]
  BY DEF Span
<1> HIDE DEF n
<1>3. \A i \in 1..n : <<g, a + i>> \in Nat \X Nat /\ <<g, a + i>>[2] = a + i
  BY <1>1
<1>4. Span(g, a, b) \in Seq(Nat \X Nat) /\ Len(Span(g, a, b)) = n
  BY <1>1, <1>2, <1>3
<1> QED BY <1>1, <1>2, <1>3, <1>4

LEMMA JoinFields ==
  ASSUME NEW T, NEW p \in Seq(T), NEW s \in Seq(T), NEW x \in Nat, NEW y \in Nat, Len(p) = x, Len(s) = y
  PROVE  /\ p \o s \in Seq(T) /\ Len(p \o s) = x + y /\ DOMAIN (p \o s) = 1..(x + y) /\ DOMAIN p = 1..x
         /\ \A i \in 1..x : (p \o s)[i] = p[i]
         /\ \A i \in (x + 1)..(x + y) : (p \o s)[i] = s[i - x]
  OBVIOUS

(* A pump that follows its launch writes the offsets after a, up to n.       *)
LEMMA ServeStep ==
  ASSUME TInv, NEW c \in Conns, NEW e \in ConnRow, conn' = [conn EXCEPT ![c] = e],
         agent' = agent, lane' = lane, PumpStands(e),
         conn[c].gen # 0, ~conn[c].stray, e.gen = conn[c].gen, ~e.stray,
         NEW n \in Nat, e.delivered = n, conn[c].delivered < n, n <= lane[e.gen].total,
         NEW a \in Nat, conn[c].delivered <= a, a <= n,
         e.got = conn[c].got \o Span(e.gen, a, n),
         \A o \in Nat : conn[c].delivered < o /\ o <= a => o <= lane[e.gen].base \/ o \in lane[e.gen].mute
  PROVE  TInv' /\ DeliveryStep
<1>1. PICK k \in ConnRow : k = conn[c]
  BY Types
<1>2. /\ k.gen \in Launches /\ k.gen \in Nat /\ k.delivered \in Nat /\ k.got \in Seq(Nat \X Nat)
      /\ Len(k.got) \in Nat
  BY <1>1, PtyAssumption DEF ConnRow, Launches
<1>3. PICK l \in LaneRow : l = lane[k.gen]
  BY <1>2, Types
<1> DEFINE s == Span(e.gen, a, n)
           x == Len(k.got)
           f == FeedOf(k)
           h == FeedOf(e)
<1>4. s \in Seq(Nat \X Nat) /\ Len(s) = n - a /\ \A i \in 1..(n - a) : s[i][2] = a + i
  <2>1. PICK g \in Nat : g = e.gen
    BY <1>1, <1>2
  <2>2. s = Span(g, a, n)
    BY <2>1
  <2> HIDE DEF s
  <2> QED BY <2>2, SpanFields, ZenonT(60)
<1> HIDE DEF s
<1>5. /\ e.got \in Seq(Nat \X Nat) /\ Len(e.got) = x + (n - a)
      /\ DOMAIN e.got = 1..(x + (n - a)) /\ DOMAIN k.got = 1..x
      /\ \A i \in 1..x : e.got[i] = k.got[i]
      /\ \A i \in (x + 1)..(x + (n - a)) : e.got[i] = s[i - x]
  <2>1. e.got = k.got \o s /\ n - a \in Nat
    BY <1>1 DEF s
  <2>2. PICK y \in Nat : y = n - a
    BY <2>1
  <2>3. PICK p \in Seq(Nat \X Nat) : p = k.got
    BY <1>2
  <2> HIDE DEF x
  <2>4. x \in Nat /\ Len(p) = x /\ Len(s) = y
    BY <1>2, <1>4, <2>2, <2>3 DEF x
  <2>5. /\ p \o s \in Seq(Nat \X Nat) /\ Len(p \o s) = x + y
        /\ DOMAIN (p \o s) = 1..(x + y) /\ DOMAIN p = 1..x
        /\ \A i \in 1..x : (p \o s)[i] = p[i]
        /\ \A i \in (x + 1)..(x + y) : (p \o s)[i] = s[i - x]
    <3> DEFINE T == Nat \X Nat
    <3>1. p \in Seq(T) /\ s \in Seq(T)
      BY <1>4
    <3> HIDE DEF T
    <3>2. /\ p \o s \in Seq(T) /\ Len(p \o s) = x + y
          /\ DOMAIN (p \o s) = 1..(x + y) /\ DOMAIN p = 1..x
          /\ \A i \in 1..x : (p \o s)[i] = p[i]
          /\ \A i \in (x + 1)..(x + y) : (p \o s)[i] = s[i - x]
      BY <2>4, <3>1, JoinFields, SMTT(30)
    <3> QED BY <3>2 DEF T
  <2> QED BY <2>1, <2>2, <2>3, <2>5
<1>6. /\ f = [launch |-> k.gen, upto |-> k.delivered, got |-> [i \in DOMAIN k.got |-> k.got[i][2]]]
      /\ h = [launch |-> k.gen, upto |-> n, got |-> [i \in DOMAIN e.got |-> e.got[i][2]]]
  BY <1>1 DEF FeedOf
<1> HIDE DEF f, h, x
<1>7. TInv' /\ Windows' = Windows /\ Feeds' = [Feeds EXCEPT ![c] = h]
  BY ConnStep DEF h
<1>8. /\ Feeds[c] = f /\ Feeds'[c] = h /\ Windows[k.gen] = WindowOf(l)
      /\ Windows[k.gen].base = l.base /\ Windows[k.gen].total = l.total /\ Windows[k.gen].mute = l.mute
  BY <1>1, <1>2, <1>3, <1>7 DEF Feeds, Windows, WindowOf, f
<1>9. /\ f.launch = k.gen /\ f.upto = k.delivered /\ DOMAIN f.got = 1..x
      /\ h.launch = k.gen /\ h.upto = n /\ DOMAIN h.got = 1..(x + (n - a))
      /\ \A i \in 1..x : f.got[i] = k.got[i][2]
      /\ \A i \in 1..(x + (n - a)) : h.got[i] = e.got[i][2]
  BY <1>5, <1>6
<1>10. x \in Nat /\ n - a \in Nat
  BY <1>2 DEF x
<1>11. \A i \in DOMAIN f.got : i \in DOMAIN h.got /\ h.got[i] = f.got[i]
  <2>1. \A i \in 1..x : i \in 1..(x + (n - a))
    BY <1>10
  <2>2. \A i \in 1..x : h.got[i] = f.got[i]
    BY <1>5, <1>9, <2>1, ZenonT(60)
  <2> QED BY <1>9, <2>1, <2>2
<1> DEFINE I == DOMAIN h.got \ DOMAIN f.got
           due == (k.delivered + 1)..n
           missed == (k.delivered + 1)..a
<1>12. \A i : i \in I <=> i \in (x + 1)..(x + (n - a))
  BY <1>9, <1>10
<1>13. \A i \in I : h.got[i] = a + (i - x)
  <2> SUFFICES ASSUME NEW i \in I PROVE h.got[i] = a + (i - x)
    OBVIOUS
  <2>1. i \in (x + 1)..(x + (n - a)) /\ i \in 1..(x + (n - a)) /\ i - x \in 1..(n - a)
    BY <1>10, <1>12
  <2> QED BY <1>4, <1>5, <1>9, <2>1, ZenonT(60)
<1>14. Delivery!Served(h.got, I, due \ missed)
  <2>1. \A i, j \in I : i < j => h.got[i] < h.got[j]
    <3> SUFFICES ASSUME NEW i \in I, NEW j \in I, i < j PROVE h.got[i] < h.got[j]
      OBVIOUS
    <3>1. i \in Int /\ j \in Int
      BY <1>10, <1>12
    <3>2. h.got[i] = a + (i - x) /\ h.got[j] = a + (j - x)
      BY <1>13
    <3> HIDE DEF I
    <3> QED BY <1>10, <3>1, <3>2
  <2>2. \A i \in I : h.got[i] \in due \ missed
    <3> SUFFICES ASSUME NEW i \in I PROVE h.got[i] \in due \ missed
      OBVIOUS
    <3>1. i \in (x + 1)..(x + (n - a)) /\ h.got[i] = a + (i - x)
      BY <1>12, <1>13
    <3> HIDE DEF I
    <3> QED BY <1>1, <1>2, <1>10, <3>1, SMTT(30)
  <2>3. \A o \in due \ missed : \E i \in I : o = h.got[i]
    <3> SUFFICES ASSUME NEW o \in due \ missed PROVE \E i \in I : o = h.got[i]
      OBVIOUS
    <3>1. o \in Int /\ a < o /\ o <= n
      BY <1>1, <1>2
    <3>2. x + (o - a) \in (x + 1)..(x + (n - a)) /\ a + ((x + (o - a)) - x) = o
      BY <1>10, <3>1
    <3>3. x + (o - a) \in I
      BY <1>12, <3>2
    <3> HIDE DEF I
    <3>4. h.got[x + (o - a)] = o
      BY <1>13, <3>2, <3>3
    <3> QED BY <3>3, <3>4
  <2> HIDE DEF I, due, missed
  <2>4. due \ missed = {h.got[i] : i \in I}
    BY <2>2, <2>3
  <2> QED BY <2>1, <2>4 DEF Delivery!Served
<1>15. missed \in SUBSET {o \in due : o <= l.base \/ o \in l.mute}
  <2> SUFFICES ASSUME NEW o \in missed PROVE o \in due /\ (o <= l.base \/ o \in l.mute)
    OBVIOUS
  <2>1. o \in Nat /\ k.delivered < o /\ o <= a /\ o \in due
    BY <1>1, <1>2
  <2> QED BY <1>1, <1>3, <2>1
<1>16. n \in (k.delivered + 1)..l.total
  <2>1. l.total \in Nat /\ n <= l.total /\ k.delivered < n
    BY <1>1, <1>3, RowNumbers
  <2> QED BY <1>2, <2>1
<1>17. Feeds' = [Feeds EXCEPT ![c] = [launch |-> k.gen, upto |-> n, got |-> h.got]]
  <2> DEFINE H == [i \in DOMAIN e.got |-> e.got[i][2]]
  <2>1. h = [launch |-> k.gen, upto |-> n, got |-> H]
    BY <1>6
  <2> HIDE DEF H
  <2> QED BY <1>7, <2>1
<1> HIDE DEF I, due, missed
<1>18. Delivery!Serve(c)
  <2>1. Feeds[c].launch = k.gen /\ Feeds[c].upto = k.delivered
    BY <1>8, <1>9
  <2>2. /\ Feeds[c].launch \in Launches
        /\ n \in (Feeds[c].upto + 1)..Windows[Feeds[c].launch].total
        /\ Feeds' = [Feeds EXCEPT ![c] = [launch |-> Feeds[c].launch, upto |-> n, got |-> Feeds'[c].got]]
        /\ \A i \in DOMAIN Feeds[c].got : i \in DOMAIN Feeds'[c].got /\ Feeds'[c].got[i] = Feeds[c].got[i]
        /\ missed \in SUBSET {o \in (Feeds[c].upto + 1)..n : \/ o <= Windows[Feeds[c].launch].base
                                                           \/ o \in Windows[Feeds[c].launch].mute}
        /\ Delivery!Served(Feeds'[c].got, DOMAIN Feeds'[c].got \ DOMAIN Feeds[c].got,
                           ((Feeds[c].upto + 1)..n) \ missed)
    BY <1>2, <1>8, <1>11, <1>14, <1>15, <1>16, <1>17, <2>1 DEF I, due
  <2> QED BY <1>7, <2>2 DEF Delivery!Serve, Windows, Feeds
<1> QED BY <1>7, <1>18 DEF DeliveryStep, Delivery!DeliveryNext

LEMMA LargerOf == ASSUME NEW a \in Int, NEW b \in Int PROVE Max({a, b}) = IF a <= b THEN b ELSE a
<1> DEFINE m == IF a <= b THEN b ELSE a
<1>1. \A x \in {a, b} : (\A y \in {a, b} : x >= y) <=> x = m
  OBVIOUS
<1>2. m \in {a, b}
  OBVIOUS
<1> HIDE DEF m
<1> QED BY <1>1, <1>2 DEF Max, m

LEMMA SmallerOf == ASSUME NEW a \in Nat, NEW b \in Nat PROVE Min({a, b}) = IF a <= b THEN a ELSE b
<1> DEFINE m == IF a <= b THEN a ELSE b
<1>1. \A x \in {a, b} : (\A y \in {a, b} : x <= y) <=> x = m
  OBVIOUS
<1>2. m \in {a, b}
  OBVIOUS
<1> HIDE DEF m
<1> QED BY <1>1, <1>2 DEF Min, m

(* The ring serves what follows an offset, or what it still has.             *)
LEMMA SinceFields ==
  ASSUME TInv, NEW g \in Launches, NEW o \in Nat
  PROVE  LET l == lane[g] IN
         \E a \in Nat : /\ BytesSince(g, o) = Span(g, a, l.total) /\ a <= l.total
                        /\ o <= l.total => o <= a
                        /\ o <= l.base => a = l.base
                        /\ o > l.base => a <= o
<1>1. PICK l \in LaneRow : l = lane[g] /\ l.base <= l.total
  BY Types DEF Follows
<1>2. l.base \in Nat /\ l.total \in Nat
  BY <1>1, RowNumbers
<1>3. PICK x \in Nat : x = Max({o, l.base}) /\ x = IF o <= l.base THEN l.base ELSE o
  BY <1>2, LargerOf
<1>4. PICK a \in Nat : a = Min({x, l.total}) /\ a = IF x <= l.total THEN x ELSE l.total
  BY <1>2, <1>3, SmallerOf
<1>5. BytesSince(g, o) = Span(g, a, l.total)
  BY <1>1, <1>3, <1>4 DEF BytesSince
<1>6. /\ a <= l.total /\ (o <= l.total => o <= a) /\ (o <= l.base => a = l.base)
      /\ (o > l.base => a <= o)
  BY <1>1, <1>2, <1>3, <1>4, SMTT(30)
<1> QED BY <1>1, <1>5, <1>6

LEMMA StartPumpKeeps ==
  ASSUME TInv, NEW c \in Conns, StartPump(c)
  PROVE  TInv' /\ DeliveryStep
<1>1. PICK k \in ConnRow : k = conn[c] /\ k.pump = "asked" /\ k.gen = 0 /\ ~k.stray
  BY Types DEF StartPump, PumpStands
<1>2. agent' = agent /\ lane' = lane
  BY DEF StartPump
<1>3. CASE ~agent.open
  <2> DEFINE e == [k EXCEPT !.pump = "ended"]
  <2>1. conn' = [conn EXCEPT ![c] = e]
    BY <1>1, <1>3 DEF StartPump
  <2>2. e \in ConnRow /\ e.gen = 0 /\ e.pump = "ended" /\ ~e.stray
    BY <1>1 DEF ConnRow
  <2> HIDE DEF e
  <2>3. PumpStands(e)
    BY <2>2, Types DEF PumpStands
  <2>4. FeedOf(e) = FeedOf(k)
    BY <1>1, <2>2 DEF FeedOf
  <2> QED BY <1>1, <1>2, <2>1, <2>2, <2>3, <2>4, QuietStep
<1>4. CASE agent.open
  <2>1. PICK g \in Launches : g = agent.gen
    BY <1>4 DEF TInv, SessionStands
  <2>2. PICK l \in LaneRow : l = lane[g] /\ l.base <= l.total
    BY Types DEF Follows
  <2>3. l.base \in Nat /\ l.total \in Nat /\ Len(l.sent) \in Nat /\ g \in Nat /\ g # 0 /\ g \in 0..MaxLaunches
    BY <2>1, <2>2, RowNumbers, Types DEF Launches
  <2>4. BytesSince(g, 0) = Span(g, l.base, l.total)
    <3>1. 0 \in Nat /\ 0 <= l.base
      BY <2>3
    <3>2. PICK a \in Nat : BytesSince(g, 0) = Span(g, a, lane[g].total) /\ (0 <= lane[g].base => a = lane[g].base)
      BY <3>1, SinceFields
    <3> QED BY <2>2, <3>1, <3>2
  <2>5. PICK s \in Seq(Nat \X Nat) : /\ s = BytesSince(g, 0) /\ Len(s) = l.total - l.base
                                     /\ \A i \in 1..(l.total - l.base) : s[i][2] = l.base + i
    <3>1. PICK a \in Nat, b \in Nat : a = l.base /\ b = l.total
      BY <2>3
    <3>2. a <= b /\ g \in Nat
      BY <2>2, <2>3, <3>1
    <3> DEFINE z == Span(g, a, b)
    <3> HIDE DEF z
    <3>3. z \in Seq(Nat \X Nat) /\ Len(z) = b - a /\ \A i \in 1..(b - a) : z[i][2] = a + i
      <4>1. z = Span(g, a, b)
        BY DEF z
      <4> QED BY <3>2, <4>1, SpanFields
    <3>4. z = BytesSince(g, 0)
      BY <2>4, <3>1 DEF z
    <3> QED BY <3>1, <3>3, <3>4
  <2> DEFINE e == [k EXCEPT !.pump = "running", !.at = Len(l.sent), !.delivered = l.total,
                            !.gen = g, !.got = s]
  <2>6. conn' = [conn EXCEPT ![c] = e]
    BY <1>1, <1>4, <2>1, <2>2, <2>5 DEF StartPump, Subscribed
  <2>7. /\ e \in ConnRow /\ e.gen = g /\ e.pump = "running" /\ ~e.stray /\ e.at = Len(l.sent)
        /\ e.delivered = l.total /\ e.got = s
    BY <1>1, <2>3 DEF ConnRow
  <2> HIDE DEF e
  <2>8. PumpStands(e)
    <3>1. Complete(e, l)
      BY <2>3, <2>7 DEF Complete
    <3>2. g <= agent.gen /\ e.at <= Len(l.sent) /\ e.delivered <= l.total
      BY <2>1, <2>3, <2>7
    <3> QED BY <2>2, <2>3, <2>7, <3>1, <3>2 DEF PumpStands
  <2> DEFINE h == FeedOf(e)
             H == [i \in DOMAIN s |-> s[i][2]]
  <2>9. TInv' /\ Windows' = Windows /\ Feeds' = [Feeds EXCEPT ![c] = h]
    BY <1>2, <2>6, <2>7, <2>8, ConnStep
  <2>10. h = [launch |-> g, upto |-> l.total, got |-> H]
    BY <2>3, <2>7 DEF FeedOf
  <2>11. DOMAIN H = 1..(l.total - l.base) /\ \A i \in 1..(l.total - l.base) : H[i] = l.base + i
    BY <2>5
  <2> HIDE DEF h, H
  <2>12. Delivery!Served(H, DOMAIN H, (l.base + 1)..l.total)
    <3> DEFINE I == 1..(l.total - l.base)
               S == (l.base + 1)..l.total
    <3>1. \A i, j \in I : i < j => H[i] < H[j]
      BY <2>3, <2>11
    <3>2. \A i \in I : H[i] \in S
      BY <2>2, <2>3, <2>11, SMTT(30)
    <3>3. \A o \in S : \E i \in I : o = H[i]
      <4> SUFFICES ASSUME NEW o \in S PROVE \E i \in I : o = H[i]
        OBVIOUS
      <4>1. o - l.base \in I /\ l.base + (o - l.base) = o
        BY <2>2, <2>3, SMTT(30)
      <4> QED BY <2>11, <4>1
    <3>4. DOMAIN H = I
      BY <2>11
    <3> HIDE DEF I, S
    <3>5. S = {H[i] : i \in I}
      BY <3>2, <3>3
    <3> QED BY <3>1, <3>4, <3>5 DEF Delivery!Served, S
  <2>13. Windows[g].base = l.base /\ Windows[g].total = l.total
    BY <2>2 DEF Windows, WindowOf
  <2>14. Feeds'[c] = h /\ h.got = H
    BY <2>9, <2>10 DEF Feeds
  <2>15. /\ Feeds' = [Feeds EXCEPT ![c] = [launch |-> g, upto |-> Windows[g].total, got |-> Feeds'[c].got]]
         /\ Delivery!Served(Feeds'[c].got, DOMAIN Feeds'[c].got, (Windows[g].base + 1)..Windows[g].total)
    BY <2>9, <2>10, <2>12, <2>13, <2>14
  <2>16. Delivery!Start(c)
    BY <2>9, <2>15 DEF Delivery!Start, Windows, Feeds
  <2> QED BY <2>9, <2>16 DEF DeliveryStep, Delivery!DeliveryNext
<1> QED BY <1>3, <1>4

(* A pump takes the next chunk of the broadcast.                             *)
LEMMA TakenComplete ==
  ASSUME NEW l \in LaneRow, NEW k \in ConnRow, NEW e \in ConnRow, Complete(k, l),
         k.at < Len(l.sent), e.at = k.at + 1,
         k.delivered <= e.delivered, l.sent[k.at + 1].end <= e.delivered
  PROVE  Complete(e, l)
<1>1. /\ k.at \in Nat /\ k.delivered \in Nat /\ e.delivered \in Nat /\ Len(l.sent) \in Nat
      /\ DOMAIN l.sent = 1..Len(l.sent)
      /\ \A i \in DOMAIN l.sent : l.sent[i].end \in Nat /\ l.sent[i].len \in Nat
  BY RowNumbers DEF ConnRow
<1> SUFFICES ASSUME NEW o \in Nat, e.delivered < o, o <= l.total, o \notin l.mute PROVE Comes(e, l, o)
  BY DEF Complete
<1>2. k.delivered < o
  BY <1>1
<1>3. Comes(k, l, o)
  BY <1>2 DEF Complete
<1>4. k.at + 1 \in DOMAIN l.sent /\ ~Lies(l.sent[k.at + 1], o)
  BY <1>1, SMTT(30) DEF Lies
<1>5. ASSUME NEW i \in DOMAIN l.sent, i > k.at, Lies(l.sent[i], o) PROVE i > e.at
  <2>1. i # k.at + 1
    BY <1>4, <1>5
  <2> QED BY <1>1, <1>5, <2>1
<1> QED BY <1>3, <1>5 DEF Comes

(* What lies before the next chunk and was not delivered never comes.        *)
LEMMA BeforeIsMute ==
  ASSUME NEW l \in LaneRow, Follows(l), NEW k \in ConnRow, Complete(k, l), k.at < Len(l.sent),
         NEW o \in Nat, k.delivered < o, o <= l.sent[k.at + 1].end - l.sent[k.at + 1].len
  PROVE  o \in l.mute
<1>1. /\ k.at \in Nat /\ k.delivered \in Nat /\ Len(l.sent) \in Nat /\ DOMAIN l.sent = 1..Len(l.sent)
      /\ l.total \in Nat /\ l.hand.end \in Nat /\ l.hand.len \in Nat
      /\ \A i \in DOMAIN l.sent : l.sent[i].end \in Nat /\ l.sent[i].len \in Nat
  BY RowNumbers DEF ConnRow
<1>2. PICK z \in DOMAIN l.sent : z = k.at + 1
  BY <1>1
<1>3. o <= l.sent[z].end - l.sent[z].len /\ l.sent[z].end <= l.total
  BY <1>2 DEF Follows
<1>4. o <= l.total /\ o <= l.sent[z].end
  BY <1>1, <1>3, SMTT(30)
<1>5. ~Lies(l.hand, o)
  <2>1. CASE l.pc = "send"
    <3>1. l.sent[z].end <= l.hand.end - l.hand.len
      BY <2>1 DEF Follows
    <3> QED BY <1>1, <1>4, <3>1, SMTT(30) DEF Lies
  <2>2. CASE l.pc # "send"
    BY <2>2 DEF Follows, NoChunk, Lies
  <2> QED BY <2>1, <2>2
<1>6. ASSUME NEW i \in DOMAIN l.sent, i > k.at PROVE ~Lies(l.sent[i], o)
  <2>1. CASE i = z
    BY <1>1, <1>3, <2>1, SMTT(30) DEF Lies
  <2>2. CASE i # z
    <3>1. z < i
      BY <1>1, <1>2, <1>6, <2>2
    <3>2. l.sent[z].end <= l.sent[i].end - l.sent[i].len
      BY <3>1 DEF Follows
    <3> QED BY <1>1, <1>4, <3>2, SMTT(30) DEF Lies
  <2> QED BY <2>1, <2>2
<1> QED BY <1>4, <1>5, <1>6 DEF Complete, Comes

LEMMA PumpChunkKeeps ==
  ASSUME TInv, NEW c \in Conns, PumpChunk(c)
  PROVE  TInv' /\ DeliveryStep
<1>1. PICK k \in ConnRow : k = conn[c] /\ k.pump = "running" /\ PumpStands(k)
  BY Types DEF PumpChunk
<1>2. agent' = agent /\ lane' = lane
  BY DEF PumpChunk
<1>3. PICK g \in Launches : g = k.gen /\ g \in Nat /\ g # 0
  BY <1>1, PtyAssumption DEF PumpStands, ConnRow, Launches
<1>4. PICK l \in LaneRow : l = lane[g] /\ Follows(l) /\ k.at < Len(l.sent)
  BY <1>1, <1>3, Types DEF PumpChunk
<1>5. k.at \in Nat /\ k.delivered \in Nat /\ k.got \in Seq(Nat \X Nat)
  BY DEF ConnRow
<1>6. /\ Len(l.sent) \in Nat /\ DOMAIN l.sent = 1..Len(l.sent) /\ l.total \in Nat
      /\ \A i \in DOMAIN l.sent : l.sent[i].end \in Nat /\ l.sent[i].len \in Nat
  BY RowNumbers
<1>7. PICK z \in Nat : z = k.at + 1 /\ z \in DOMAIN l.sent /\ z <= Len(l.sent)
  BY <1>4, <1>5, <1>6, SMTT(30)
<1>8. PICK n \in Nat, w \in Nat : n = l.sent[z].end /\ w = l.sent[z].len /\ n <= l.total
  BY <1>4, <1>6, <1>7 DEF Follows
<1>9. ~k.stray => Complete(k, l)
  BY <1>1, <1>3, <1>4 DEF PumpStands
<1>10. conn' = [conn EXCEPT ![c] = [Delivered(k, l.sent[z]) EXCEPT !.at = z]]
  BY <1>1, <1>3, <1>4, <1>7 DEF PumpChunk
<1>11. CASE n <= k.delivered
  <2> DEFINE e == [k EXCEPT !.at = z]
  <2>1. conn' = [conn EXCEPT ![c] = e]
    BY <1>8, <1>10, <1>11 DEF Delivered
  <2>2. /\ e \in ConnRow /\ e.gen = k.gen /\ e.at = z /\ e.delivered = k.delivered
        /\ e.stray = k.stray /\ e.got = k.got /\ e.pump = k.pump
    BY DEF ConnRow
  <2> HIDE DEF e
  <2>3. ~e.stray => Complete(e, l)
    <3>1. k.delivered <= e.delivered /\ n <= e.delivered /\ e.at = k.at + 1
      BY <1>5, <1>7, <1>11, <2>2
    <3> QED BY <1>4, <1>7, <1>8, <1>9, <2>2, <3>1, TakenComplete
  <2>4. PumpStands(e)
    BY <1>1, <1>3, <1>4, <1>7, <2>2, <2>3 DEF PumpStands
  <2>5. FeedOf(e) = FeedOf(k)
    BY <2>2 DEF FeedOf
  <2> QED BY <1>1, <1>2, <2>1, <2>2, <2>4, <2>5, QuietStep
<1>12. CASE ~(n <= k.delivered)
  <2>1. PICK d \in Int : d = n - w
    OBVIOUS
  <2>2. PICK q \in Nat : q = k.delivered /\ q < n
    BY <1>5, <1>12
  <2>3. PICK a \in Nat : /\ a = Max({k.delivered, d})
                         /\ q <= a /\ a <= n /\ (q < a => a = d)
    <3> DEFINE m == IF q <= d THEN d ELSE q
    <3>1. m \in Nat /\ q <= m /\ m <= n /\ (q < m => m = d)
      BY <2>1, <2>2
    <3>2. Max({q, d}) = m
      BY LargerOf
    <3> HIDE DEF m
    <3> QED BY <2>2, <3>1, <3>2
  <2>4. PICK s \in Seq(Nat \X Nat) : s = Span(g, a, n)
    BY <1>3, <2>3, SpanFields
  <2>5. PICK t \in Seq(Nat \X Nat) : t = k.got \o s
    <3> DEFINE T == Nat \X Nat
    <3> HIDE DEF T
    <3>1. PICK u \in Seq(T), v \in Seq(T) : u = k.got /\ v = s
      BY <1>5 DEF T
    <3>2. u \o v \in Seq(T)
      OBVIOUS
    <3> QED BY <3>1, <3>2 DEF T
  <2> DEFINE e == [k EXCEPT !.got = t, !.delivered = n, !.at = z]
  <2>6. conn' = [conn EXCEPT ![c] = e]
    <3>1. Delivered(k, l.sent[z]) = [k EXCEPT !.got = t, !.delivered = n]
      BY <1>3, <1>8, <1>12, <2>1, <2>3, <2>4, <2>5 DEF Delivered
    <3> QED BY <1>10, <3>1
  <2>7. /\ e \in ConnRow /\ e.gen = k.gen /\ e.at = z /\ e.delivered = n
        /\ e.stray = k.stray /\ e.got = t /\ e.pump = k.pump
    BY DEF ConnRow
  <2> HIDE DEF e
  <2>8. ~e.stray => Complete(e, l)
    <3>1. k.delivered <= e.delivered /\ n <= e.delivered /\ e.at = k.at + 1
      BY <1>5, <1>7, <2>2, <2>7
    <3> QED BY <1>4, <1>7, <1>8, <1>9, <2>7, <3>1, TakenComplete
  <2>9. PumpStands(e)
    BY <1>1, <1>3, <1>4, <1>7, <1>8, <2>7, <2>8 DEF PumpStands
  <2>10. CASE k.stray
    <3>1. FeedOf(e) = FeedOf(k)
      BY <2>7, <2>10 DEF FeedOf
    <3> QED BY <1>1, <1>2, <2>6, <2>7, <2>9, <3>1, QuietStep
  <2>11. CASE ~k.stray
    <3>1. ASSUME NEW o \in Nat, k.delivered < o, o <= a PROVE o \in l.mute
      <4>1. o <= d
        BY <2>2, <2>3, <3>1
      <4>2. o <= l.sent[k.at + 1].end - l.sent[k.at + 1].len
        BY <1>7, <1>8, <2>1, <4>1
      <4> QED BY <1>4, <1>9, <2>11, <3>1, <4>2, BeforeIsMute
    <3>2. e.got = k.got \o Span(e.gen, a, n) /\ n <= lane[e.gen].total
      BY <1>3, <1>4, <1>8, <2>4, <2>5, <2>7
    <3>3. \A o \in Nat : k.delivered < o /\ o <= a => o <= lane[e.gen].base \/ o \in lane[e.gen].mute
      BY <1>3, <1>4, <2>7, <3>1
    <3>4. /\ conn[c].gen # 0 /\ e.gen = conn[c].gen /\ ~e.stray /\ ~conn[c].stray
          /\ e.delivered = n /\ conn[c].delivered < n /\ conn[c].delivered <= a /\ a <= n
          /\ n <= lane[e.gen].total /\ e.got = conn[c].got \o Span(e.gen, a, n)
      BY <1>1, <1>3, <2>2, <2>3, <2>7, <2>11, <3>2
    <3>5. \A o \in Nat : conn[c].delivered < o /\ o <= a
                         => o <= lane[e.gen].base \/ o \in lane[e.gen].mute
      BY <1>1, <3>3
    <3> QED BY <1>2, <2>6, <2>7, <2>9, <3>4, <3>5, ServeStep
  <2> QED BY <2>10, <2>11
<1> QED BY <1>11, <1>12

LEMMA JoinNothing == ASSUME NEW T, NEW p \in Seq(T), NEW s \in Seq(T), Len(s) = 0 PROVE p \o s = p
  OBVIOUS

(* The gap is read from the ring of the session in the table.                *)
LEMMA PumpResyncKeeps ==
  ASSUME TInv, NEW c \in Conns, PumpResync(c)
  PROVE  TInv' /\ DeliveryStep
<1>1. PICK k \in ConnRow : k = conn[c] /\ k.pump = "resync" /\ PumpStands(k) /\ k.gen # 0
  BY Types DEF PumpResync, PumpStands
<1>2. agent' = agent /\ lane' = lane
  BY DEF PumpResync
<1>3. CASE ~agent.open
  <2> DEFINE e == [k EXCEPT !.pump = "ended"]
  <2>1. conn' = [conn EXCEPT ![c] = e]
    BY <1>1, <1>3 DEF PumpResync
  <2>2. /\ e \in ConnRow /\ e.gen = k.gen /\ e.at = k.at /\ e.delivered = k.delivered
        /\ e.stray = k.stray /\ e.got = k.got /\ e.pump = "ended"
    BY DEF ConnRow
  <2> HIDE DEF e
  <2>3. PumpStands(e)
    BY <1>1, <2>2 DEF PumpStands
  <2>4. FeedOf(e) = FeedOf(k)
    BY <2>2 DEF FeedOf
  <2> QED BY <1>1, <1>2, <2>1, <2>2, <2>3, <2>4, QuietStep
<1>4. CASE agent.open
  <2>1. PICK g \in Launches : g = agent.gen /\ g \in Nat
    BY <1>4, Types DEF TInv, SessionStands
  <2>2. PICK l \in LaneRow : l = lane[g] /\ l.base \in Nat /\ l.total \in Nat
    BY Types, RowNumbers
  <2>3. k.delivered \in Nat /\ k.got \in Seq(Nat \X Nat)
    BY DEF ConnRow
  <2>4. PICK a \in Nat : /\ BytesSince(g, k.delivered) = Span(g, a, l.total) /\ a <= l.total
                         /\ (k.delivered <= l.total => k.delivered <= a)
                         /\ (k.delivered <= l.base => a = l.base) /\ (k.delivered > l.base => a <= k.delivered)
    BY <2>2, <2>3, SinceFields
  <2>5. PICK n \in Nat : n = l.total
    BY <2>2
  <2>6. PICK s \in Seq(Nat \X Nat) : s = Span(g, a, n) /\ Len(s) = n - a
    BY <2>1, <2>4, <2>5, SpanFields
  <2>7. PICK t \in Seq(Nat \X Nat) : t = k.got \o s
    <3> DEFINE T == Nat \X Nat
    <3> HIDE DEF T
    <3>1. PICK u \in Seq(T), v \in Seq(T) : u = k.got /\ v = s
      BY <2>3 DEF T
    <3>2. u \o v \in Seq(T)
      OBVIOUS
    <3> QED BY <3>1, <3>2 DEF T
  <2>8. PICK b \in BOOLEAN : b <=> (k.stray \/ g # k.gen)
    OBVIOUS
  <2> DEFINE e == [k EXCEPT !.pump = "running", !.stray = b, !.got = t, !.delivered = n]
  <2>9. conn' = [conn EXCEPT ![c] = e]
    <3>1. (k.stray \/ agent.gen # k.gen) = b
      BY <2>1, <2>8 DEF ConnRow
    <3>2. k.got \o BytesSince(agent.gen, k.delivered) = t /\ lane[agent.gen].total = n
      BY <2>1, <2>2, <2>4, <2>5, <2>6, <2>7
    <3>3. Resynced(k) = e
      BY <3>1, <3>2, Zenon DEF Resynced
    <3> QED BY <1>1, <1>4, <3>3 DEF PumpResync
  <2>10. /\ e \in ConnRow /\ e.gen = k.gen /\ e.at = k.at /\ e.delivered = n
         /\ e.stray = b /\ e.got = t /\ e.pump = "running"
    BY DEF ConnRow
  <2> HIDE DEF e
  <2>11. CASE b
    <3>1. PumpStands(e)
      BY <1>1, <2>10, <2>11 DEF PumpStands
    <3>2. FeedOf(e) = NoFeed
      BY <2>10, <2>11 DEF FeedOf, NoFeed
    <3> QED BY <1>2, <2>9, <2>10, <3>1, <3>2, StopStep
  <2>12. CASE ~b
    <3>1. ~k.stray /\ g = k.gen
      BY <2>8, <2>12
    <3>2. PICK q \in Nat : q = k.delivered /\ q <= n /\ q <= a
      BY <1>1, <2>2, <2>3, <2>4, <2>5, <3>1 DEF PumpStands
    <3>3. PumpStands(e)
      <4>1. Complete(e, l)
        BY <2>5, <2>10 DEF Complete
      <4> QED BY <1>1, <2>2, <2>5, <2>10, <3>1, <4>1 DEF PumpStands
    <3>4. CASE q = n
      <4>1. Len(s) = 0
        BY <2>4, <2>5, <2>6, <3>2, <3>4
      <4>2. t = k.got
        BY <2>3, <2>7, <4>1, JoinNothing
      <4>3. FeedOf(e) = FeedOf(k)
        BY <2>10, <2>12, <3>1, <3>2, <3>4, <4>2 DEF FeedOf
      <4> QED BY <1>1, <1>2, <2>9, <2>10, <3>3, <4>3, QuietStep
    <3>5. CASE q # n
      <4>1. /\ conn[c].gen # 0 /\ e.gen = conn[c].gen /\ ~e.stray /\ ~conn[c].stray
            /\ e.delivered = n /\ conn[c].delivered < n /\ conn[c].delivered <= a /\ a <= n
            /\ n <= lane[e.gen].total /\ e.got = conn[c].got \o Span(e.gen, a, n)
        <5>1. q < n /\ a <= n /\ n <= n
          BY <2>4, <2>5, <3>2, <3>5
        <5> QED BY <1>1, <2>2, <2>5, <2>6, <2>7, <2>10, <2>12, <3>1, <3>2, <5>1
      <4>2. ASSUME NEW o \in Nat, q < o, o <= a PROVE o <= l.base
        BY <2>2, <2>4, <3>2, <4>2
      <4>3. \A o \in Nat : conn[c].delivered < o /\ o <= a
                           => o <= lane[e.gen].base \/ o \in lane[e.gen].mute
        BY <1>1, <2>2, <2>10, <3>1, <3>2, <4>2
      <4> QED BY <1>2, <2>9, <2>10, <3>3, <4>1, <4>3, ServeStep, ZenonT(60)
    <3> QED BY <3>4, <3>5
  <2> QED BY <2>11, <2>12
<1> QED BY <1>3, <1>4

----------------------------------------------------------------------------
(* The agent restarts: every channel closes, every reader is over.           *)

LEMMA RestartFields ==
  ASSUME TInv, AgentRestart
  PROVE  agent' \in AgentType /\ agent'.gen = agent.gen /\ SessionStands' /\ ToldWhenReaped'
<1>1. PICK s \in {"live", "gone"} : s = (IF agent.mux THEN agent.shell ELSE "gone") /\ agent.shell # "none"
  BY Types DEF AgentRestart, AgentType
<1>2. agent' = [agent EXCEPT !.open = FALSE, !.pending = 0, !.crashed = TRUE, !.shell = s]
  BY <1>1 DEF AgentRestart
<1>3. /\ agent' \in AgentType /\ agent'.open = FALSE /\ agent'.pending = 0 /\ agent'.shell = s
      /\ agent'.gen = agent.gen /\ agent'.told = agent.told /\ agent'.failed = agent.failed
  BY <1>2, Types DEF AgentType
<1>4. SessionStands'
  BY <1>3 DEF SessionStands
<1>5. agent.told + agent.pending <= agent.failed + (IF agent.shell = "gone" /\ ~agent.open THEN 1 ELSE 0)
  BY DEF TInv, ToldWhenReaped
<1>6. agent.told + 0 <= agent.failed + (IF s = "gone" THEN 1 ELSE 0)
  BY <1>1, <1>5, Types
<1>7. ToldWhenReaped'
  BY <1>3, <1>6 DEF ToldWhenReaped
<1> QED BY <1>3, <1>4, <1>7

LEMMA RestartKeeps == ASSUME TInv, AgentRestart PROVE TInv' /\ DeliveryStep
<1> DEFINE Over(l) == [l EXCEPT !.child = "exited", !.pc = "over", !.hand = NoChunk]
           Down(k) == [NoPump(k) EXCEPT !.up = FALSE]
<1>1. ASSUME NEW l \in LaneRow, Follows(l)
      PROVE  /\ Over(l) \in LaneRow /\ Follows(Over(l)) /\ WindowOf(Over(l)) = WindowOf(l)
             /\ Over(l).base = l.base /\ Over(l).total = l.total /\ Over(l).mute = l.mute
             /\ Over(l).sent = l.sent /\ Over(l).pc = "over"
  <2>1. NoChunk \in Piece
    BY DEF NoChunk, Piece
  <2>2. PICK m : m = Over(l)
    OBVIOUS
  <2>3. /\ m \in LaneRow /\ m.base = l.base /\ m.total = l.total /\ m.mute = l.mute
        /\ m.sent = l.sent /\ m.pc = "over" /\ m.hand = NoChunk
    BY <2>1, <2>2 DEF LaneRow
  <2>4. Follows(m)
    BY <1>1, <2>3 DEF Follows
  <2>5. WindowOf(m) = WindowOf(l)
    BY <2>3 DEF WindowOf
  <2> HIDE DEF Over
  <2> QED BY <2>2, <2>3, <2>4, <2>5
<1>2. ASSUME NEW k \in ConnRow PROVE Down(k) \in ConnRow /\ Shut(Down(k))
  <2>1. NoPump(k) \in ConnRow /\ Shut(NoPump(k))
    BY NoPumpFields
  <2> QED BY <2>1 DEF ConnRow, Shut
<1>3. lane' = [g \in Launches |-> Over(lane[g])] /\ conn' = [c \in Conns |-> Down(conn[c])]
  BY DEF AgentRestart
<1> HIDE DEF Over, Down
<1>4. agent' \in AgentType /\ agent'.gen = agent.gen /\ SessionStands' /\ ToldWhenReaped'
  BY RestartFields
<1>5. lane' \in [Launches -> LaneRow] /\ conn' \in [Conns -> ConnRow]
  BY <1>1, <1>2, <1>3, Types
<1>6. LanesFollow'
  <2> SUFFICES ASSUME NEW h \in Launches
               PROVE  /\ Follows(lane'[h])
                      /\ h > agent'.gen => /\ lane'[h].base = 0 /\ lane'[h].total = 0 /\ lane'[h].mute = {}
                                           /\ lane'[h].sent = <<>> /\ lane'[h].pc = "over"
    BY DEF LanesFollow
  <2>1. lane'[h] = Over(lane[h]) /\ lane[h] \in LaneRow /\ Follows(lane[h])
    BY <1>3, Types
  <2> QED BY <1>1, <1>4, <2>1 DEF TInv, LanesFollow
<1>7. \A c \in Conns : Shut(conn'[c])
  BY <1>2, <1>3, Types
<1>8. PumpsStand'
  <2> SUFFICES ASSUME NEW c \in Conns PROVE PumpStands(conn[c])'
    BY DEF PumpsStand
  <2>1. 0 <= agent'.gen /\ Shut(conn'[c])
    BY <1>4, <1>7, Types
  <2> QED BY <2>1 DEF Shut, PumpStands
<1>9. Windows' = Windows
  BY <1>1, <1>3, Types DEF Windows
<1>10. Feeds' = [c \in Conns |-> NoFeed]
  BY <1>7, ShutFeed DEF Feeds
<1>11. Delivery!StopAll
  BY <1>9, <1>10 DEF Delivery!StopAll, Delivery!Idle, Windows, Feeds, NoFeed
<1> QED BY <1>4, <1>5, <1>6, <1>8, <1>11 DEF TInv, TerminalShape, DeliveryStep, Delivery!DeliveryNext

----------------------------------------------------------------------------

LEMMA InitStands == ASSUME PtyInit PROVE TInv /\ Delivery!DeliveryInit
<1> DEFINE z == LaneOf(0)
           l == [z EXCEPT !.child = "exited", !.pc = "over"]
           k == [up |-> TRUE, record |-> "none", pump |-> "none", gen |-> 0, at |-> 0,
                 delivered |-> 0, stray |-> FALSE, got |-> <<>>]
<1>1. lane = [g \in Launches |-> l] /\ conn = [c \in Conns |-> k]
  BY DEF PtyInit
<1>2. z \in LaneRow /\ z.total = 0 /\ z.base = 0 /\ z.mute = {} /\ z.hand = NoChunk /\ z.sent = <<>>
  <2>1. /\ z \in LaneRow /\ z.total = 0 /\ 0 <= z.base /\ z.base <= z.total
        /\ z.mute = 1..0 /\ z.hand = NoChunk /\ z.sent = <<>>
    BY LaneOfFields
  <2> HIDE DEF z
  <2>2. z.base \in Nat
    BY <2>1 DEF LaneRow
  <2>3. z.base = 0
    BY <2>1, <2>2
  <2>4. 1..0 = {}
    OBVIOUS
  <2> QED BY <2>1, <2>3, <2>4
<1> HIDE DEF z
<1>3. /\ l \in LaneRow /\ l.total = 0 /\ l.base = 0 /\ l.mute = {} /\ l.hand = NoChunk /\ l.sent = <<>>
      /\ l.pc = "over"
  BY <1>2 DEF LaneRow
<1>4. k \in ConnRow /\ Shut(k)
  <2>1. <<>> \in Seq(Nat \X Nat) /\ 0 \in 0..MaxLaunches
    BY PtyAssumption
  <2> QED BY <2>1 DEF ConnRow, Shut
<1> HIDE DEF l, k
<1>5. Follows(l)
  BY <1>3 DEF Follows
<1>6. /\ agent \in AgentType /\ agent.shell = "none" /\ ~agent.open /\ agent.gen = 0
      /\ agent.told = 0 /\ agent.pending = 0 /\ agent.failed = 0
  <2>1. 0 \in 0..MaxLaunches
    BY PtyAssumption
  <2>2. agent \in [mux : BOOLEAN, shell : {"none"}, open : {FALSE}, gen : {0}, pending : {0}, told : {0},
                   failed : {0}, unseen : {FALSE}, crashed : {FALSE}]
    BY DEF PtyInit
  <2>3. PICK a, m : /\ a = agent /\ m \in BOOLEAN
                    /\ a = [mux |-> m, shell |-> "none", open |-> FALSE, gen |-> 0, pending |-> 0, told |-> 0,
                            failed |-> 0, unseen |-> FALSE, crashed |-> FALSE]
    BY <2>2
  <2>4. a \in AgentType /\ a.shell = "none" /\ ~a.open /\ a.gen = 0 /\ a.told = 0 /\ a.pending = 0 /\ a.failed = 0
    BY <2>1, <2>3 DEF AgentType
  <2> QED BY <2>3, <2>4
<1>7. TerminalShape
  BY <1>1, <1>3, <1>4, <1>6 DEF TerminalShape
<1>8. SessionStands /\ ToldWhenReaped
  BY <1>6 DEF SessionStands, ToldWhenReaped
<1>9. LanesFollow
  BY <1>1, <1>3, <1>5 DEF LanesFollow
<1>10. PumpsStand
  BY <1>1, <1>4, <1>6 DEF PumpsStand, PumpStands, Shut
<1>11. WindowOf(l) = [base |-> 0, total |-> 0, mute |-> {}] /\ FeedOf(k) = NoFeed
  BY <1>3, <1>4, ShutFeed DEF WindowOf
<1>12. /\ Windows = [g \in Launches |-> [base |-> 0, total |-> 0, mute |-> {}]]
       /\ Feeds = [c \in Conns |-> NoFeed]
  BY <1>1, <1>11 DEF Windows, Feeds
<1>13. Delivery!DeliveryInit
  BY <1>12 DEF Delivery!DeliveryInit, Delivery!Idle, Windows, Feeds, NoFeed
<1> QED BY <1>7, <1>8, <1>9, <1>10, <1>13 DEF TInv

LEMMA StandStill == ASSUME TInv, UNCHANGED ptyVars PROVE TInv' /\ DeliveryStep
<1>1. agent' = agent /\ lane' = lane /\ conn' = conn
  BY DEF ptyVars
<1>2. TInv'
  BY <1>1 DEF TInv, TerminalShape, SessionStands, ToldWhenReaped, LanesFollow, PumpsStand, PumpStands
<1>3. Windows' = Windows /\ Feeds' = Feeds
  BY <1>1 DEF Windows, Feeds
<1> QED BY <1>2, <1>3 DEF DeliveryStep, Delivery!deliveryVars, Windows, Feeds

(* Every step keeps the invariant, and is a step of PtyDelivery or none.     *)
LEMMA StepKeeps == TInv /\ [PtyNext]_ptyVars => TInv' /\ DeliveryStep
<1> SUFFICES ASSUME TInv, [PtyNext]_ptyVars PROVE TInv' /\ DeliveryStep
  OBVIOUS
<1>1. ASSUME NEW g \in Launches, NEW n \in ChunkSizes, Read(g, n) PROVE TInv' /\ DeliveryStep
  BY <1>1, ReadKeeps
<1>2. ASSUME NEW g \in Launches, ReaderStep(g) PROVE TInv' /\ DeliveryStep
  BY <1>2, SendKeeps, EofKeeps DEF ReaderStep
<1>3. ASSUME NEW c \in Conns, Spawn(c) \/ Close(c) \/ List(c) \/ Attach(c) PROVE TInv' /\ DeliveryStep
  BY <1>3, SpawnKeeps, CloseKeeps, ListKeeps, AttachKeeps
<1>4. ASSUME NEW c \in Conns, PumpStep(c) PROVE TInv' /\ DeliveryStep
  BY <1>4, StartPumpKeeps, PumpChunkKeeps, PumpResyncKeeps, PausedKeeps DEF PumpStep
<1>5. ASSUME NEW c \in Conns, LinkLost(c) \/ Reconnect(c) \/ ChannelLost(c) PROVE TInv' /\ DeliveryStep
  BY <1>5, LinkKeeps, ChannelLostKeeps
<1>6. CASE Elsewhere \/ Exit \/ ClientExits
  BY <1>6, AgentKeeps
<1>7. CASE CollectNewExits
  BY <1>7, CollectKeeps
<1>8. CASE AgentRestart
  BY <1>8, RestartKeeps
<1>9. CASE UNCHANGED ptyVars
  BY <1>9, StandStill
<1> QED BY <1>1, <1>2, <1>3, <1>4, <1>5, <1>6, <1>7, <1>8, <1>9 DEF PtyNext

(* The chunks of a launch follow each other and what a running pump lacks is *)
(* a capture or still on its way, after any steps of the agent's threads,    *)
(* its clients, and faults.                                                  *)
THEOREM TInvHolds == PtySpec => []TInv
<1>1. PtyInit => TInv
  BY InitStands
<1>2. TInv /\ [PtyNext]_ptyVars => TInv'
  BY StepKeeps
<1> QED BY <1>1, <1>2, PTL DEF PtySpec

(* The exit of a shell is told at most once, whichever of the exit pump,     *)
(* pty.list and pty.attach reaped it, and never while the shell lives but    *)
(* for relaunches that failed: for any number of desktops and launches.      *)
THEOREM ExitToldOnceAlways == PtySpec => []ExitToldOnce
<1>1. TInv => ExitToldOnce
  BY Types DEF TInv, ToldWhenReaped, ExitToldOnce
<1> QED BY <1>1, TInvHolds, PTL

(* The pump of start_pty_pump implements PtyDelivery: every client is served *)
(* the stream in order, nothing twice, and misses only what left the ring or *)
(* was a capture, whatever the chunk sizes, the ring, the broadcast's        *)
(* capacity and the number of launches and desktops.                         *)
THEOREM ServedInOrderAlways == PtySpec => ServedInOrder
<1>1. PtyInit => Delivery!DeliveryInit
  BY InitStands
<1>2. TInv /\ [PtyNext]_ptyVars => [Delivery!DeliveryNext]_(Delivery!deliveryVars)
  BY StepKeeps DEF DeliveryStep
<1> QED BY <1>1, <1>2, TInvHolds, PTL DEF PtySpec, ServedInOrder, Delivery!DeliverySpec
=============================================================================
