------------------------- MODULE HomeRelay_proofs -------------------------
(***************************************************************************)
(* The home Mac seen from elsewhere, in two parts.  First the relay's      *)
(* sockets, for any number of devices and sockets: the home the registry   *)
(* serves is the newest, and the bridge and the registry agree on who is   *)
(* connected.  The second rests on names: a connection that the bridge, or *)
(* a message on its way, still names is not dialled anew, and one of a     *)
(* home that was replaced is never a client of its successor.              *)
(* Then the relayed terminal, for any number of devices, connections,      *)
(* requests and bytes: answers reach the requests they are for, and a      *)
(* device that comes back misses nothing the scrollback holds.  Both rest  *)
(* on what the queues of a connection hold: the requests a device waits    *)
(* for, frame by frame, and for every byte it is owed a frame that brings  *)
(* it or a request that asks for it.                                       *)
(***************************************************************************)
EXTENDS RelayLinks, HomeTerminal, SequenceTheorems, FiniteSetTheorems,
        WellFoundedInduction, TLAPS

(* ---- the relay's sockets ---- *)

Message == [k : {"open", "close"}, conn : Sockets]

SocketRow == [near : {"dialing", "open", "closed"}, far : {"none", "open", "gone"},
              kill : BOOLEAN, lost : BOOLEAN, down : Seq(Message), up : Seq(Sockets)]

EndRow == [on : BOOLEAN, ws : Sockets \union {NoSocket}, up : BOOLEAN, timer : BOOLEAN,
           asking : Nat]

LinksShape ==
    /\ ends \in [Endpoints -> EndRow]
    /\ sockets \in [Sockets -> SocketRow]
    /\ registry \in [home : Sockets \union {NoSocket}, clients : SUBSET Sockets,
                     last : Sockets \union {NoSocket}]
    /\ served \in SUBSET Sockets

(* The connections that the messages on a socket name.                       *)
Named(row) == Range(row.up) \union {m.conn : m \in Range(row.down)}

(* The home stands at the relay's end, and is the last one that attached.    *)
HomeStands ==
    /\ registry.home # NoSocket =>
          registry.home[1] = HomeMac /\ sockets[registry.home].far = "open"
    /\ registry.home \in {NoSocket, registry.last}
    /\ registry.last # NoSocket =>
          registry.last[1] = HomeMac
          /\ (registry.home = NoSocket => sockets[registry.last].far # "open")

ClientsStand ==
    /\ \A c \in registry.clients : c[1] # HomeMac /\ sockets[c].far = "open"
    /\ registry.home = NoSocket => registry.clients = {}

(* An endpoint keeps a socket of its own that it has not closed.             *)
OwnSocket ==
    \A x \in Endpoints : ends[x].ws # NoSocket =>
        ends[x].ws[1] = x /\ sockets[ends[x].ws].near # "closed"

(* A socket the relay has not let in is new: nothing came over it, and       *)
(* nothing names it.                                                         *)
NewIsNew ==
    \A s \in Sockets : sockets[s].far = "none" =>
        /\ sockets[s].up = <<>> /\ sockets[s].down = <<>>
        /\ ends[HomeMac].ws = s => served = {}
        /\ s \notin served /\ \A t \in Sockets : s \notin Named(sockets[t])

(* Connections of a replaced home are no clients of its successor.           *)
OldAreOut ==
    /\ \A t \in Sockets : t # registry.home => Named(sockets[t]) \intersect registry.clients = {}
    /\ ends[HomeMac].ws # registry.home => served \intersect registry.clients = {}

(* A connection is opened once.                                              *)
OpenedOnce ==
    \A t \in Sockets :
       /\ \A i, j \in DOMAIN sockets[t].down :
             sockets[t].down[i].k = "open" /\ sockets[t].down[j].k = "open"
             /\ sockets[t].down[i].conn = sockets[t].down[j].conn => i = j
       /\ ends[HomeMac].ws = t =>
             \A i \in DOMAIN sockets[t].down :
                sockets[t].down[i].k = "open" => sockets[t].down[i].conn \notin served

LInv == /\ LinksShape /\ HomeStands /\ ClientsStand /\ OwnSocket /\ NewIsNew
        /\ OldAreOut /\ OpenedOnce /\ ConnsAgree

----------------------------------------------------------------------------
LEMMA SocketNames ==
  /\ NoSocket \notin Sockets
  /\ \A x \in Endpoints : \A s \in SocketsOf(x) : s \in Sockets /\ s[1] = x /\ s[2] \in Nat
  /\ \A s \in Sockets : s[1] \in Endpoints
  /\ HomeMac \in Endpoints
<1>1. ASSUME NEW x \in Endpoints, NEW s \in SocketsOf(x)
      PROVE  s \in Sockets /\ s[1] = x /\ s[2] \in Nat /\ s # NoSocket
  <2>1. s \in Sockets
    BY DEF Sockets
  <2>2. PICK n \in Nat : s = <<x, n>>
    BY RelayAssumption DEF SocketsOf
  <2> QED BY <2>1, <2>2 DEF NoSocket
<1>2. ASSUME NEW s \in Sockets PROVE \E x \in Endpoints : s \in SocketsOf(x)
  BY DEF Sockets
<1> QED BY <1>1, <1>2 DEF Endpoints

(* What the bridge will serve when one more message is sent to it ...        *)
LEMMA WillServeSent ==
  ASSUME NEW kept, NEW down \in Seq(Message), NEW m \in Message, NEW c
  PROVE  WillServe(kept, Append(down, m), c) <=>
            IF m.conn = c THEN m.k = "open" ELSE WillServe(kept, down, c)
<1> DEFINE new == Append(down, m)
<1>1. /\ Len(down) \in Nat /\ DOMAIN down = 1..Len(down) /\ DOMAIN new = 1..(Len(down) + 1)
      /\ \A i \in DOMAIN down : new[i] = down[i]
      /\ new[Len(down) + 1] = m
  OBVIOUS
<1> HIDE DEF new
<1>2. CASE m.conn = c
  <2>1. WillServe(kept, new, c) <=> m.k = "open"
    BY <1>1, <1>2 DEF WillServe
  <2> QED BY <2>1, <1>2 DEF new
<1>3. CASE m.conn # c
  <2>1. ASSUME WillServe(kept, down, c) PROVE WillServe(kept, new, c)
    <3>1. CASE c \in kept /\ \A i \in DOMAIN down : down[i].conn # c
      BY <3>1, <1>1, <1>3 DEF WillServe
    <3>2. CASE \E i \in DOMAIN down : /\ down[i].conn = c /\ down[i].k = "open"
                               /\ \A j \in DOMAIN down : j > i => down[j].conn # c
      <4>1. PICK i \in DOMAIN down : /\ down[i].conn = c /\ down[i].k = "open"
                               /\ \A j \in DOMAIN down : j > i => down[j].conn # c
        BY <3>2
      <4>2. i \in DOMAIN new /\ new[i].conn = c /\ new[i].k = "open"
        BY <4>1, <1>1
      <4>3. \A j \in DOMAIN new : j > i => new[j].conn # c
        BY <4>1, <1>1, <1>3
      <4> QED BY <4>2, <4>3 DEF WillServe
    <3> QED BY <2>1, <3>1, <3>2 DEF WillServe
  <2>2. ASSUME WillServe(kept, new, c) PROVE WillServe(kept, down, c)
    <3>1. CASE c \in kept /\ \A i \in DOMAIN new : new[i].conn # c
      BY <3>1, <1>1, <1>3 DEF WillServe
    <3>2. CASE \E i \in DOMAIN new : /\ new[i].conn = c /\ new[i].k = "open"
                               /\ \A j \in DOMAIN new : j > i => new[j].conn # c
      <4>1. PICK i \in DOMAIN new : /\ new[i].conn = c /\ new[i].k = "open"
                               /\ \A j \in DOMAIN new : j > i => new[j].conn # c
        BY <3>2
      <4>2. i \in DOMAIN down
        BY <4>1, <1>1, <1>3
      <4> QED BY <4>1, <4>2, <1>1 DEF WillServe
    <3> QED BY <2>2, <3>1, <3>2 DEF WillServe
  <2> QED BY <2>1, <2>2, <1>3 DEF new
<1> QED BY <1>2, <1>3

(* ... and when it has heard one.                                            *)
LEMMA WillServeHeard ==
  ASSUME NEW kept, NEW down \in Seq(Message), down # <<>>, NEW c
  PROVE  WillServe(Told(kept, Head(down)), Tail(down), c) <=> WillServe(kept, down, c)
<1> DEFINE m == Head(down)
           rest == Tail(down)
           after == Told(kept, m)
<1>1. /\ Len(down) \in Nat \ {0} /\ DOMAIN down = 1..Len(down)
      /\ DOMAIN rest = 1..(Len(down) - 1)
      /\ \A i \in DOMAIN rest : rest[i] = down[i + 1]
      /\ m = down[1] /\ m \in Message
  OBVIOUS
<1>2. /\ m.k \in {"open", "close"}
      /\ c \in after <=> IF m.conn = c THEN m.k = "open" ELSE c \in kept
  BY <1>1 DEF Message, Told
<1> HIDE DEF m, rest, after
<1>3. ASSUME WillServe(after, rest, c) PROVE WillServe(kept, down, c)
  <2>1. CASE c \in after /\ \A i \in DOMAIN rest : rest[i].conn # c
    <3>1. \A i \in DOMAIN down : i > 1 => down[i].conn # c
      <4>1. \A i \in DOMAIN down : i > 1 => i - 1 \in DOMAIN rest /\ rest[i - 1] = down[i]
        BY <1>1
      <4> QED BY <4>1, <2>1
    <3> QED BY <3>1, <2>1, <1>1, <1>2 DEF WillServe
  <2>2. CASE \E i \in DOMAIN rest : /\ rest[i].conn = c /\ rest[i].k = "open"
                             /\ \A j \in DOMAIN rest : j > i => rest[j].conn # c
    <3>1. PICK i \in DOMAIN rest : /\ rest[i].conn = c /\ rest[i].k = "open"
                             /\ \A j \in DOMAIN rest : j > i => rest[j].conn # c
      BY <2>2
    <3>2. i + 1 \in DOMAIN down /\ down[i + 1].conn = c /\ down[i + 1].k = "open"
      BY <3>1, <1>1
    <3>3. ASSUME NEW j \in DOMAIN down, j > i + 1 PROVE down[j].conn # c
      <4>1. j - 1 \in DOMAIN rest /\ rest[j - 1] = down[j] /\ j - 1 > i
        BY <3>3, <1>1
      <4> QED BY <4>1, <3>1
    <3> QED BY <3>2, <3>3 DEF WillServe
  <2> QED BY <1>3, <2>1, <2>2 DEF WillServe
<1>4. ASSUME WillServe(kept, down, c) PROVE WillServe(after, rest, c)
  <2>1. CASE c \in kept /\ \A i \in DOMAIN down : down[i].conn # c
    <3>1. \A i \in DOMAIN rest : rest[i].conn # c
      BY <2>1, <1>1
    <3>2. c \in after
      BY <2>1, <1>1, <1>2
    <3> QED BY <3>1, <3>2 DEF WillServe
  <2>2. CASE \E i \in DOMAIN down : /\ down[i].conn = c /\ down[i].k = "open"
                             /\ \A j \in DOMAIN down : j > i => down[j].conn # c
    <3>1. PICK i \in DOMAIN down : /\ down[i].conn = c /\ down[i].k = "open"
                             /\ \A j \in DOMAIN down : j > i => down[j].conn # c
      BY <2>2
    <3>2. CASE i = 1
      <4>1. c \in after
        BY <3>1, <3>2, <1>1, <1>2
      <4>2. \A j \in DOMAIN rest : rest[j].conn # c
        BY <3>1, <3>2, <1>1
      <4> QED BY <4>1, <4>2 DEF WillServe
    <3>3. CASE i > 1
      <4>1. i - 1 \in DOMAIN rest /\ rest[i - 1] = down[i]
        BY <3>3, <1>1
      <4>2. \A j \in DOMAIN rest : j > i - 1 => rest[j].conn # c
        BY <3>1, <1>1
      <4> QED BY <3>1, <4>1, <4>2 DEF WillServe
    <3> QED BY <3>2, <3>3, <1>1
  <2> QED BY <1>4, <2>1, <2>2 DEF WillServe
<1> QED BY <1>3, <1>4 DEF m, rest, after

(* Asking for a token, or setting a timer, leaves the socket alone.          *)
LEMMA ConnectsKeeps ==
  ASSUME NEW e \in EndRow
  PROVE  /\ Connects(e) \in EndRow /\ Connects(e).ws = e.ws
         /\ Fired(e) \in EndRow /\ Fired(e).ws = e.ws
         /\ Schedules(e) \in EndRow /\ Schedules(e).ws = e.ws
<1>1. ASSUME NEW f \in EndRow PROVE Connects(f) \in EndRow /\ Connects(f).ws = f.ws
  <2>1. CASE f.on /\ f.ws = NoSocket
    BY <2>1 DEF Connects, EndRow
  <2>2. CASE ~(f.on /\ f.ws = NoSocket)
    BY <2>2 DEF Connects
  <2> QED BY <2>1, <2>2
<1>2. [e EXCEPT !.timer = FALSE] \in EndRow /\ [e EXCEPT !.timer = FALSE].ws = e.ws
  BY DEF EndRow
<1>3. Schedules(e) \in EndRow /\ Schedules(e).ws = e.ws
  BY DEF Schedules, EndRow
<1> QED BY <1>1, <1>2, <1>3 DEF Fired

LEMMA InitLInv == RlInit => LInv
<1> SUFFICES ASSUME RlInit PROVE LInv
  OBVIOUS
<1>1. /\ \A s \in Sockets : sockets[s] = Unused
      /\ sockets \in [Sockets -> SocketRow] /\ Unused.far = "gone"
      /\ Unused.up = <<>> /\ Unused.down = <<>>
  <2>1. Unused \in SocketRow /\ Unused.far = "gone" /\ Unused.up = <<>> /\ Unused.down = <<>>
    BY DEF Unused, SocketRow
  <2> QED BY <2>1 DEF RlInit
<1>2. ends \in [Endpoints -> EndRow] /\ \A x \in Endpoints : ends[x].ws = NoSocket
  <2>1. SwitchedOff \in EndRow /\ SwitchedOff.ws = NoSocket
    BY DEF SwitchedOff, EndRow
  <2>2. LET e == Connects([SwitchedOff EXCEPT !.on = TRUE]) IN e \in EndRow /\ e.ws = NoSocket
    <3>1. ASSUME NEW e \in EndRow
          PROVE  [e EXCEPT !.on = TRUE] \in EndRow /\ [e EXCEPT !.on = TRUE].ws = e.ws
      BY DEF EndRow
    <3> QED BY <2>1, <3>1, ConnectsKeeps
  <2> QED BY <2>1, <2>2 DEF RlInit
<1>3. /\ registry.home = NoSocket /\ registry.clients = {} /\ registry.last = NoSocket
      /\ served = {}
      /\ registry \in [home : Sockets \union {NoSocket}, clients : SUBSET Sockets,
                       last : Sockets \union {NoSocket}]
  BY DEF RlInit
<1>4. \A s \in Sockets : Named(sockets[s]) = {} /\ DOMAIN sockets[s].down = {}
  BY <1>1 DEF Named, Range
<1> QED BY <1>1, <1>2, <1>3, <1>4
        DEF LInv, LinksShape, HomeStands, ClientsStand, OwnSocket, NewIsNew, OldAreOut,
            OpenedOnce, ConnsAgree

----------------------------------------------------------------------------
(* Steps that tell nobody anything: sockets may be let go, and what was on   *)
(* its way over them lost, but for the home socket while the bridge keeps it. *)
Quietly ==
    /\ ends' \in [Endpoints -> EndRow] /\ sockets' \in [Sockets -> SocketRow]
    /\ registry' = registry
    /\ \A x \in Endpoints :
          /\ ends'[x].ws \in {ends[x].ws, NoSocket}
          /\ ends'[x].ws # NoSocket => sockets'[ends'[x].ws].near # "closed"
    /\ served' \in {served, {}}
    /\ ends'[HomeMac].ws # ends[HomeMac].ws => served' = {}
    /\ ends'[HomeMac].ws = ends[HomeMac].ws /\ ends[HomeMac].ws # NoSocket => served' = served
    /\ \A t \in Sockets :
          /\ sockets'[t].far = sockets[t].far
             \/ (sockets[t].far = "none" /\ sockets'[t].far = "gone")
          /\ sockets'[t].down \in {sockets[t].down, <<>>}
          /\ sockets'[t].up \in {sockets[t].up, <<>>}
          /\ t = registry.home /\ ends'[HomeMac].ws = t =>
                \/ sockets'[t].lost
                \/ /\ sockets'[t].down = sockets[t].down /\ sockets'[t].up = sockets[t].up
                   /\ sockets[t].kill => sockets'[t].kill
                   /\ sockets[t].lost => sockets'[t].lost

LEMMA QuietlyKeeps == LInv /\ Quietly => LInv'
<1> SUFFICES ASSUME LInv, Quietly PROVE LInv'
  OBVIOUS
<1>1. LinksShape /\ HomeMac \in Endpoints /\ NoSocket \notin Sockets /\ registry' = registry
  BY SocketNames DEF LInv, Quietly
<1>2. LinksShape'
  BY <1>1 DEF LinksShape, Quietly
<1>3. \A t \in Sockets : Named(sockets'[t]) \subseteq Named(sockets[t])
  <2>1. Range(<<>>) = {}
    BY DEF Range
  <2> QED BY <2>1 DEF Quietly, Named
<1>4. /\ registry.home \in Sockets \union {NoSocket} /\ registry.last \in Sockets \union {NoSocket}
      /\ registry.clients \subseteq Sockets
      /\ ends[HomeMac].ws \in Sockets \union {NoSocket}
      /\ ends'[HomeMac].ws \in {ends[HomeMac].ws, NoSocket}
  BY <1>1 DEF LinksShape, EndRow, Quietly
<1>5. HomeStands' /\ ClientsStand'
  BY <1>1, <1>4 DEF LInv, HomeStands, ClientsStand, Quietly
<1>6. OwnSocket'
  BY <1>1 DEF LInv, OwnSocket, Quietly
<1>7. NewIsNew'
  <2> SUFFICES ASSUME NEW s \in Sockets, sockets'[s].far = "none"
               PROVE  /\ sockets'[s].up = <<>> /\ sockets'[s].down = <<>>
                      /\ ends'[HomeMac].ws = s => served' = {}
                      /\ s \notin served' /\ \A t \in Sockets : s \notin Named(sockets'[t])
    BY DEF NewIsNew
  <2>1. sockets[s].far = "none"
    BY DEF Quietly
  <2>2. /\ sockets[s].up = <<>> /\ sockets[s].down = <<>>
        /\ ends[HomeMac].ws = s => served = {}
        /\ s \notin served /\ \A t \in Sockets : s \notin Named(sockets[t])
    BY <2>1 DEF LInv, NewIsNew
  <2> QED BY <2>2, <1>1, <1>3, <1>4 DEF Quietly
<1>8. OldAreOut'
  <2>1. \A t \in Sockets : t # registry.home => Named(sockets'[t]) \intersect registry.clients = {}
    BY <1>3 DEF LInv, OldAreOut
  <2>2. ends'[HomeMac].ws # registry.home => served' \intersect registry.clients = {}
    BY DEF LInv, OldAreOut, Quietly
  <2> QED BY <1>1, <2>1, <2>2 DEF OldAreOut
<1>9. OpenedOnce'
  <2> SUFFICES ASSUME NEW t \in Sockets
               PROVE  /\ \A i, j \in DOMAIN sockets'[t].down :
                            sockets'[t].down[i].k = "open" /\ sockets'[t].down[j].k = "open"
                            /\ sockets'[t].down[i].conn = sockets'[t].down[j].conn => i = j
                      /\ ends'[HomeMac].ws = t =>
                            \A i \in DOMAIN sockets'[t].down :
                               sockets'[t].down[i].k = "open" => sockets'[t].down[i].conn \notin served'
    BY DEF OpenedOnce
  <2>1. CASE sockets'[t].down = <<>>
    BY <2>1
  <2>2. CASE sockets'[t].down = sockets[t].down
    BY <2>2, <1>1, <1>4 DEF LInv, OpenedOnce, Quietly
  <2> QED BY <2>1, <2>2 DEF Quietly
<1>10. ConnsAgree'
  <2> DEFINE h == registry.home
  <2> SUFFICES ASSUME h # NoSocket, ends'[HomeMac].ws = h, ~sockets'[h].lost, ~sockets'[h].kill,
                      NEW c \in Sockets
               PROVE  c \in registry.clients \ Range(sockets'[h].up)
                         <=> WillServe(served', sockets'[h].down, c)
    BY <1>1 DEF ConnsAgree
  <2>1. h \in Sockets /\ ends[HomeMac].ws = h
    BY <1>4
  <2>2. /\ sockets'[h].down = sockets[h].down /\ sockets'[h].up = sockets[h].up
        /\ ~sockets[h].kill /\ ~sockets[h].lost
    BY <2>1 DEF Quietly
  <2>3. served' = served
    BY <2>1 DEF Quietly
  <2>4. c \in registry.clients \ Range(sockets[h].up) <=> WillServe(served, sockets[h].down, c)
    BY <2>1, <2>2 DEF LInv, ConnsAgree
  <2> QED BY <2>2, <2>3, <2>4
<1> QED BY <1>2, <1>5, <1>6, <1>7, <1>8, <1>9, <1>10 DEF LInv

(* What only the endpoints do.                                               *)
LEMMA EndsOnlyKeeps ==
  ASSUME LInv, NEW x \in Endpoints, NEW e \in EndRow, e.ws = ends[x].ws,
         ends' = [ends EXCEPT ![x] = e], UNCHANGED <<sockets, registry, served>>
  PROVE  LInv'
<1>1. LinksShape
  BY DEF LInv
<1>2. ends' \in [Endpoints -> EndRow] /\ \A y \in Endpoints : ends'[y].ws = ends[y].ws
  BY <1>1 DEF LinksShape
<1>3. HomeMac \in Endpoints
  BY SocketNames
<1>4. \A y \in Endpoints : ends[y].ws # NoSocket => sockets[ends[y].ws].near # "closed"
  BY DEF LInv, OwnSocket
<1>5. Quietly
  BY <1>1, <1>2, <1>3, <1>4 DEF LinksShape, Quietly
<1> QED BY <1>5, QuietlyKeeps

LEMMA RetryFiresKeeps == ASSUME LInv, NEW x \in Endpoints, RetryFires(x) PROVE LInv'
<1>1. ends[x] \in EndRow /\ ends' = [ends EXCEPT ![x] = Fired(ends[x])]
      /\ UNCHANGED <<sockets, registry, served>>
  BY DEF LInv, LinksShape, RetryFires
<1> QED BY <1>1, ConnectsKeeps, EndsOnlyKeeps

LEMMA NudgeKeeps == ASSUME LInv, NEW x \in Endpoints, Nudge(x) PROVE LInv'
<1>1. ends[x] \in EndRow /\ ends' = [ends EXCEPT ![x] = Fired(ends[x])]
      /\ UNCHANGED <<sockets, registry, served>>
  BY DEF LInv, LinksShape, Nudge
<1> QED BY <1>1, ConnectsKeeps, EndsOnlyKeeps

LEMMA StartKeeps == ASSUME LInv, Start PROVE LInv'
<1> DEFINE e == [ends[HomeMac] EXCEPT !.on = TRUE]
<1>1. ends[HomeMac] \in EndRow /\ ends' = [ends EXCEPT ![HomeMac] = Connects(e)]
      /\ UNCHANGED <<sockets, registry, served>> /\ HomeMac \in Endpoints
  BY SocketNames DEF LInv, LinksShape, Start
<1>2. e \in EndRow /\ e.ws = ends[HomeMac].ws
  BY <1>1 DEF EndRow
<1> HIDE DEF e
<1> QED BY <1>1, <1>2, ConnectsKeeps, EndsOnlyKeeps

(* A socket changes, and its owner may let it go.                            *)
LEMMA SocketOnlyKeeps ==
  ASSUME LInv, NEW s \in Sockets, NEW w \in SocketRow, sockets' = [sockets EXCEPT ![s] = w],
         registry' = registry, ends' \in [Endpoints -> EndRow],
         w.far = sockets[s].far \/ (sockets[s].far = "none" /\ w.far = "gone"),
         w.down \in {sockets[s].down, <<>>}, w.up \in {sockets[s].up, <<>>},
         s = registry.home /\ ends'[HomeMac].ws = s =>
                \/ w.lost
                \/ /\ w.down = sockets[s].down /\ w.up = sockets[s].up
                   /\ sockets[s].kill => w.kill
                   /\ sockets[s].lost => w.lost,
         \A x \in Endpoints : \/ ends'[x].ws = NoSocket
                              \/ ends'[x].ws = ends[x].ws /\ (ends[x].ws = s => w.near # "closed"),
         served' \in {served, {}},
         ends'[HomeMac].ws # ends[HomeMac].ws => served' = {},
         ends'[HomeMac].ws = ends[HomeMac].ws /\ ends[HomeMac].ws # NoSocket => served' = served
  PROVE  LInv'
<1>1. LinksShape /\ OwnSocket
  BY DEF LInv
<1>2. /\ sockets' \in [Sockets -> SocketRow] /\ sockets'[s] = w
      /\ \A t \in Sockets \ {s} : sockets'[t] = sockets[t]
  BY <1>1 DEF LinksShape
<1>3. \A x \in Endpoints :
          /\ ends'[x].ws \in {ends[x].ws, NoSocket}
          /\ ends'[x].ws # NoSocket => sockets'[ends'[x].ws].near # "closed"
  <2> SUFFICES ASSUME NEW x \in Endpoints, ends'[x].ws # NoSocket
               PROVE  ends'[x].ws = ends[x].ws /\ sockets'[ends'[x].ws].near # "closed"
    OBVIOUS
  <2>1. ends'[x].ws = ends[x].ws /\ (ends[x].ws = s => w.near # "closed")
    OBVIOUS
  <2>2. ends[x].ws \in Sockets /\ sockets[ends[x].ws].near # "closed"
    BY <1>1, <2>1 DEF LinksShape, EndRow, OwnSocket
  <2> QED BY <1>2, <2>1, <2>2
<1>4. \A t \in Sockets :
          /\ sockets'[t].far = sockets[t].far
             \/ (sockets[t].far = "none" /\ sockets'[t].far = "gone")
          /\ sockets'[t].down \in {sockets[t].down, <<>>}
          /\ sockets'[t].up \in {sockets[t].up, <<>>}
          /\ t = registry.home /\ ends'[HomeMac].ws = t =>
                \/ sockets'[t].lost
                \/ /\ sockets'[t].down = sockets[t].down /\ sockets'[t].up = sockets[t].up
                   /\ sockets[t].kill => sockets'[t].kill
                   /\ sockets[t].lost => sockets'[t].lost
  BY <1>2
<1>5. Quietly
  BY <1>2, <1>3, <1>4, Zenon DEF Quietly
<1> QED BY <1>5, QuietlyKeeps

LEMMA OpenEventKeeps == ASSUME LInv, NEW s \in Sockets, OpenEvent(s) PROVE LInv'
<1>1. LinksShape /\ s[1] \in Endpoints /\ ends[s[1]] \in EndRow /\ sockets[s] \in SocketRow
  BY SocketNames DEF LInv, LinksShape
<1> DEFINE w == [sockets[s] EXCEPT !.near = "open"]
<1>2. /\ w \in SocketRow /\ w.far = sockets[s].far /\ w.down = sockets[s].down
      /\ w.up = sockets[s].up /\ w.kill = sockets[s].kill /\ w.lost = sockets[s].lost
      /\ w.near = "open"
  BY <1>1 DEF SocketRow
<1>3. sockets' = [sockets EXCEPT ![s] = w] /\ UNCHANGED <<registry, served>>
  BY DEF OpenEvent
<1>4. ends' \in [Endpoints -> EndRow] /\ \A x \in Endpoints : ends'[x].ws = ends[x].ws
  <2> DEFINE b == ends[s[1]].up \/ ends[s[1]].ws = s
             e == [ends[s[1]] EXCEPT !.up = b]
  <2>1. ends' = [ends EXCEPT ![s[1]] = e]
    BY DEF OpenEvent
  <2>2. b \in BOOLEAN
    OBVIOUS
  <2> HIDE DEF b
  <2>3. e \in EndRow /\ e.ws = ends[s[1]].ws
    BY <1>1, <2>2 DEF EndRow
  <2> HIDE DEF e
  <2> QED BY <1>1, <2>1, <2>3 DEF LinksShape
<1> HIDE DEF w
<1>5. HomeMac \in Endpoints
  BY SocketNames
<1> QED BY <1>2, <1>3, <1>4, <1>5, SocketOnlyKeeps, ZenonT(60)

LEMMA RowUpdates ==
  ASSUME NEW w \in SocketRow, NEW d \in Seq(Message), NEW u \in Seq(Sockets)
  PROVE  /\ LET v == [w EXCEPT !.near = "closed", !.down = d] IN
            v \in SocketRow /\ v.far = w.far /\ v.down = d /\ v.up = w.up
         /\ LET v == [w EXCEPT !.lost = TRUE, !.down = d, !.up = u] IN
            v \in SocketRow /\ v.far = w.far /\ v.down = d /\ v.up = u /\ v.near = w.near /\ v.lost
         /\ LET v == [w EXCEPT !.down = d] IN
            /\ v \in SocketRow /\ v.far = w.far /\ v.down = d /\ v.up = w.up
            /\ v.near = w.near /\ v.lost = w.lost /\ v.kill = w.kill
         /\ LET v == [w EXCEPT !.up = u] IN
            /\ v \in SocketRow /\ v.far = w.far /\ v.down = w.down /\ v.up = u
            /\ v.near = w.near /\ v.lost = w.lost /\ v.kill = w.kill
         /\ LET v == [w EXCEPT !.far = "open"] IN
            /\ v \in SocketRow /\ v.far = "open" /\ v.down = w.down /\ v.up = w.up
            /\ v.near = w.near /\ v.lost = w.lost /\ v.kill = w.kill
         /\ LET v == [w EXCEPT !.far = "gone"] IN
            /\ v \in SocketRow /\ v.far = "gone" /\ v.down = w.down /\ v.up = w.up
            /\ v.near = w.near /\ v.lost = w.lost /\ v.kill = w.kill
         /\ LET v == [w EXCEPT !.kill = TRUE] IN
            /\ v \in SocketRow /\ v.far = w.far /\ v.down = w.down /\ v.up = w.up
            /\ v.near = w.near /\ v.lost = w.lost /\ v.kill
  BY DEF SocketRow

LEMMA Nothing == <<>> \in Seq(Message) /\ <<>> \in Seq(Sockets) /\ Range(<<>>) = {}
  BY DEF Range

(* The socket as its owner leaves it.                                        *)
LEMMA HungRow ==
  ASSUME LinksShape, NEW s \in Sockets
  PROVE  \E w \in SocketRow :
            /\ Hung(s) = [sockets EXCEPT ![s] = w]
            /\ w.far = sockets[s].far /\ w.down = <<>> /\ w.up \in {sockets[s].up, <<>>}
<1>1. sockets[s] \in SocketRow /\ s \in DOMAIN sockets
  BY DEF LinksShape
<1>2. CASE sockets[s].far = "gone"
  <2>1. Unused \in SocketRow /\ Unused.far = "gone" /\ Unused.down = <<>> /\ Unused.up = <<>>
    BY DEF Unused, SocketRow
  <2>2. Hung(s) = [sockets EXCEPT ![s] = Unused]
    BY <1>1, <1>2 DEF Hung
  <2> QED BY <1>2, <2>1, <2>2
<1>3. CASE sockets[s].far # "gone"
  <2>0. PICK none \in Seq(Message) : none = <<>>
    BY Nothing
  <2> DEFINE w == [sockets[s] EXCEPT !.near = "closed", !.down = none]
  <2>1. w \in SocketRow /\ w.far = sockets[s].far /\ w.down = none /\ w.up = sockets[s].up
    BY <1>1 DEF SocketRow
  <2>2. Hung(s) = [sockets EXCEPT ![s] = w]
    BY <1>1, <1>3, <2>0 DEF Hung
  <2> HIDE DEF w
  <2> QED BY <2>0, <2>1, <2>2
<1> QED BY <1>2, <1>3

(* An endpoint lets its socket go.                                           *)
LEMMA LetGo ==
  ASSUME NEW e \in EndRow
  PROVE  /\ [e EXCEPT !.ws = NoSocket, !.up = FALSE] \in EndRow
         /\ [e EXCEPT !.ws = NoSocket, !.up = FALSE].ws = NoSocket
         /\ [e EXCEPT !.on = FALSE, !.timer = FALSE, !.ws = NoSocket, !.up = FALSE] \in EndRow
         /\ [e EXCEPT !.on = FALSE, !.timer = FALSE, !.ws = NoSocket, !.up = FALSE].ws = NoSocket
  BY DEF EndRow

LEMMA CloseEventKeeps == ASSUME LInv, NEW s \in Sockets, CloseEvent(s) PROVE LInv'
<1> DEFINE x == s[1]
<1>1. LinksShape /\ OwnSocket /\ x \in Endpoints /\ HomeMac \in Endpoints /\ ends[x] \in EndRow
      /\ s # NoSocket
  BY SocketNames DEF LInv, LinksShape
<1>2. PICK w \in SocketRow :
         /\ sockets' = [sockets EXCEPT ![s] = w]
         /\ w.far = sockets[s].far /\ w.down = <<>> /\ w.up \in {sockets[s].up, <<>>}
  BY <1>1, HungRow DEF CloseEvent
<1>3. CASE ends[x].ws = s
  <2> DEFINE e == Schedules([ends[x] EXCEPT !.ws = NoSocket, !.up = FALSE])
  <2>1. e \in EndRow /\ e.ws = NoSocket
    BY <1>1, LetGo, ConnectsKeeps
  <2>2. ends' = [ends EXCEPT ![x] = e] /\ served' = ServedAfter(x, served) /\ registry' = registry
    BY <1>3 DEF CloseEvent
  <2> HIDE DEF e
  <2>3. ends' \in [Endpoints -> EndRow] /\ ends'[x].ws = NoSocket
        /\ \A y \in Endpoints \ {x} : ends'[y] = ends[y] /\ ends[y].ws # s
    BY <1>1, <2>1, <2>2 DEF LinksShape, OwnSocket
  <2>4. served' = IF x = HomeMac THEN {} ELSE served
    BY <2>2 DEF ServedAfter
  <2> HIDE DEF x
  <2>5. s = registry.home /\ ends'[HomeMac].ws = s => FALSE
    BY <1>1, <2>3
  <2> QED BY <1>1, <1>2, <1>3, <2>2, <2>3, <2>4, <2>5, SocketOnlyKeeps
<1>4. CASE ends[x].ws # s
  <2>1. UNCHANGED <<ends, served, registry>>
    BY <1>4 DEF CloseEvent
  <2>2. \A y \in Endpoints : ends[y].ws # s
    BY <1>1, <1>4 DEF OwnSocket
  <2>3. ends \in [Endpoints -> EndRow]
    BY <1>1 DEF LinksShape
  <2> QED BY <1>1, <1>2, <2>1, <2>2, <2>3, SocketOnlyKeeps
<1> QED BY <1>3, <1>4

LEMMA RefusedKeeps == ASSUME LInv, NEW s \in Sockets, Refused(s) PROVE LInv'
<1> DEFINE x == s[1]
<1>1. LinksShape /\ OwnSocket /\ x \in Endpoints /\ HomeMac \in Endpoints /\ ends[x] \in EndRow
      /\ s # NoSocket /\ sockets[s].far = "none"
  BY SocketNames DEF LInv, LinksShape, Refused
<1>2. /\ Unused \in SocketRow /\ Unused.far = "gone" /\ Unused.down = <<>> /\ Unused.up = <<>>
      /\ sockets' = [sockets EXCEPT ![s] = Unused] /\ UNCHANGED <<registry, served>>
  BY DEF Unused, SocketRow, Refused
<1>3. s # registry.home
  BY <1>1 DEF LInv, HomeStands
<1>4. CASE ends[x].ws = s
  <2> DEFINE e == Schedules([ends[x] EXCEPT !.ws = NoSocket, !.up = FALSE])
  <2>1. e \in EndRow /\ e.ws = NoSocket
    BY <1>1, LetGo, ConnectsKeeps
  <2>2. ends' = [ends EXCEPT ![x] = e]
    BY <1>4 DEF Refused
  <2> HIDE DEF e
  <2>3. ends' \in [Endpoints -> EndRow] /\ ends'[x].ws = NoSocket
        /\ \A y \in Endpoints \ {x} : ends'[y] = ends[y] /\ ends[y].ws # s
    BY <1>1, <2>1, <2>2 DEF LinksShape, OwnSocket
  <2>4. x = HomeMac => served = {}
    BY <1>1, <1>4 DEF LInv, NewIsNew
  <2> HIDE DEF x
  <2> QED BY <1>1, <1>2, <1>3, <1>4, <2>3, <2>4, SocketOnlyKeeps
<1>5. CASE ends[x].ws # s
  <2>1. UNCHANGED ends
    BY <1>5 DEF Refused
  <2>2. \A y \in Endpoints : ends[y].ws # s
    BY <1>1, <1>5 DEF OwnSocket
  <2>3. ends \in [Endpoints -> EndRow]
    BY <1>1 DEF LinksShape
  <2> QED BY <1>1, <1>2, <1>3, <2>1, <2>2, <2>3, SocketOnlyKeeps
<1> QED BY <1>4, <1>5

LEMMA StopKeeps == ASSUME LInv, NEW x \in Endpoints, Stop(x) PROVE LInv'
<1>1. LinksShape /\ OwnSocket /\ HomeMac \in Endpoints /\ ends[x] \in EndRow
      /\ NoSocket \notin Sockets
  BY SocketNames DEF LInv, LinksShape
<1> DEFINE e == [ends[x] EXCEPT !.on = FALSE, !.timer = FALSE, !.ws = NoSocket, !.up = FALSE]
<1>2. e \in EndRow /\ e.ws = NoSocket
  BY <1>1, LetGo
<1>3. /\ ends' = [ends EXCEPT ![x] = e] /\ served' = ServedAfter(x, served)
      /\ registry' = registry
  BY DEF Stop
<1> HIDE DEF e
<1>4. /\ ends' \in [Endpoints -> EndRow] /\ ends'[x].ws = NoSocket
      /\ \A y \in Endpoints \ {x} : ends'[y] = ends[y]
      /\ served' = IF x = HomeMac THEN {} ELSE served
  BY <1>1, <1>2, <1>3 DEF LinksShape, ServedAfter
<1>5. CASE ends[x].ws = NoSocket
  <2>1. sockets' = sockets
    BY <1>5 DEF Stop
  <2>2. \A y \in Endpoints : ends[y].ws # NoSocket => sockets[ends[y].ws].near # "closed"
    BY <1>1 DEF OwnSocket
  <2>3. \A y \in Endpoints :
          /\ ends'[y].ws \in {ends[y].ws, NoSocket}
          /\ ends'[y].ws # NoSocket => sockets'[ends'[y].ws].near # "closed"
    BY <1>4, <2>1, <2>2
  <2>4. sockets' \in [Sockets -> SocketRow]
    BY <1>1, <2>1 DEF LinksShape
  <2>5. served' = served \/ (served' = {} /\ ends[HomeMac].ws = NoSocket)
    BY <1>4, <1>5
  <2>6. ends'[HomeMac].ws # ends[HomeMac].ws => served' = {}
    BY <1>1, <1>4, <1>5
  <2>7. Quietly
    BY <1>3, <1>4, <2>1, <2>3, <2>4, <2>5, <2>6 DEF Quietly
  <2> QED BY <2>7, QuietlyKeeps
<1>6. CASE ends[x].ws # NoSocket
  <2> DEFINE s == ends[x].ws
  <2>1. s \in Sockets /\ s[1] = x /\ sockets' = Hung(s)
    BY <1>1, <1>6 DEF EndRow, OwnSocket, Stop
  <2>2. PICK w \in SocketRow :
           /\ sockets' = [sockets EXCEPT ![s] = w]
           /\ w.far = sockets[s].far /\ w.down = <<>> /\ w.up \in {sockets[s].up, <<>>}
    BY <1>1, <2>1, HungRow
  <2>3. \A y \in Endpoints \ {x} : ends[y].ws # s
    BY <1>1, <2>1 DEF OwnSocket
  <2>4. ends'[HomeMac].ws # s
    BY <1>1, <1>4, <2>1, <2>3
  <2>5. \A y \in Endpoints : ends'[y].ws = NoSocket \/ (ends'[y].ws = ends[y].ws /\ ends[y].ws # s)
    BY <1>4, <2>3
  <2>6. /\ ends'[HomeMac].ws # ends[HomeMac].ws => served' = {}
        /\ ends'[HomeMac].ws = ends[HomeMac].ws /\ ends[HomeMac].ws # NoSocket => served' = served
        /\ served' \in {served, {}}
    BY <1>1, <1>4
  <2> HIDE DEF s
  <2> QED BY <1>3, <1>4, <2>1, <2>2, <2>4, <2>5, <2>6, SocketOnlyKeeps, ZenonT(60)
<1> QED BY <1>5, <1>6

LEMMA AbandonedKeeps == ASSUME LInv, NEW s \in Sockets, Abandoned(s) PROVE LInv'
<1>1. LinksShape /\ OwnSocket /\ sockets[s] \in SocketRow /\ sockets[s].far = "none"
      /\ HomeMac \in Endpoints /\ ends \in [Endpoints -> EndRow]
      /\ UNCHANGED <<ends, registry, served>>
  BY SocketNames DEF LInv, LinksShape, Abandoned
<1>2. s # registry.home
  BY <1>1, SocketNames DEF LInv, HomeStands
<1>3. CASE sockets[s].near = "closed"
  <2>1. /\ Unused \in SocketRow /\ Unused.far = "gone" /\ Unused.down = <<>> /\ Unused.up = <<>>
        /\ sockets' = [sockets EXCEPT ![s] = Unused]
    BY <1>1, <1>3 DEF Unused, SocketRow, Abandoned, LinksShape
  <2>2. \A x \in Endpoints : ends[x].ws = NoSocket \/ ends[x].ws # s
    BY <1>1, <1>3 DEF OwnSocket
  <2> QED BY <1>1, <1>2, <2>1, <2>2, SocketOnlyKeeps
<1>4. CASE sockets[s].near # "closed"
  <2> DEFINE w == [sockets[s] EXCEPT !.far = "gone"]
  <2>1. /\ w \in SocketRow /\ w.far = "gone" /\ w.down = sockets[s].down /\ w.up = sockets[s].up
        /\ w.near = sockets[s].near
    BY <1>1 DEF SocketRow
  <2>2. sockets' = [sockets EXCEPT ![s] = w]
    BY <1>1, <1>4 DEF Abandoned, LinksShape
  <2> HIDE DEF w
  <2> QED BY <1>1, <1>2, <1>4, <2>1, <2>2, SocketOnlyKeeps
<1> QED BY <1>3, <1>4

LEMMA BreaksKeeps == ASSUME LInv, NEW s \in Sockets, Breaks(s) PROVE LInv'
<1>1. LinksShape /\ sockets[s] \in SocketRow /\ sockets[s].near # "closed"
      /\ HomeMac \in Endpoints /\ ends \in [Endpoints -> EndRow]
      /\ UNCHANGED <<ends, registry, served>>
  BY SocketNames DEF LInv, LinksShape, Breaks
<1>2. CASE sockets' = [sockets EXCEPT ![s].lost = TRUE, ![s].down = <<>>, ![s].up = <<>>]
  <2>0. PICK none \in Seq(Message) : none = <<>> /\ none \in Seq(Sockets)
    BY Nothing
  <2> DEFINE w == [sockets[s] EXCEPT !.lost = TRUE, !.down = none, !.up = none]
  <2>1. /\ w \in SocketRow /\ w.far = sockets[s].far /\ w.down = none /\ w.up = none
        /\ w.near = sockets[s].near /\ w.lost
    BY <1>1, <2>0 DEF SocketRow
  <2>2. sockets' = [sockets EXCEPT ![s] = w]
    BY <1>1, <1>2, <2>0 DEF LinksShape
  <2> HIDE DEF w
  <2> QED BY <1>1, <2>0, <2>1, <2>2, SocketOnlyKeeps, ZenonT(60)
<1>3. CASE sockets' = Killed(sockets, {s})
  <2> DEFINE w == [sockets[s] EXCEPT !.kill = TRUE]
  <2>1. /\ w \in SocketRow /\ w.far = sockets[s].far /\ w.down = sockets[s].down
        /\ w.up = sockets[s].up /\ w.near = sockets[s].near /\ w.lost = sockets[s].lost /\ w.kill
    BY <1>1 DEF SocketRow
  <2>2. sockets' = [sockets EXCEPT ![s] = w]
    BY <1>1, <1>3 DEF LinksShape, Killed
  <2> HIDE DEF w
  <2> QED BY <1>1, <2>1, <2>2, SocketOnlyKeeps
<1> QED BY <1>2, <1>3 DEF Breaks

----------------------------------------------------------------------------
(* There is a free socket with the least number.                             *)
LEMMA LeastFree ==
  ASSUME NEW x \in Endpoints, FreeSockets(x) # {}
  PROVE  \E t \in FreeSockets(x) : \A u \in FreeSockets(x) : t[2] <= u[2]
<1> DEFINE F == FreeSockets(x)
           N == {t[2] : t \in F}
<1>1. \A t \in F : t[2] \in Nat
  BY SocketNames DEF FreeSockets
<1>2. N \subseteq Nat /\ N # {}
  BY <1>1
<1>3. PICK k \in Nat : F \subseteq {x} \X (1..k)
  BY RelayAssumption DEF FreeSockets, SocketsOf
<1>4. IsFiniteSet(N)
  <2>1. N \in SUBSET (1..k)
    BY <1>3
  <2>2. IsFiniteSet(1..k)
    BY FS_Interval
  <2> HIDE DEF N
  <2> QED BY <2>1, <2>2, FS_Subset
<1> DEFINE Less(n) == {m \in N : m < n}
           T == {Less(n) : n \in N}
<1>5. T \subseteq FiniteSubsetsOf(N) /\ T # {}
  <2>1. \A n \in N : Less(n) \in SUBSET N
    OBVIOUS
  <2>2. \A U \in SUBSET N : IsFiniteSet(U)
    <3> HIDE DEF N
    <3> QED BY <1>4, FS_Subset
  <2> HIDE DEF N
  <2> QED BY <1>2, <2>1, <2>2 DEF FiniteSubsetsOf
<1> HIDE DEF N
<1>6. PICK y \in T : \A z \in T : <<z, y>> \notin StrictSubsetOrdering(N)
  <2>1. IsWellFoundedOn(StrictSubsetOrdering(N), FiniteSubsetsOf(N))
    BY FS_StrictSubsetOrderingWellFounded
  <2> HIDE DEF T
  <2> QED BY <1>5, <2>1, WFMin
<1>7. PICK n \in N : y = Less(n)
  OBVIOUS
<1>8. ASSUME NEW m \in N, m < n PROVE FALSE
  <2>1. Less(m) \subseteq Less(n)
    <3>1. m \in Nat /\ n \in Nat /\ \A l \in N : l \in Nat
      BY <1>2
    <3>2. \A l \in Nat : l < m => l < n
      BY <1>8, <3>1
    <3> QED BY <3>1, <3>2
  <2>2. m \in Less(n) /\ m \notin Less(m)
    BY <1>2, <1>8
  <2>3. <<Less(m), Less(n)>> \in StrictSubsetOrdering(N)
    BY <2>1, <2>2 DEF StrictSubsetOrdering
  <2> QED BY <1>6, <1>7, <2>3
<1>9. \A m \in N : n <= m
  BY <1>2, <1>8
<1> QED BY <1>1, <1>9 DEF N

LEMMA TokenArrivesKeeps == ASSUME LInv, NEW x \in Endpoints, TokenArrives(x) PROVE LInv'
<1> DEFINE e == [ends[x] EXCEPT !.asking = @ - 1]
<1>1. LinksShape /\ ends[x] \in EndRow /\ HomeMac \in Endpoints /\ NoSocket \notin Sockets
  BY SocketNames DEF LInv, LinksShape
<1>2. e \in EndRow /\ e.ws = ends[x].ws
  BY <1>1 DEF EndRow, TokenArrives
<1>3. registry' = registry
  BY DEF TokenArrives
<1>4. \/ ends' = [ends EXCEPT ![x] = e] /\ UNCHANGED <<sockets, served>>
      \/ ends' = [ends EXCEPT ![x] = Schedules(e)] /\ UNCHANGED <<sockets, served>>
      \/ \E s \in FreeSockets(x) :
             /\ ends' = [ends EXCEPT ![x] = [e EXCEPT !.ws = s]]
             /\ served' = ServedAfter(x, served)
             /\ sockets' = [sockets EXCEPT ![s] =
                   [Unused EXCEPT !.near = "dialing", !.far = "none"]]
  BY LeastFree DEF TokenArrives
<1> HIDE DEF e
<1>5. CASE ends' = [ends EXCEPT ![x] = e] /\ UNCHANGED <<sockets, served>>
  BY <1>2, <1>3, <1>5, EndsOnlyKeeps
<1>6. CASE ends' = [ends EXCEPT ![x] = Schedules(e)] /\ UNCHANGED <<sockets, served>>
  BY <1>2, <1>3, <1>6, EndsOnlyKeeps, ConnectsKeeps
<1>7. ASSUME NEW s \in FreeSockets(x),
             ends' = [ends EXCEPT ![x] = [e EXCEPT !.ws = s]],
             served' = ServedAfter(x, served),
             sockets' = [sockets EXCEPT ![s] = [Unused EXCEPT !.near = "dialing", !.far = "none"]]
      PROVE  LInv'
  <2>1. /\ s \in Sockets /\ s[1] = x /\ sockets[s] = Unused /\ s \notin served
        /\ \A t \in Sockets : s \notin Named(sockets[t])
    BY SocketNames DEF FreeSockets, Named
  <2>2. Unused \in SocketRow /\ Unused.far = "gone" /\ Unused.down = <<>> /\ Unused.up = <<>>
    BY DEF Unused, SocketRow
  <2> DEFINE w == [Unused EXCEPT !.near = "dialing", !.far = "none"]
  <2>3. w \in SocketRow /\ w.near = "dialing" /\ w.far = "none" /\ w.down = <<>> /\ w.up = <<>>
    BY <2>2 DEF SocketRow
  <2>4. [e EXCEPT !.ws = s] \in EndRow /\ [e EXCEPT !.ws = s].ws = s
    BY <1>2, <2>1 DEF EndRow
  <2>5. /\ sockets' \in [Sockets -> SocketRow] /\ sockets'[s] = w
        /\ \A t \in Sockets \ {s} : sockets'[t] = sockets[t]
    BY <1>1, <1>7, <2>1, <2>3 DEF LinksShape
  <2>6. /\ ends' \in [Endpoints -> EndRow] /\ ends'[x].ws = s
        /\ \A y \in Endpoints \ {x} : ends'[y] = ends[y]
        /\ served' = IF x = HomeMac THEN {} ELSE served
    BY <1>1, <1>7, <2>4 DEF LinksShape, ServedAfter
  <2>7. Named(w) = {}
    BY <2>3, Nothing DEF Named
  <2> HIDE DEF w
  <2>8. LinksShape'
    BY <1>1, <1>3, <2>5, <2>6 DEF LinksShape
  <2>9. /\ registry.home \in Sockets \union {NoSocket} /\ registry.last \in Sockets \union {NoSocket}
        /\ registry.clients \subseteq Sockets /\ ends[HomeMac].ws \in Sockets \union {NoSocket}
        /\ s # NoSocket /\ s # registry.home /\ s \notin registry.clients
    BY <1>1, <2>1, <2>2 DEF LinksShape, EndRow, LInv, HomeStands, ClientsStand
  <2>10. HomeStands' /\ ClientsStand'
    BY <1>3, <2>3, <2>5, <2>9 DEF LInv, HomeStands, ClientsStand
  <2>11. OwnSocket'
    <3> SUFFICES ASSUME NEW y \in Endpoints, ends'[y].ws # NoSocket
                 PROVE  ends'[y].ws[1] = y /\ sockets'[ends'[y].ws].near # "closed"
      BY DEF OwnSocket
    <3>1. CASE y = x
      BY <3>1, <2>1, <2>3, <2>5, <2>6
    <3>2. CASE y # x
      <4>1. /\ ends'[y] = ends[y] /\ ends[y].ws \in Sockets
            /\ ends[y].ws[1] = y /\ sockets[ends[y].ws].near # "closed"
        BY <3>2, <1>1, <2>6 DEF LinksShape, EndRow, LInv, OwnSocket
      <4> QED BY <4>1, <3>2, <2>1, <2>5
    <3> QED BY <3>1, <3>2
  <2>12. \A t \in Sockets : Named(sockets'[t]) \subseteq Named(sockets[t])
    BY <2>5, <2>7
  <2>13. NewIsNew'
    <3> SUFFICES ASSUME NEW u \in Sockets, sockets'[u].far = "none"
                 PROVE  /\ sockets'[u].up = <<>> /\ sockets'[u].down = <<>>
                        /\ ends'[HomeMac].ws = u => served' = {}
                        /\ u \notin served' /\ \A t \in Sockets : u \notin Named(sockets'[t])
      BY DEF NewIsNew
    <3>1. CASE u = s
      <4>1. ends'[HomeMac].ws = s => x = HomeMac
        BY <2>1, <2>9, <2>11, <1>1 DEF OwnSocket
      <4> QED BY <3>1, <4>1, <2>1, <2>3, <2>5, <2>6, <2>12
    <3>2. CASE u # s
      <4>1. /\ sockets[u].up = <<>> /\ sockets[u].down = <<>>
            /\ ends[HomeMac].ws = u => served = {}
            /\ u \notin served /\ \A t \in Sockets : u \notin Named(sockets[t])
        BY <3>2, <2>5 DEF LInv, NewIsNew
      <4> QED BY <3>2, <4>1, <1>1, <2>5, <2>6, <2>12
    <3> QED BY <3>1, <3>2
  <2>14. OldAreOut'
    <3>1. \A t \in Sockets : t # registry.home => Named(sockets'[t]) \intersect registry.clients = {}
      BY <2>12 DEF LInv, OldAreOut
    <3>2. ends'[HomeMac].ws # registry.home => served' \intersect registry.clients = {}
      BY <1>1, <2>6 DEF LInv, OldAreOut
    <3> QED BY <1>3, <3>1, <3>2 DEF OldAreOut
  <2>15. OpenedOnce'
    <3>1. DOMAIN w.down = {}
      BY <2>3
    <3>2. x # HomeMac => ends'[HomeMac].ws = ends[HomeMac].ws /\ served' = served
      BY <1>1, <2>6
    <3>3. served' \subseteq served
      BY <2>6
    <3>4. x = HomeMac => ends'[HomeMac].ws = s
      BY <2>6
    <3> QED BY <2>5, <3>1, <3>2, <3>3, <3>4 DEF LInv, OpenedOnce
  <2>16. ConnsAgree'
    <3>1. CASE x = HomeMac
      BY <3>1, <1>3, <2>6, <2>9 DEF ConnsAgree
    <3>2. CASE x # HomeMac
      <4>1. ends'[HomeMac].ws = ends[HomeMac].ws /\ served' = served
        BY <3>2, <1>1, <2>6
      <4>2. registry.home # NoSocket => sockets'[registry.home] = sockets[registry.home]
        BY <2>5, <2>9
      <4> QED BY <4>1, <4>2, <1>3 DEF LInv, ConnsAgree
    <3> QED BY <3>1, <3>2
  <2> QED BY <2>8, <2>10, <2>11, <2>13, <2>14, <2>15, <2>16 DEF LInv
<1> QED BY <1>4, <1>5, <1>6, <1>7

----------------------------------------------------------------------------
LEMMA AppendedOne ==
  ASSUME NEW S, NEW q \in Seq(S), NEW e \in S
  PROVE  /\ Append(q, e) \in Seq(S) /\ Len(q) \in Nat /\ DOMAIN q = 1..Len(q)
         /\ DOMAIN Append(q, e) = 1..(Len(q) + 1) /\ Append(q, e)[Len(q) + 1] = e
         /\ \A i \in DOMAIN q : Append(q, e)[i] = q[i]
  OBVIOUS

LEMMA RangeOfAppend ==
  ASSUME NEW S, NEW q \in Seq(S), NEW e \in S
  PROVE  Append(q, e) \in Seq(S) /\ Range(Append(q, e)) = Range(q) \union {e}
<1> DEFINE new == Append(q, e)
<1>1. /\ new \in Seq(S) /\ Len(q) \in Nat /\ DOMAIN q = 1..Len(q)
      /\ DOMAIN new = 1..(Len(q) + 1) /\ new[Len(q) + 1] = e
      /\ \A i \in DOMAIN q : new[i] = q[i]
  BY AppendedOne
<1> HIDE DEF new
<1>2. Range(new) \subseteq Range(q) \union {e}
  BY <1>1 DEF Range
<1>3. Range(q) \union {e} \subseteq Range(new)
  <2>1. \A i \in DOMAIN q : i \in DOMAIN new /\ new[i] = q[i]
    BY <1>1
  <2>2. Len(q) + 1 \in DOMAIN new
    BY <1>1
  <2> QED BY <1>1, <2>1, <2>2 DEF Range
<1> QED BY <1>1, <1>2, <1>3 DEF new

LEMMA RangeOfTail ==
  ASSUME NEW S, NEW q \in Seq(S), q # <<>>
  PROVE  /\ Tail(q) \in Seq(S) /\ Head(q) \in S /\ Head(q) \in Range(q)
         /\ Range(q) = Range(Tail(q)) \union {Head(q)}
<1>1. /\ Tail(q) \in Seq(S) /\ Head(q) \in S /\ 1 \in DOMAIN q /\ Head(q) = q[1]
      /\ DOMAIN q = 1..Len(q) /\ Len(q) \in Nat \ {0} /\ DOMAIN Tail(q) = 1..(Len(q) - 1)
      /\ \A i \in DOMAIN Tail(q) : Tail(q)[i] = q[i + 1]
  OBVIOUS
<1>2. Range(Tail(q)) \subseteq Range(q)
  BY <1>1 DEF Range
<1>3. ASSUME NEW i \in DOMAIN q, i # 1 PROVE q[i] \in Range(Tail(q))
  <2>1. i - 1 \in DOMAIN Tail(q) /\ Tail(q)[i - 1] = q[i]
    BY <1>1, <1>3
  <2> QED BY <2>1 DEF Range
<1>4. Range(q) \subseteq Range(Tail(q)) \union {Head(q)}
  BY <1>1, <1>3 DEF Range
<1> QED BY <1>1, <1>2, <1>4 DEF Range

(* New sockets stay new: what the step begins to name is not among them.     *)
LEMMA NewStaysNew ==
  ASSUME NewIsNew, NEW X, ends'[HomeMac].ws = ends[HomeMac].ws,
         \A u \in Sockets : sockets'[u].far = "none" =>
            /\ sockets[u].far = "none" /\ u \notin X
            /\ sockets'[u].up = sockets[u].up /\ sockets'[u].down = sockets[u].down
            /\ ends[HomeMac].ws = u => served' \subseteq served,
         served' \subseteq served \union X,
         \A t \in Sockets : Named(sockets'[t]) \subseteq Named(sockets[t]) \union X
  PROVE  NewIsNew'
<1> SUFFICES ASSUME NEW u \in Sockets, sockets'[u].far = "none"
             PROVE  /\ sockets'[u].up = <<>> /\ sockets'[u].down = <<>>
                    /\ ends'[HomeMac].ws = u => served' = {}
                    /\ u \notin served' /\ \A t \in Sockets : u \notin Named(sockets'[t])
  BY DEF NewIsNew
<1>1. /\ sockets[u].up = <<>> /\ sockets[u].down = <<>>
      /\ ends[HomeMac].ws = u => served = {}
      /\ u \notin served /\ \A t \in Sockets : u \notin Named(sockets[t])
  BY DEF NewIsNew
<1> QED BY <1>1

LEMMA OwnStays ==
  ASSUME LinksShape, OwnSocket, UNCHANGED ends,
         \A t \in Sockets : sockets[t].near # "closed" => sockets'[t].near # "closed"
  PROVE  OwnSocket'
<1>1. \A x \in Endpoints : ends[x].ws # NoSocket => ends[x].ws \in Sockets
  BY DEF LinksShape, EndRow
<1> QED BY <1>1 DEF OwnSocket

LEMMA BridgeHearsKeeps == ASSUME LInv, NEW s \in Sockets, BridgeHears(s) PROVE LInv'
<1> DEFINE m == Head(sockets[s].down)
           rest == Tail(sockets[s].down)
           w == [sockets[s] EXCEPT !.down = rest]
<1>1. LinksShape /\ sockets[s] \in SocketRow /\ NoSocket \notin Sockets
      /\ s[1] = HomeMac /\ UNCHANGED <<ends, registry>>
  BY SocketNames DEF LInv, LinksShape, BridgeHears
<1>2. sockets[s].down \in Seq(Message) /\ sockets[s].down # <<>>
  BY <1>1 DEF SocketRow, BridgeHears
<1>3. /\ rest \in Seq(Message) /\ m \in Message
      /\ Range(sockets[s].down) = Range(rest) \union {m}
      /\ m.conn \in Sockets /\ m.k \in {"open", "close"}
  <2>1. /\ rest \in Seq(Message) /\ m \in Message
        /\ Range(sockets[s].down) = Range(rest) \union {m}
    BY <1>2, RangeOfTail, Zenon
  <2> HIDE DEF m, rest
  <2> QED BY <2>1 DEF Message
<1>4. /\ DOMAIN sockets[s].down = 1..Len(sockets[s].down) /\ Len(sockets[s].down) \in Nat \ {0}
      /\ DOMAIN rest = 1..(Len(sockets[s].down) - 1) /\ m = sockets[s].down[1]
      /\ \A i \in DOMAIN rest : rest[i] = sockets[s].down[i + 1]
  BY <1>2
<1>5. sockets' = [sockets EXCEPT ![s] = w]
  BY DEF BridgeHears
<1>6. served' = IF ends[HomeMac].ws = s THEN Told(served, m) ELSE served
  BY DEF BridgeHears
<1> HIDE DEF m, rest
<1>7. /\ w \in SocketRow /\ w.far = sockets[s].far /\ w.down = rest /\ w.up = sockets[s].up
      /\ w.near = sockets[s].near /\ w.lost = sockets[s].lost /\ w.kill = sockets[s].kill
  BY <1>1, <1>3 DEF SocketRow
<1> HIDE DEF w
<1>8. /\ sockets' \in [Sockets -> SocketRow] /\ sockets'[s] = w
      /\ \A t \in Sockets \ {s} : sockets'[t] = sockets[t]
  BY <1>1, <1>5, <1>7 DEF LinksShape
<1>9. /\ Named(w) \subseteq Named(sockets[s]) /\ m.conn \in Named(sockets[s])
  BY <1>3, <1>7 DEF Named
<1>10. /\ served' \subseteq served \union {m.conn}
       /\ ends[HomeMac].ws # s \/ m.k # "open" => served' \subseteq served
  BY <1>3, <1>6 DEF Told
<1>11. served' \in SUBSET Sockets
  BY <1>1, <1>3, <1>10 DEF LinksShape
<1>12. LinksShape'
  BY <1>1, <1>8, <1>11 DEF LinksShape
<1>13. \A t \in Sockets : /\ sockets'[t].far = sockets[t].far /\ sockets'[t].near = sockets[t].near
                          /\ sockets'[t].up = sockets[t].up /\ sockets'[t].lost = sockets[t].lost
                          /\ sockets'[t].kill = sockets[t].kill
                          /\ Named(sockets'[t]) \subseteq Named(sockets[t])
  BY <1>7, <1>8, <1>9
<1>14. registry.home \in Sockets \union {NoSocket} /\ registry.last \in Sockets \union {NoSocket}
       /\ registry.clients \subseteq Sockets /\ ends[HomeMac].ws \in Sockets \union {NoSocket}
  BY <1>1, SocketNames DEF LinksShape, EndRow
<1>15. HomeStands' /\ ClientsStand'
  BY <1>1, <1>13, <1>14 DEF LInv, HomeStands, ClientsStand
<1>16. OwnSocket'
  BY <1>1, <1>13, OwnStays DEF LInv
<1>17. NewIsNew'
  <2>1. \A u \in Sockets : sockets[u].far = "none" => u # m.conn /\ u # s
    BY <1>2, <1>9 DEF LInv, NewIsNew
  <2>2. \A u \in Sockets : sockets'[u].far = "none" =>
            /\ sockets[u].far = "none" /\ u \notin {m.conn}
            /\ sockets'[u].up = sockets[u].up /\ sockets'[u].down = sockets[u].down
            /\ ends[HomeMac].ws = u => served' \subseteq served
    BY <1>8, <1>10, <1>13, <2>1
  <2> QED BY <1>1, <1>10, <1>13, <2>2, NewStaysNew DEF LInv
<1>18. OldAreOut'
  <2>1. \A t \in Sockets : t # registry.home => Named(sockets'[t]) \intersect registry.clients = {}
    BY <1>13 DEF LInv, OldAreOut
  <2>2. ASSUME ends[HomeMac].ws # registry.home PROVE served' \intersect registry.clients = {}
    <3>1. served \intersect registry.clients = {}
      BY <2>2 DEF LInv, OldAreOut
    <3>2. CASE ends[HomeMac].ws = s
      <4>1. m.conn \notin registry.clients
        BY <2>2, <3>2, <1>9 DEF LInv, OldAreOut
      <4> QED BY <3>1, <4>1, <1>10
    <3> QED BY <3>1, <3>2, <1>10
  <2> QED BY <1>1, <2>1, <2>2 DEF OldAreOut
<1>19. OpenedOnce'
  <2>1. ASSUME NEW t \in Sockets, t # s
        PROVE  /\ \A i, j \in DOMAIN sockets'[t].down :
                     sockets'[t].down[i].k = "open" /\ sockets'[t].down[j].k = "open"
                     /\ sockets'[t].down[i].conn = sockets'[t].down[j].conn => i = j
               /\ ends'[HomeMac].ws = t =>
                     \A i \in DOMAIN sockets'[t].down :
                        sockets'[t].down[i].k = "open" => sockets'[t].down[i].conn \notin served'
    BY <2>1, <1>1, <1>8, <1>10 DEF LInv, OpenedOnce
  <2>2. ASSUME NEW i \in DOMAIN rest, NEW j \in DOMAIN rest,
               rest[i].k = "open", rest[j].k = "open", rest[i].conn = rest[j].conn
        PROVE  i = j
    <3>1. i + 1 \in DOMAIN sockets[s].down /\ j + 1 \in DOMAIN sockets[s].down
      BY <1>4
    <3>2. i + 1 = j + 1
      BY <3>1, <2>2, <1>4 DEF LInv, OpenedOnce
    <3> QED BY <3>2, <1>4
  <2>3. ASSUME ends[HomeMac].ws = s, NEW i \in DOMAIN rest, rest[i].k = "open"
        PROVE  rest[i].conn \notin served'
    <3>1. i + 1 \in DOMAIN sockets[s].down /\ 1 \in DOMAIN sockets[s].down /\ i + 1 # 1
      BY <1>4
    <3>2. rest[i].conn \notin served
      BY <3>1, <2>3, <1>4 DEF LInv, OpenedOnce
    <3>3. m.k = "open" => m.conn # rest[i].conn
      BY <3>1, <2>3, <1>4 DEF LInv, OpenedOnce
    <3> QED BY <3>2, <3>3, <1>10
  <2> QED BY <2>1, <2>2, <2>3, <1>1, <1>7, <1>8 DEF OpenedOnce
<1>20. ConnsAgree'
  <2> DEFINE h == registry.home
  <2> SUFFICES ASSUME h # NoSocket, ends[HomeMac].ws = h, ~sockets'[h].lost, ~sockets'[h].kill,
                      NEW c \in Sockets
               PROVE  c \in registry.clients \ Range(sockets'[h].up)
                         <=> WillServe(served', sockets'[h].down, c)
    BY <1>1 DEF ConnsAgree
  <2>1. /\ h \in Sockets /\ sockets'[h].up = sockets[h].up
        /\ c \in registry.clients \ Range(sockets[h].up) <=> WillServe(served, sockets[h].down, c)
    BY <1>13, <1>14 DEF LInv, ConnsAgree
  <2>2. CASE h = s
    <3>1. WillServe(Told(served, m), rest, c) <=> WillServe(served, sockets[s].down, c)
      BY <1>2, WillServeHeard DEF m, rest
    <3> QED BY <2>1, <2>2, <3>1, <1>6, <1>7, <1>8
  <2>3. CASE h # s
    BY <2>1, <2>3, <1>6, <1>8
  <2> QED BY <2>2, <2>3
<1> QED BY <1>12, <1>15, <1>16, <1>17, <1>18, <1>19, <1>20 DEF LInv

LEMMA BridgeDropsKeeps == ASSUME LInv, NEW c \in Sockets, BridgeDrops(c) PROVE LInv'
<1> DEFINE s == ends[HomeMac].ws
           more == Append(sockets[s].up, c)
           w == [sockets[s] EXCEPT !.up = more]
<1>1. LinksShape /\ NoSocket \notin Sockets /\ UNCHANGED <<ends, registry>>
      /\ c \in served /\ s # NoSocket /\ served' = served \ {c}
  BY SocketNames DEF LInv, LinksShape, BridgeDrops
<1>2. s \in Sockets /\ sockets[s] \in SocketRow
  BY <1>1, SocketNames DEF LinksShape, EndRow
<1>3. sockets[s].up \in Seq(Sockets)
  BY <1>2 DEF SocketRow
<1>4. more \in Seq(Sockets) /\ Range(more) = Range(sockets[s].up) \union {c}
  BY <1>3, RangeOfAppend
<1>5. sockets' = [sockets EXCEPT ![s] = w]
  BY DEF BridgeDrops
<1> HIDE DEF s, more
<1>6. /\ w \in SocketRow /\ w.far = sockets[s].far /\ w.down = sockets[s].down /\ w.up = more
      /\ w.near = sockets[s].near /\ w.lost = sockets[s].lost /\ w.kill = sockets[s].kill
  BY <1>2, <1>4 DEF SocketRow
<1> HIDE DEF w
<1>7. /\ sockets' \in [Sockets -> SocketRow] /\ sockets'[s] = w
      /\ \A t \in Sockets \ {s} : sockets'[t] = sockets[t]
  BY <1>1, <1>2, <1>5, <1>6 DEF LinksShape
<1>8. Named(w) = Named(sockets[s]) \union {c}
  BY <1>4, <1>6 DEF Named
<1>9. LinksShape'
  BY <1>1, <1>7 DEF LinksShape
<1>10. \A t \in Sockets : /\ sockets'[t].far = sockets[t].far /\ sockets'[t].near = sockets[t].near
                          /\ sockets'[t].down = sockets[t].down /\ sockets'[t].lost = sockets[t].lost
                          /\ sockets'[t].kill = sockets[t].kill
                          /\ Named(sockets'[t]) \subseteq Named(sockets[t]) \union {c}
  BY <1>6, <1>7, <1>8
<1>11. registry.home \in Sockets \union {NoSocket} /\ registry.last \in Sockets \union {NoSocket}
       /\ registry.clients \subseteq Sockets
  BY <1>1 DEF LinksShape
<1>12. HomeStands' /\ ClientsStand'
  BY <1>1, <1>10, <1>11 DEF LInv, HomeStands, ClientsStand
<1>13. OwnSocket'
  BY <1>1, <1>10, OwnStays DEF LInv
<1>14. NewIsNew'
  <2>1. \A u \in Sockets : sockets[u].far = "none" => u # c /\ u # s
    BY <1>1 DEF LInv, NewIsNew, s
  <2>2. \A u \in Sockets : sockets'[u].far = "none" =>
            /\ sockets[u].far = "none" /\ u \notin {c}
            /\ sockets'[u].up = sockets[u].up /\ sockets'[u].down = sockets[u].down
            /\ ends[HomeMac].ws = u => served' \subseteq served
    BY <1>1, <1>7, <1>10, <2>1
  <2>3. served' \subseteq served \union {c}
    BY <1>1
  <2> QED BY <1>1, <1>10, <2>2, <2>3, NewStaysNew DEF LInv
<1>15. OldAreOut'
  <2>1. s # registry.home => c \notin registry.clients
    BY <1>1 DEF LInv, OldAreOut, s
  <2>2. \A t \in Sockets : t # registry.home => Named(sockets'[t]) \intersect registry.clients = {}
    BY <1>7, <1>8, <2>1 DEF LInv, OldAreOut
  <2> QED BY <1>1, <2>2 DEF LInv, OldAreOut
<1>16. OpenedOnce'
  BY <1>1, <1>10 DEF LInv, OpenedOnce
<1>17. ConnsAgree'
  <2> DEFINE h == registry.home
  <2> SUFFICES ASSUME h # NoSocket, s = h, ~sockets'[h].lost, ~sockets'[h].kill,
                      NEW d \in Sockets
               PROVE  d \in registry.clients \ Range(sockets'[h].up)
                         <=> WillServe(served', sockets'[h].down, d)
    BY <1>1 DEF ConnsAgree, s
  <2>1. /\ sockets'[h].up = more /\ sockets'[h].down = sockets[s].down
        /\ d \in registry.clients \ Range(sockets[s].up) <=> WillServe(served, sockets[s].down, d)
    BY <1>2, <1>6, <1>7 DEF LInv, ConnsAgree, s
  <2>2. CASE d # c
    <3>1. WillServe(served', sockets[s].down, d) <=> WillServe(served, sockets[s].down, d)
      BY <2>2, <1>1 DEF WillServe
    <3> QED BY <2>1, <2>2, <3>1, <1>4
  <2>3. CASE d = c
    <3>1. \A i \in DOMAIN sockets[s].down : sockets[s].down[i].k = "open" => sockets[s].down[i].conn # c
      BY <1>1, <1>2 DEF LInv, OpenedOnce, s
    <3>2. ~WillServe(served', sockets[s].down, c)
      BY <3>1, <1>1 DEF WillServe
    <3> QED BY <2>1, <2>3, <3>2, <1>4
  <2> QED BY <2>2, <2>3
<1> QED BY <1>9, <1>12, <1>13, <1>14, <1>15, <1>16, <1>17 DEF LInv

----------------------------------------------------------------------------
(* Closing a set of sockets at the relay's end.                              *)
LEMMA KilledRows ==
  ASSUME NEW socks \in [Sockets -> SocketRow], NEW K
  PROVE  /\ Killed(socks, K) \in [Sockets -> SocketRow]
         /\ \A t \in Sockets :
               LET v == Killed(socks, K)[t] IN
               /\ v.near = socks[t].near /\ v.far = socks[t].far /\ v.lost = socks[t].lost
               /\ v.up = socks[t].up /\ v.down = socks[t].down
               /\ socks[t].kill => v.kill
               /\ t \notin K => v = socks[t]
<1> DEFINE v(t) == IF t \in K THEN [socks[t] EXCEPT !.kill = TRUE] ELSE socks[t]
<1>1. ASSUME NEW t \in Sockets
      PROVE  /\ v(t) \in SocketRow
             /\ v(t).near = socks[t].near /\ v(t).far = socks[t].far /\ v(t).lost = socks[t].lost
             /\ v(t).up = socks[t].up /\ v(t).down = socks[t].down
             /\ socks[t].kill => v(t).kill
             /\ t \notin K => v(t) = socks[t]
  <2>1. socks[t] \in SocketRow
    OBVIOUS
  <2>2. CASE t \in K
    BY <2>1, <2>2 DEF SocketRow
  <2>3. CASE t \notin K
    BY <2>1, <2>3
  <2> QED BY <2>2, <2>3
<1>2. Killed(socks, K) = [t \in Sockets |-> v(t)]
  BY DEF Killed
<1> HIDE DEF v
<1> QED BY <1>1, <1>2

LEMMA AttachHomeKeeps ==
  ASSUME LInv, NEW s \in Sockets, sockets[s].far = "none", s[1] = HomeMac, AttachHome(s),
         UNCHANGED <<ends, served>>
  PROVE  LInv'
<1>1. LinksShape /\ sockets \in [Sockets -> SocketRow] /\ NoSocket \notin Sockets
  BY SocketNames DEF LInv, LinksShape
<1> DEFINE K == ({registry.home} \ {NoSocket}) \union registry.clients
           mid == Killed(sockets, K)
           w == [mid[s] EXCEPT !.far = "open"]
<1>2. s \notin K
  BY DEF LInv, HomeStands, ClientsStand
<1>3. sockets' = [mid EXCEPT ![s] = w] /\ registry' = [home |-> s, clients |-> {}, last |-> s]
  BY DEF AttachHome
<1>4. /\ mid \in [Sockets -> SocketRow] /\ mid[s] = sockets[s]
      /\ \A t \in Sockets :
               /\ mid[t].near = sockets[t].near /\ mid[t].far = sockets[t].far
               /\ mid[t].up = sockets[t].up /\ mid[t].down = sockets[t].down
  <2> HIDE DEF K
  <2> QED BY <1>1, <1>2, KilledRows
<1> HIDE DEF K, mid
<1>5. /\ w \in SocketRow /\ w.far = "open" /\ w.near = sockets[s].near
      /\ w.up = sockets[s].up /\ w.down = sockets[s].down
  BY <1>4 DEF SocketRow
<1> HIDE DEF w
<1>6. /\ sockets' \in [Sockets -> SocketRow] /\ sockets'[s] = w
      /\ \A t \in Sockets \ {s} : sockets'[t] = mid[t]
  BY <1>3, <1>4, <1>5
<1>7. \A t \in Sockets :
         /\ sockets'[t].near = sockets[t].near /\ sockets'[t].up = sockets[t].up
         /\ sockets'[t].down = sockets[t].down /\ Named(sockets'[t]) = Named(sockets[t])
         /\ t # s => sockets'[t].far = sockets[t].far
  BY <1>4, <1>5, <1>6 DEF Named
<1>8. /\ registry'.home = s /\ registry'.last = s /\ registry'.clients = {}
      /\ registry' \in [home : Sockets \union {NoSocket}, clients : SUBSET Sockets,
                        last : Sockets \union {NoSocket}]
  BY <1>3
<1>9. LinksShape'
  BY <1>1, <1>6, <1>8 DEF LinksShape
<1>10. HomeStands' /\ ClientsStand' /\ OldAreOut'
  BY <1>5, <1>6, <1>8 DEF HomeStands, ClientsStand, OldAreOut
<1>11. OwnSocket'
  BY <1>1, <1>7, OwnStays DEF LInv
<1>12. NewIsNew'
  <2>1. \A u \in Sockets : sockets'[u].far = "none" => u # s /\ sockets[u].far = "none"
    BY <1>5, <1>6, <1>7
  <2>2. \A u \in Sockets : sockets'[u].far = "none" =>
            /\ sockets[u].far = "none" /\ u \notin {}
            /\ sockets'[u].up = sockets[u].up /\ sockets'[u].down = sockets[u].down
            /\ ends[HomeMac].ws = u => served' \subseteq served
    BY <1>7, <2>1
  <2>3. \A t \in Sockets : Named(sockets'[t]) \subseteq Named(sockets[t]) \union {}
    BY <1>7
  <2>4. /\ served' \subseteq served \union {} /\ NewIsNew
        /\ ends'[HomeMac].ws = ends[HomeMac].ws
    BY DEF LInv
  <2> QED BY <2>2, <2>3, <2>4, NewStaysNew, Zenon
<1>13. OpenedOnce'
  BY <1>7 DEF LInv, OpenedOnce
<1>14. ConnsAgree'
  <2>1. /\ sockets'[s].up = <<>> /\ sockets'[s].down = <<>>
        /\ ends[HomeMac].ws = s => served = {}
    BY <1>7 DEF LInv, NewIsNew
  <2>2. DOMAIN sockets'[s].down = {}
    BY <2>1
  <2> QED BY <1>8, <2>1, <2>2 DEF ConnsAgree, WillServe
<1> QED BY <1>9, <1>10, <1>11, <1>12, <1>13, <1>14 DEF LInv

(* One more message for the home, or none where it would not arrive.         *)
LEMMA SentHomeRows ==
  ASSUME LinksShape, NEW socks \in [Sockets -> SocketRow], registry.home \in Sockets,
         NEW k \in {"open", "close"}, NEW c \in Sockets
  PROVE  LET h == registry.home
             m == [k |-> k, conn |-> c]
             v == SentHome(socks, k, c) IN
         /\ v \in [Sockets -> SocketRow]
         /\ \A t \in Sockets :
               /\ v[t].near = socks[t].near /\ v[t].far = socks[t].far /\ v[t].up = socks[t].up
               /\ v[t].lost = socks[t].lost /\ v[t].kill = socks[t].kill
               /\ t # h => v[t] = socks[t]
         /\ \/ (socks[h].kill \/ socks[h].near = "closed") /\ v = socks
            \/ v[h].down = Append(socks[h].down, m)
<1> DEFINE h == registry.home
           m == [k |-> k, conn |-> c]
           more == Append(socks[h].down, m)
           w == [socks[h] EXCEPT !.down = more]
           v == SentHome(socks, k, c)
<1>1. CASE socks[h].kill \/ socks[h].near = "closed"
  <2>1. v = socks
    BY <1>1 DEF SentHome
  <2> QED BY <1>1, <2>1
<1>2. CASE ~(socks[h].kill \/ socks[h].near = "closed")
  <2>1. socks[h] \in SocketRow /\ socks[h].down \in Seq(Message)
    BY DEF SocketRow
  <2>2. h # NoSocket
    BY SocketNames
  <2>3. v = [socks EXCEPT ![h] = w]
    BY <1>2, <2>2 DEF SentHome
  <2>4. m \in Message
    BY DEF Message
  <2>5. more \in Seq(Message)
    <3> HIDE DEF m
    <3> QED BY <2>1, <2>4
  <2> HIDE DEF more, v
  <2>6. /\ w \in SocketRow /\ w.far = socks[h].far /\ w.down = more /\ w.up = socks[h].up
        /\ w.near = socks[h].near /\ w.lost = socks[h].lost /\ w.kill = socks[h].kill
    BY <2>1, <2>5 DEF SocketRow
  <2> HIDE DEF w
  <2>7. v \in [Sockets -> SocketRow] /\ v[h] = w /\ \A t \in Sockets : t # h => v[t] = socks[t]
    BY <2>3, <2>6
  <2> QED BY <2>6, <2>7 DEF v, more
<1> QED BY <1>1, <1>2

(* Sockets that differ in the messages for the home alone, and one of them   *)
(* more: what AttachClient and the close of a client have in common.         *)
LEMMA ToldHome ==
  ASSUME LInv, NEW s \in Sockets, s # registry.home, registry.home \in Sockets,
         NEW k \in {"open", "close"},
         NEW socks \in [Sockets -> SocketRow], sockets' = SentHome(socks, k, s),
         \A t \in Sockets \ {s} : socks[t] = sockets[t],
         socks[s].far \in {"open", "gone"}, k = "open" => socks[s].far = "open",
         socks[s].near = sockets[s].near, socks[s].down \in {sockets[s].down, <<>>},
         socks[s].up \in {sockets[s].up, <<>>},
         s[1] # HomeMac,
         k = "open" => sockets[s].far = "none",
         registry'.home = registry.home, registry'.last = registry.last,
         k = "open" => registry'.clients = registry.clients \union {s},
         k = "close" => registry'.clients = registry.clients \ {s},
         registry' \in [home : Sockets \union {NoSocket}, clients : SUBSET Sockets,
                        last : Sockets \union {NoSocket}],
         UNCHANGED <<ends, served>>
  PROVE  LInv'
<1> DEFINE h == registry.home
           m == [k |-> k, conn |-> s]
<1>1. LinksShape /\ NoSocket \notin Sockets /\ sockets[h] = socks[h]
      /\ sockets \in [Sockets -> SocketRow]
      /\ registry \in [home : Sockets \union {NoSocket}, clients : SUBSET Sockets,
                       last : Sockets \union {NoSocket}]
  BY SocketNames DEF LInv, LinksShape
<1>2. /\ sockets' \in [Sockets -> SocketRow]
      /\ \A t \in Sockets :
               /\ sockets'[t].near = socks[t].near /\ sockets'[t].far = socks[t].far
               /\ sockets'[t].up = socks[t].up
               /\ sockets'[t].lost = socks[t].lost /\ sockets'[t].kill = socks[t].kill
               /\ t # h => sockets'[t] = socks[t]
      /\ \/ (sockets[h].kill \/ sockets[h].near = "closed") /\ sockets'[h].down = sockets[h].down
         \/ sockets'[h].down = Append(sockets[h].down, m)
  <2> DEFINE v == SentHome(socks, k, s)
  <2>1. /\ v \in [Sockets -> SocketRow]
        /\ \A t \in Sockets :
              /\ v[t].near = socks[t].near /\ v[t].far = socks[t].far /\ v[t].up = socks[t].up
              /\ v[t].lost = socks[t].lost /\ v[t].kill = socks[t].kill
              /\ t # h => v[t] = socks[t]
        /\ \/ (socks[h].kill \/ socks[h].near = "closed") /\ v = socks
           \/ v[h].down = Append(socks[h].down, m)
    BY <1>1, SentHomeRows
  <2>2. sockets' = v
    OBVIOUS
  <2> HIDE DEF v
  <2> QED BY <1>1, <2>1, <2>2
<1>3. /\ registry'.home = h /\ registry'.last = registry.last
      /\ registry'.clients = IF k = "open" THEN registry.clients \union {s}
                             ELSE registry.clients \ {s}
      /\ registry' \in [home : Sockets \union {NoSocket}, clients : SUBSET Sockets,
                        last : Sockets \union {NoSocket}]
  OBVIOUS
<1>4. LinksShape'
  BY <1>1, <1>2, <1>3 DEF LinksShape
<1>5. m \in Message /\ m.conn = s /\ m.k = k /\ sockets[h].down \in Seq(Message)
  BY <1>1 DEF Message, SocketRow
<1>6. /\ sockets'[h].far = sockets[h].far /\ sockets'[h].up = sockets[h].up
      /\ sockets'[h].lost = sockets[h].lost /\ sockets'[h].kill = sockets[h].kill
      /\ \A t \in Sockets : t # s /\ t # h => sockets'[t] = sockets[t]
      /\ sockets'[s] = socks[s]
  BY <1>1, <1>2
<1>7. HomeStands'
  <2>1. h = registry.last /\ h # NoSocket /\ sockets[h].far = "open" /\ h[1] = HomeMac
    BY <1>1 DEF LInv, HomeStands
  <2> QED BY <1>3, <1>6, <2>1 DEF HomeStands
<1>8. ClientsStand'
  <2>1. ASSUME NEW c \in registry'.clients PROVE c[1] # HomeMac /\ sockets'[c].far = "open"
    <3>1. CASE c = s
      BY <3>1, <1>3, <1>6
    <3>2. CASE c # s
      <4>1. c \in registry.clients /\ c \in Sockets
        BY <3>2, <1>1, <1>3
      <4> QED BY <3>2, <4>1, <1>6 DEF LInv, ClientsStand
    <3> QED BY <3>1, <3>2
  <2> QED BY <2>1, <1>1, <1>3 DEF ClientsStand
<1>9. OwnSocket'
  <2>1. \A t \in Sockets : sockets'[t].near = sockets[t].near
    BY <1>2
  <2> QED BY <1>1, <2>1, OwnStays DEF LInv
<1>10. \A t \in Sockets : Named(sockets'[t]) \subseteq
             Named(sockets[t]) \union (IF t = h THEN {s} ELSE {})
  <2>1. Named(sockets'[s]) \subseteq Named(sockets[s])
    BY <1>6, Nothing DEF Named
  <2>2. Named(sockets'[h]) \subseteq Named(sockets[h]) \union {s}
    <3>1. Range(sockets'[h].down) \subseteq Range(sockets[h].down) \union {m}
      <4> HIDE DEF m
      <4>1. Range(Append(sockets[h].down, m)) = Range(sockets[h].down) \union {m}
        BY <1>5, RangeOfAppend
      <4>2. sockets'[h].down \in {sockets[h].down, Append(sockets[h].down, m)}
        BY <1>2
      <4> QED BY <4>1, <4>2
    <3> HIDE DEF m
    <3> QED BY <3>1, <1>5, <1>6 DEF Named
  <2> QED BY <2>1, <2>2, <1>6
<1>11. NewIsNew'
  <2>1. \A u \in Sockets : sockets'[u].far = "none" => u # s /\ u # h /\ sockets'[u] = sockets[u]
    <3>1. sockets[h].far = "open"
      BY <1>1 DEF LInv, HomeStands
    <3> QED BY <3>1, <1>6
  <2>2. \A u \in Sockets : sockets'[u].far = "none" =>
            /\ sockets[u].far = "none" /\ u \notin {s}
            /\ sockets'[u].up = sockets[u].up /\ sockets'[u].down = sockets[u].down
            /\ ends[HomeMac].ws = u => served' \subseteq served
    BY <2>1
  <2>3. \A t \in Sockets : Named(sockets'[t]) \subseteq Named(sockets[t]) \union {s}
    BY <1>10
  <2> QED BY <2>2, <2>3, NewStaysNew DEF LInv
<1>12. k = "open" => s \notin served /\ \A t \in Sockets : s \notin Named(sockets[t])
  BY DEF LInv, NewIsNew
<1>13. OldAreOut'
  <2>1. \A t \in Sockets : t # h => Named(sockets'[t]) \intersect registry'.clients = {}
    <3> SUFFICES ASSUME NEW t \in Sockets, t # h, NEW c \in Named(sockets'[t]),
                        c \in registry'.clients
                 PROVE  FALSE
      BY Zenon
    <3>1. c \in Named(sockets[t])
      BY <1>10
    <3>2. c \notin registry.clients
      BY <3>1 DEF LInv, OldAreOut
    <3>3. k = "open" /\ c = s
      BY <3>2, <1>3
    <3> QED BY <3>1, <3>3, <1>12
  <2>2. ends[HomeMac].ws # h => served \intersect registry'.clients = {}
    BY <1>3, <1>12 DEF LInv, OldAreOut
  <2> QED BY <1>3, <2>1, <2>2 DEF OldAreOut
<1>14. OpenedOnce'
  <2>1. ASSUME NEW t \in Sockets, sockets'[t].down \in {sockets[t].down, <<>>}
        PROVE  /\ \A i, j \in DOMAIN sockets'[t].down :
                     sockets'[t].down[i].k = "open" /\ sockets'[t].down[j].k = "open"
                     /\ sockets'[t].down[i].conn = sockets'[t].down[j].conn => i = j
               /\ ends'[HomeMac].ws = t =>
                     \A i \in DOMAIN sockets'[t].down :
                        sockets'[t].down[i].k = "open" => sockets'[t].down[i].conn \notin served'
    <3>1. CASE sockets'[t].down = <<>>
      BY <3>1
    <3>2. CASE sockets'[t].down = sockets[t].down
      BY <3>2 DEF LInv, OpenedOnce
    <3> QED BY <2>1, <3>1, <3>2
  <2>2. \A t \in Sockets : t # h => sockets'[t].down \in {sockets[t].down, <<>>}
    BY <1>6
  <2>3. CASE sockets'[h].down = Append(sockets[h].down, m)
    <3> DEFINE d == sockets[h].down
               e == sockets'[h].down
    <3>1. /\ DOMAIN d = 1..Len(d) /\ Len(d) \in Nat /\ DOMAIN e = 1..(Len(d) + 1)
          /\ e[Len(d) + 1] = m /\ \A i \in DOMAIN d : e[i] = d[i]
      <4> HIDE DEF m
      <4>1. LET q == Append(d, m) IN
            /\ DOMAIN d = 1..Len(d) /\ Len(d) \in Nat /\ DOMAIN q = 1..(Len(d) + 1)
            /\ q[Len(d) + 1] = m /\ \A i \in DOMAIN d : q[i] = d[i]
        BY <1>5, AppendedOne, SMTT(30)
      <4> QED BY <4>1, <2>3
    <3>2. k = "open" => \A i \in DOMAIN d : d[i].conn # s
      BY <1>12 DEF Named, Range
    <3>3. \A i, j \in DOMAIN d : d[i].k = "open" /\ d[j].k = "open" /\ d[i].conn = d[j].conn => i = j
      BY DEF LInv, OpenedOnce
    <3>4. ends[HomeMac].ws = h => \A i \in DOMAIN d : d[i].k = "open" => d[i].conn \notin served
      BY DEF LInv, OpenedOnce
    <3> HIDE DEF d, e, m
    <3>5. \A i, j \in DOMAIN e : e[i].k = "open" /\ e[j].k = "open" /\ e[i].conn = e[j].conn => i = j
      BY <1>5, <3>1, <3>2, <3>3
    <3>6. ends[HomeMac].ws = h => \A i \in DOMAIN e : e[i].k = "open" => e[i].conn \notin served
      BY <1>5, <1>12, <3>1, <3>4
    <3> QED BY <2>1, <2>2, <3>5, <3>6 DEF OpenedOnce, e
  <2>4. CASE sockets'[h].down = sockets[h].down
    BY <2>1, <2>2, <2>4 DEF OpenedOnce
  <2> QED BY <2>3, <2>4, <1>2
<1>15. ConnsAgree'
  <2> SUFFICES ASSUME ends[HomeMac].ws = h, ~sockets'[h].lost, ~sockets'[h].kill, NEW c \in Sockets
               PROVE  c \in registry'.clients \ Range(sockets'[h].up)
                         <=> WillServe(served, sockets'[h].down, c)
    BY <1>3 DEF ConnsAgree
  <2>1. HomeMac \in Endpoints /\ h # NoSocket /\ sockets[h].near # "closed"
    BY <1>1, SocketNames DEF LInv, OwnSocket
  <2>2. sockets'[h].down = Append(sockets[h].down, m)
    BY <2>1, <1>2, <1>6
  <2>3. c \in registry.clients \ Range(sockets[h].up) <=> WillServe(served, sockets[h].down, c)
    BY <1>6, <2>1 DEF LInv, ConnsAgree
  <2>4. WillServe(served, sockets'[h].down, c) <=>
            IF c = s THEN k = "open" ELSE WillServe(served, sockets[h].down, c)
    <3> HIDE DEF m
    <3> QED BY <2>2, <1>5, WillServeSent
  <2>5. k = "open" => s \notin Range(sockets[h].up)
    BY <1>12 DEF Named
  <2> QED BY <2>3, <2>4, <2>5, <1>3, <1>6
<1> QED BY <1>4, <1>7, <1>8, <1>9, <1>11, <1>13, <1>14, <1>15 DEF LInv

(* Nobody is told: a socket the relay let in and closed at once, or one that *)
(* was nobody's any more.                                                    *)
LEMMA UnheardKeeps ==
  ASSUME LInv, NEW s \in Sockets, NEW w \in SocketRow, sockets' = [sockets EXCEPT ![s] = w],
         s # registry.home, s \notin registry.clients,
         w.far = "gone" \/ (w.far = "open" /\ s[1] # HomeMac),
         w.down \in {sockets[s].down, <<>>}, w.up \in {sockets[s].up, <<>>},
         sockets[s].near # "closed" => w.near # "closed",
         UNCHANGED <<registry, ends, served>>
  PROVE  LInv'
<1>1. LinksShape /\ NoSocket \notin Sockets
  BY SocketNames DEF LInv, LinksShape
<1>2. /\ sockets' \in [Sockets -> SocketRow] /\ sockets'[s] = w
      /\ \A t \in Sockets \ {s} : sockets'[t] = sockets[t]
  BY <1>1 DEF LinksShape
<1>3. LinksShape'
  BY <1>1, <1>2 DEF LinksShape
<1>4. /\ registry.home \in Sockets \union {NoSocket} /\ registry.last \in Sockets \union {NoSocket}
      /\ registry.clients \subseteq Sockets
  BY <1>1 DEF LinksShape
<1>5. HomeStands' /\ ClientsStand'
  BY <1>2, <1>4 DEF LInv, HomeStands, ClientsStand
<1>6. OwnSocket'
  BY <1>1, <1>2, OwnStays DEF LInv
<1>7. \A t \in Sockets : Named(sockets'[t]) \subseteq Named(sockets[t])
  BY <1>2, Nothing DEF Named
<1>8. NewIsNew'
  <2>1. \A u \in Sockets : sockets'[u].far = "none" => u # s /\ sockets'[u] = sockets[u]
    BY <1>2
  <2>2. \A u \in Sockets : sockets'[u].far = "none" =>
            /\ sockets[u].far = "none" /\ u \notin {}
            /\ sockets'[u].up = sockets[u].up /\ sockets'[u].down = sockets[u].down
            /\ ends[HomeMac].ws = u => served' \subseteq served
    BY <2>1
  <2>3. \A t \in Sockets : Named(sockets'[t]) \subseteq Named(sockets[t]) \union {}
    BY <1>7
  <2>4. /\ served' \subseteq served \union {} /\ NewIsNew
        /\ ends'[HomeMac].ws = ends[HomeMac].ws
    BY DEF LInv
  <2> QED BY <2>2, <2>3, <2>4, NewStaysNew, Zenon
<1>9. OldAreOut'
  BY <1>7 DEF LInv, OldAreOut
<1>10. OpenedOnce'
  <2>1. ASSUME NEW t \in Sockets
        PROVE  /\ \A i, j \in DOMAIN sockets'[t].down :
                     sockets'[t].down[i].k = "open" /\ sockets'[t].down[j].k = "open"
                     /\ sockets'[t].down[i].conn = sockets'[t].down[j].conn => i = j
               /\ ends'[HomeMac].ws = t =>
                     \A i \in DOMAIN sockets'[t].down :
                        sockets'[t].down[i].k = "open" => sockets'[t].down[i].conn \notin served'
    <3>1. CASE sockets'[t].down = <<>>
      BY <3>1
    <3>2. CASE sockets'[t].down = sockets[t].down
      BY <3>2 DEF LInv, OpenedOnce
    <3> QED BY <1>2, <3>1, <3>2
  <2> QED BY <2>1 DEF OpenedOnce
<1>11. ConnsAgree'
  BY <1>2, <1>4 DEF LInv, ConnsAgree
<1> QED BY <1>3, <1>5, <1>6, <1>8, <1>9, <1>10, <1>11 DEF LInv

LEMMA AttachClientKeeps ==
  ASSUME LInv, NEW s \in Sockets, sockets[s].far = "none", s[1] # HomeMac, AttachClient(s),
         UNCHANGED <<ends, served>>
  PROVE  LInv'
<1>1. LinksShape /\ NoSocket \notin Sockets /\ sockets[s] \in SocketRow
  BY SocketNames DEF LInv, LinksShape
<1>2. s # registry.home /\ s \notin registry.clients
  BY <1>1 DEF LInv, HomeStands, ClientsStand
<1>3. CASE registry.home = NoSocket
  <2> DEFINE w == [sockets[s] EXCEPT !.far = "open", !.kill = TRUE]
  <2>1. /\ w \in SocketRow /\ w.far = "open" /\ w.down = sockets[s].down /\ w.up = sockets[s].up
        /\ w.near = sockets[s].near
    BY <1>1 DEF SocketRow
  <2>2. sockets' = [sockets EXCEPT ![s] = w] /\ registry' = registry
    BY <1>1, <1>3 DEF AttachClient, LinksShape
  <2> HIDE DEF w
  <2> QED BY <1>2, <2>1, <2>2, UnheardKeeps
<1>4. CASE registry.home # NoSocket
  <2> DEFINE w == [sockets[s] EXCEPT !.far = "open"]
             socks == [sockets EXCEPT ![s] = w]
  <2>1. /\ w \in SocketRow /\ w.far = "open" /\ w.down = sockets[s].down /\ w.up = sockets[s].up
        /\ w.near = sockets[s].near
    BY <1>1 DEF SocketRow
  <2>2. sockets' = SentHome(socks, "open", s)
        /\ registry' = [registry EXCEPT !.clients = @ \union {s}]
    BY <1>4 DEF AttachClient
  <2> HIDE DEF w
  <2>3. /\ socks \in [Sockets -> SocketRow] /\ socks[s] = w
        /\ \A t \in Sockets \ {s} : socks[t] = sockets[t]
    BY <1>1, <2>1 DEF LinksShape
  <2>4. /\ registry'.home = registry.home /\ registry'.last = registry.last
        /\ registry'.clients = registry.clients \union {s}
        /\ registry' \in [home : Sockets \union {NoSocket}, clients : SUBSET Sockets,
                          last : Sockets \union {NoSocket}]
        /\ registry.home \in Sockets
    BY <1>1, <1>4, <2>2 DEF LinksShape
  <2> HIDE DEF socks
  <2> QED BY <1>2, <2>1, <2>2, <2>3, <2>4, ToldHome
<1> QED BY <1>3, <1>4

LEMMA AcceptKeeps == ASSUME LInv, NEW s \in Sockets, Accept(s) PROVE LInv'
  BY AttachHomeKeeps, AttachClientKeeps DEF Accept

(* The socket as the relay leaves it.                                        *)
LEMMA LeftRow ==
  ASSUME LinksShape, NEW s \in Sockets
  PROVE  \E w \in SocketRow :
            /\ LeftTo(sockets, s) = [sockets EXCEPT ![s] = w]
            /\ w.far = "gone" /\ w.down \in {sockets[s].down, <<>>} /\ w.up \in {sockets[s].up, <<>>}
            /\ w.near = sockets[s].near
<1>1. sockets[s] \in SocketRow /\ s \in DOMAIN sockets
  BY DEF LinksShape
<1>2. CASE sockets[s].near = "closed"
  <2>1. /\ Unused \in SocketRow /\ Unused.far = "gone" /\ Unused.down = <<>> /\ Unused.up = <<>>
        /\ Unused.near = "closed"
    BY DEF Unused, SocketRow
  <2>2. LeftTo(sockets, s) = [sockets EXCEPT ![s] = Unused]
    BY <1>1, <1>2 DEF LeftTo
  <2> QED BY <1>2, <2>1, <2>2
<1>3. CASE sockets[s].near # "closed"
  <2> DEFINE w == [sockets[s] EXCEPT !.far = "gone"]
  <2>1. /\ w \in SocketRow /\ w.far = "gone" /\ w.down = sockets[s].down /\ w.up = sockets[s].up
        /\ w.near = sockets[s].near
    BY <1>1 DEF SocketRow
  <2>2. LeftTo(sockets, s) = [sockets EXCEPT ![s] = w]
    BY <1>1, <1>3 DEF LeftTo
  <2> HIDE DEF w
  <2> QED BY <2>1, <2>2
<1> QED BY <1>2, <1>3

(* detachHome: the home is gone, and its clients with it.                    *)
LEMMA HomeGoneKeeps ==
  ASSUME LInv, NEW s \in Sockets, s = registry.home,
         sockets' = Killed(LeftTo(sockets, s), registry.clients),
         registry' = [registry EXCEPT !.home = NoSocket, !.clients = {}], UNCHANGED <<ends, served>>
  PROVE  LInv'
<1>1. LinksShape /\ NoSocket \notin Sockets
  BY SocketNames DEF LInv, LinksShape
<1>2. PICK w \in SocketRow :
            /\ LeftTo(sockets, s) = [sockets EXCEPT ![s] = w]
            /\ w.far = "gone" /\ w.down \in {sockets[s].down, <<>>} /\ w.up \in {sockets[s].up, <<>>}
            /\ w.near = sockets[s].near
  BY <1>1, LeftRow
<1> DEFINE gone == [sockets EXCEPT ![s] = w]
<1>3. /\ gone \in [Sockets -> SocketRow] /\ gone[s] = w
      /\ \A t \in Sockets \ {s} : gone[t] = sockets[t]
  BY <1>1 DEF LinksShape
<1>4. sockets' = Killed(gone, registry.clients)
  BY <1>2
<1> HIDE DEF gone
<1>5. /\ sockets' \in [Sockets -> SocketRow]
      /\ \A t \in Sockets :
               /\ sockets'[t].near = gone[t].near /\ sockets'[t].far = gone[t].far
               /\ sockets'[t].up = gone[t].up /\ sockets'[t].down = gone[t].down
  BY <1>3, <1>4, KilledRows
<1>5a. /\ sockets'[s].near = sockets[s].near /\ sockets'[s].far = "gone"
       /\ sockets'[s].up \in {sockets[s].up, <<>>}
       /\ sockets'[s].down \in {sockets[s].down, <<>>}
  <2>1. /\ sockets'[s].near = w.near /\ sockets'[s].far = w.far
        /\ sockets'[s].up = w.up /\ sockets'[s].down = w.down
    BY <1>3, <1>5
  <2> QED BY <1>2, <2>1
<1>5b. ASSUME NEW t \in Sockets, t # s
       PROVE  /\ sockets'[t].near = sockets[t].near /\ sockets'[t].far = sockets[t].far
              /\ sockets'[t].up = sockets[t].up /\ sockets'[t].down = sockets[t].down
  BY <1>3, <1>5, <1>5b
<1>6. /\ registry'.home = NoSocket /\ registry'.last = registry.last /\ registry'.clients = {}
      /\ registry' \in [home : Sockets \union {NoSocket}, clients : SUBSET Sockets,
                        last : Sockets \union {NoSocket}]
  BY <1>1 DEF LinksShape
<1>7. LinksShape'
  BY <1>1, <1>5, <1>6 DEF LinksShape
<1>8. HomeStands'
  <2>1. s = registry.last /\ s[1] = HomeMac /\ s # NoSocket
    BY <1>1 DEF LInv, HomeStands
  <2>2. sockets'[s].far = "gone"
    BY <1>5a
  <2> QED BY <1>6, <2>1, <2>2 DEF HomeStands
<1>9. ClientsStand' /\ OldAreOut'
  BY <1>6 DEF ClientsStand, OldAreOut
<1>10. OwnSocket'
  <2>1. \A t \in Sockets : sockets'[t].near = sockets[t].near
    BY <1>5a, <1>5b
  <2> QED BY <1>1, <2>1, OwnStays DEF LInv
<1>11. \A t \in Sockets : Named(sockets'[t]) \subseteq Named(sockets[t])
  <2>1. \A t \in Sockets : sockets'[t].up \in {sockets[t].up, <<>>}
                           /\ sockets'[t].down \in {sockets[t].down, <<>>}
    BY <1>5a, <1>5b
  <2> QED BY <2>1, Nothing DEF Named
<1>12. NewIsNew'
  <2>1. \A u \in Sockets : sockets'[u].far = "none" =>
            /\ sockets[u].far = "none" /\ u \notin {}
            /\ sockets'[u].up = sockets[u].up /\ sockets'[u].down = sockets[u].down
            /\ ends[HomeMac].ws = u => served' \subseteq served
    BY <1>5a, <1>5b
  <2>2. \A t \in Sockets : Named(sockets'[t]) \subseteq Named(sockets[t]) \union {}
    BY <1>11
  <2>3. /\ served' \subseteq served \union {} /\ NewIsNew
        /\ ends'[HomeMac].ws = ends[HomeMac].ws
    BY DEF LInv
  <2> QED BY <2>1, <2>2, <2>3, NewStaysNew, Zenon
<1>13. OpenedOnce'
  <2>1. ASSUME NEW t \in Sockets
        PROVE  /\ \A i, j \in DOMAIN sockets'[t].down :
                     sockets'[t].down[i].k = "open" /\ sockets'[t].down[j].k = "open"
                     /\ sockets'[t].down[i].conn = sockets'[t].down[j].conn => i = j
               /\ ends'[HomeMac].ws = t =>
                     \A i \in DOMAIN sockets'[t].down :
                        sockets'[t].down[i].k = "open" => sockets'[t].down[i].conn \notin served'
    <3>1. CASE sockets'[t].down = <<>>
      BY <3>1
    <3>2. CASE sockets'[t].down = sockets[t].down
      BY <3>2 DEF LInv, OpenedOnce
    <3> QED BY <1>5a, <1>5b, <3>1, <3>2
  <2> QED BY <2>1 DEF OpenedOnce
<1>14. ConnsAgree'
  BY <1>6 DEF ConnsAgree
<1> QED BY <1>7, <1>8, <1>9, <1>10, <1>12, <1>13, <1>14 DEF LInv

LEMMA FarCloseKeeps == ASSUME LInv, NEW s \in Sockets, FarClose(s) PROVE LInv'
<1>1. LinksShape /\ NoSocket \notin Sockets /\ UNCHANGED <<ends, served>>
  BY SocketNames DEF LInv, LinksShape, FarClose
<1>2. PICK w \in SocketRow :
            /\ LeftTo(sockets, s) = [sockets EXCEPT ![s] = w]
            /\ w.far = "gone" /\ w.down \in {sockets[s].down, <<>>} /\ w.up \in {sockets[s].up, <<>>}
            /\ w.near = sockets[s].near
  BY <1>1, LeftRow
<1>3. s = registry.home => s[1] = HomeMac
  BY <1>1 DEF LInv, HomeStands
<1>4. s \in registry.clients => s[1] # HomeMac /\ registry.home # NoSocket
  BY DEF LInv, ClientsStand
<1>5. CASE s[1] = HomeMac /\ s = registry.home
  <2>1. /\ sockets' = Killed(LeftTo(sockets, s), registry.clients)
        /\ registry' = [registry EXCEPT !.home = NoSocket, !.clients = {}]
    <3>1. s[1] = HomeMac /\ DetachHome(s) /\ s \notin registry.clients
      BY <1>4, <1>5 DEF DetachHome
    <3> QED BY <3>1 DEF FarClose
  <2> QED BY <1>1, <1>5, <2>1, HomeGoneKeeps
<1>6. CASE s # registry.home /\ s \in registry.clients
  <2>1. /\ sockets' = SentHome(LeftTo(sockets, s), "close", s)
        /\ registry' = [registry EXCEPT !.clients = @ \ {s}]
    BY <1>4, <1>6 DEF FarClose, DetachHome
  <2> DEFINE socks == [sockets EXCEPT ![s] = w]
  <2>2. /\ socks \in [Sockets -> SocketRow] /\ socks[s] = w
        /\ \A t \in Sockets \ {s} : socks[t] = sockets[t]
    BY <1>1 DEF LinksShape
  <2>3. sockets' = SentHome(socks, "close", s)
    BY <1>2, <2>1
  <2>4. /\ registry'.home = registry.home /\ registry'.last = registry.last
        /\ registry'.clients = registry.clients \ {s}
        /\ registry' \in [home : Sockets \union {NoSocket}, clients : SUBSET Sockets,
                          last : Sockets \union {NoSocket}]
        /\ registry.home \in Sockets
    BY <1>1, <1>4, <1>6, <2>1 DEF LinksShape
  <2> HIDE DEF socks
  <2> QED BY <1>1, <1>2, <1>4, <1>6, <2>2, <2>3, <2>4, ToldHome
<1>7. CASE s # registry.home /\ s \notin registry.clients
  <2>1. sockets' = LeftTo(sockets, s) /\ registry' = registry
    BY <1>7 DEF FarClose, DetachHome
  <2> QED BY <1>1, <1>2, <1>7, <2>1, UnheardKeeps
<1> QED BY <1>3, <1>5, <1>6, <1>7

LEMMA HomeMessageKeeps == ASSUME LInv, NEW s \in Sockets, HomeMessage(s) PROVE LInv'
<1> DEFINE c == Head(sockets[s].up)
           rest == Tail(sockets[s].up)
           K == registry.clients \intersect {c}
           mid == Killed(sockets, K)
           w == [mid[s] EXCEPT !.up = rest]
<1>1. LinksShape /\ NoSocket \notin Sockets /\ sockets \in [Sockets -> SocketRow]
      /\ UNCHANGED <<ends, served>>
  BY SocketNames DEF LInv, LinksShape, HomeMessage
<1>2. sockets[s].up \in Seq(Sockets) /\ sockets[s].up # <<>> /\ sockets[s].far = "open"
  BY <1>1 DEF SocketRow, HomeMessage
<1>3. /\ rest \in Seq(Sockets) /\ c \in Sockets
      /\ Range(sockets[s].up) = Range(rest) \union {c}
  BY <1>2, RangeOfTail
<1>4. /\ mid \in [Sockets -> SocketRow]
      /\ \A t \in Sockets :
               /\ mid[t].near = sockets[t].near /\ mid[t].far = sockets[t].far
               /\ mid[t].lost = sockets[t].lost
               /\ mid[t].up = sockets[t].up /\ mid[t].down = sockets[t].down
               /\ sockets[t].kill => mid[t].kill
  <2> HIDE DEF K
  <2> QED BY <1>1, KilledRows
<1>5. /\ sockets' = [mid EXCEPT ![s].up = Tail(@)]
      /\ registry' = [registry EXCEPT !.clients = @ \ {c}]
  BY DEF HomeMessage
<1> HIDE DEF K, mid
<1>6. sockets' = [mid EXCEPT ![s] = w]
  BY <1>4, <1>5
<1> HIDE DEF c, rest
<1>6a. mid[s] \in SocketRow /\ rest \in Seq(Sockets)
  BY <1>3, <1>4
<1>7. /\ w \in SocketRow /\ w.far = mid[s].far /\ w.near = mid[s].near /\ w.lost = mid[s].lost
      /\ w.kill = mid[s].kill /\ w.up = rest /\ w.down = mid[s].down
  BY <1>6a DEF SocketRow
<1> HIDE DEF w
<1>8. /\ sockets' \in [Sockets -> SocketRow] /\ sockets'[s] = w
      /\ \A t \in Sockets \ {s} : sockets'[t] = mid[t]
  BY <1>4, <1>6, <1>7
<1>9. \A t \in Sockets :
         /\ sockets'[t].near = sockets[t].near /\ sockets'[t].far = sockets[t].far
         /\ sockets'[t].lost = sockets[t].lost /\ sockets'[t].down = sockets[t].down
         /\ sockets[t].kill => sockets'[t].kill
         /\ t # s => sockets'[t].up = sockets[t].up
  BY <1>4, <1>7, <1>8
<1>10. sockets'[s].up = rest
  BY <1>7, <1>8
<1>11. \A t \in Sockets : Named(sockets'[t]) \subseteq Named(sockets[t])
  BY <1>3, <1>9, <1>10 DEF Named
<1>12. /\ registry'.home = registry.home /\ registry'.last = registry.last
       /\ registry'.clients = registry.clients \ {c}
       /\ registry' \in [home : Sockets \union {NoSocket}, clients : SUBSET Sockets,
                         last : Sockets \union {NoSocket}]
  BY <1>1, <1>5 DEF LinksShape
<1>13. LinksShape'
  BY <1>1, <1>8, <1>12 DEF LinksShape
<1>14. /\ registry.home \in Sockets \union {NoSocket} /\ registry.last \in Sockets \union {NoSocket}
       /\ registry.clients \subseteq Sockets
  BY <1>1 DEF LinksShape
<1>15. HomeStands' /\ ClientsStand'
  BY <1>9, <1>12, <1>14 DEF LInv, HomeStands, ClientsStand
<1>16. OwnSocket'
  BY <1>1, <1>9, OwnStays DEF LInv
<1>17. NewIsNew'
  <2>1. \A u \in Sockets : sockets'[u].far = "none" =>
            /\ sockets[u].far = "none" /\ u \notin {}
            /\ sockets'[u].up = sockets[u].up /\ sockets'[u].down = sockets[u].down
            /\ ends[HomeMac].ws = u => served' \subseteq served
    BY <1>1, <1>2, <1>9
  <2>2. \A t \in Sockets : Named(sockets'[t]) \subseteq Named(sockets[t]) \union {}
    BY <1>11
  <2>3. /\ served' \subseteq served \union {} /\ NewIsNew
        /\ ends'[HomeMac].ws = ends[HomeMac].ws
    BY <1>1 DEF LInv
  <2> QED BY <2>1, <2>2, <2>3, NewStaysNew, Zenon
<1>18. OldAreOut'
  BY <1>1, <1>11, <1>12 DEF LInv, OldAreOut
<1>19. OpenedOnce'
  BY <1>1, <1>9 DEF LInv, OpenedOnce
<1>20. ConnsAgree'
  <2> DEFINE h == registry.home
  <2> SUFFICES ASSUME h # NoSocket, ends[HomeMac].ws = h, ~sockets'[h].lost, ~sockets'[h].kill,
                      NEW d \in Sockets
               PROVE  d \in registry'.clients \ Range(sockets'[h].up)
                         <=> WillServe(served, sockets'[h].down, d)
    BY <1>1, <1>12 DEF ConnsAgree
  <2>1. h \in Sockets /\ ~sockets[h].lost /\ ~sockets[h].kill /\ sockets'[h].down = sockets[h].down
    BY <1>9, <1>14
  <2>2. d \in registry.clients \ Range(sockets[h].up) <=> WillServe(served, sockets[h].down, d)
    BY <2>1 DEF LInv, ConnsAgree
  <2>3. CASE s = h
    BY <2>1, <2>2, <2>3, <1>3, <1>10, <1>12
  <2>4. CASE s # h
    <3>1. c \notin registry.clients
      BY <2>4, <1>3 DEF LInv, OldAreOut, Named
    <3>2. sockets'[h].up = sockets[h].up
      BY <2>1, <2>4, <1>9
    <3> QED BY <2>1, <2>2, <3>1, <3>2, <1>12
  <2> QED BY <2>3, <2>4
<1> QED BY <1>13, <1>15, <1>16, <1>17, <1>18, <1>19, <1>20 DEF LInv

----------------------------------------------------------------------------
LEMMA StepKeepsLInv == LInv /\ [RlNext]_rlVars => LInv'
<1> SUFFICES ASSUME LInv, [RlNext]_rlVars PROVE LInv'
  OBVIOUS
<1>1. CASE UNCHANGED rlVars
  BY <1>1 DEF rlVars, LInv, LinksShape, HomeStands, ClientsStand, OwnSocket, NewIsNew, OldAreOut,
              OpenedOnce, ConnsAgree
<1>2. ASSUME NEW x \in Endpoints, Dials(x) \/ Nudge(x) \/ Stop(x) PROVE LInv'
  BY <1>2, RetryFiresKeeps, TokenArrivesKeeps, NudgeKeeps, StopKeeps DEF Dials
<1>3. CASE Start
  BY <1>3, StartKeeps
<1>4. ASSUME NEW s \in Sockets, Proceeds(s) PROVE LInv'
  BY <1>4, OpenEventKeeps, CloseEventKeeps, BridgeHearsKeeps, AcceptKeeps, AbandonedKeeps,
     FarCloseKeeps, HomeMessageKeeps DEF Proceeds
<1>5. ASSUME NEW s \in Sockets, Refused(s) \/ BridgeDrops(s) \/ Breaks(s) PROVE LInv'
  BY <1>5, RefusedKeeps, BridgeDropsKeeps, BreaksKeeps
<1> QED BY <1>1, <1>2, <1>3, <1>4, <1>5 DEF RlNext

(* Every reachable state of the relay's sockets satisfies the inductive      *)
(* invariant.                                                                *)
THEOREM LInvHolds == RlSpec => []LInv
  BY InitLInv, StepKeepsLInv, PTL DEF RlSpec

(* The late close of a home socket that was replaced never puts its          *)
(* successor out: the registry serves the last home that attached, until     *)
(* detachHome has seen that very socket close.                               *)
THEOREM HomeIsNewestAlways == RlSpec => []HomeIsNewest
<1>1. LInv => HomeIsNewest
  BY DEF LInv, HomeStands, HomeIsNewest
<1> QED BY <1>1, LInvHolds, PTL

(* However sockets are replaced, refused, dropped and dialled again, the     *)
(* clients of the registry are those the home bridge serves, or will when it *)
(* has heard the opens and closes on their way.                              *)
THEOREM ConnsAgreeAlways == RlSpec => []ConnsAgree
<1>1. LInv => ConnsAgree
  BY DEF LInv
<1> QED BY <1>1, LInvHolds, PTL

(* ---- the relayed terminal: what holds between its queues and devices ---- *)

Asked == [k : {"attach", "spawn"}, since : Nat, id : Nat]

UpFrames == CtlRequests \union {Announce, Hangup}

PipeRow == [up : Seq(UpFrames), down : Seq(Frames)]

BridgeRow == [used : BOOLEAN, open : BOOLEAN, sub : {"none", "live", "dud"},
              queue : Seq(CtlRequests)]

AwayRow == [conn : {0} \union Calls, listening : BOOLEAN, count : Nat, pend : Seq(Asked),
            waiting : Nat, shown : SUBSET Nat, from : Nat, failed : BOOLEAN, over : BOOLEAN]

HomeShape ==
    /\ sim \in [shell : BOOLEAN, total : 0..MaxOutput, seat : BOOLEAN, moves : Nat,
                stray : BOOLEAN]
    /\ bridge \in [Calls -> BridgeRow]
    /\ pipe \in [Calls -> PipeRow]
    /\ away \in [Aways -> AwayRow]
    /\ asks \in Nat

(* Connections are made one after the other, each for one device.           *)
CallsInOrder ==
    /\ \E n \in 0..MaxDials : {c \in Calls : bridge[c].used} = 1..n
    /\ \A d, e \in Aways : away[d].conn # 0 /\ away[d].conn = away[e].conn => d = e

(* Only the request that greets asks from an offset.                        *)
FromStart(s) == \A r \in Range(s) : r.k = "attach" /\ r.id # 0 => r.since = 0

(* A new connection is blank.  Bytes on their way were put out, and an      *)
(* answer on its way has a shell behind it.                                 *)
CallStands(c) ==
    /\ ~bridge[c].used => /\ bridge[c].sub = "none" /\ bridge[c].queue = <<>>
                          /\ pipe[c].down = <<>> /\ pipe[c].up = <<>>
    /\ FromStart(bridge[c].queue) /\ FromStart(pipe[c].up)
    /\ \A x \in Range(pipe[c].down) :
          /\ x.k = "data" => Range(x.bytes) \subseteq 1..sim.total
          /\ x.k \in {"attached", "spawned"} => sim.shell

Connected(d) ==
    /\ away[d].shown \subseteq 1..sim.total
    /\ away[d].listening => sim.shell
    /\ away[d].conn # 0 =>
          /\ bridge[away[d].conn].used
          /\ \A r \in Range(pipe[away[d].conn].up) : r.k # "close"

(* A device waits for one request at most beside the one that greets.       *)
PendStands(d) ==
    LET a == away[d] IN
    /\ a.conn = 0 => a.pend = <<>> /\ a.waiting = 0
    /\ \A r \in Range(a.pend) :
          /\ r.id # 0 => r.id = a.waiting
          /\ r.id = 0 => r.k = "attach"
          /\ r.k = "spawn" => ~a.listening
    /\ \A i, j \in 1..Len(a.pend) : a.pend[i].id # 0 /\ a.pend[j].id # 0 => i = j

(* A device that has not listened yet owes nothing and announces nothing.   *)
NothingYet(d) ==
    ~away[d].listening =>
        /\ away[d].from = NothingOwed
        /\ away[d].conn # 0 => \A r \in Range(pipe[away[d].conn].up) : r.k # "announce"

(* A greeting on its way, nothing of the connection served.                 *)
Greets(d) ==
    LET c == away[d].conn
        u == pipe[c].up IN
    /\ bridge[c].queue = <<>> /\ pipe[c].down = <<>>
    /\ Len(u) >= 2 /\ u[1].k = "announce" /\ u[2].k = "attach"
    /\ away[d].over \/ u[2].since <= away[d].from \/ u[2].since <= sim.total

GreetsFirst(d) ==
    /\ away[d].conn # 0 /\ away[d].listening /\ bridge[away[d].conn].sub = "none"
    /\ away[d].from # NothingOwed
    => Greets(d)

(* A frame stands for a request.                                            *)
Fits(r, x) == x.id = r.id /\ x.k \in {r.k, Expected[r.k], "error"}

Line(d) ==
    LET c == away[d].conn IN
    Awaited(pipe[c].down) \o Awaited(bridge[c].queue) \o Awaited(pipe[c].up)

InLine(p, s) == Len(p) = Len(s) /\ \A i \in 1..Len(p) : Fits(p[i], s[i])

RepliesFit(d) == sim.stray \/ (away[d].conn # 0 => InLine(away[d].pend, Line(d)))

(* A byte is shown or on its way to be.                                     *)
Shows(d, b) ==
    \/ b \in away[d].shown
    \/ \E x \in Range(pipe[away[d].conn].down) : x.k = "data" /\ b \in Range(x.bytes)

TurnedDown(d, ids) ==
    \E x \in Range(pipe[away[d].conn].down) : x.k = "error" /\ x.id \in ids

(* A replay that brings the byte is asked for, by one of the requests.      *)
AsksIn(s, b, ids) == \E r \in Range(s) : r.k = "attach" /\ r.since < b /\ r.id \in ids

Coming(d, b, ids) ==
    LET c == away[d].conn IN
    \/ Shows(d, b) \/ TurnedDown(d, ids)
    \/ AsksIn(bridge[c].queue, b, ids) \/ AsksIn(pipe[c].up, b, ids)

Follows(d) == /\ away[d].conn # 0 /\ away[d].listening
              /\ bridge[away[d].conn].sub # "dud"

Attaching(d) == \E r \in Range(away[d].pend) : r.k = "attach" /\ r.id # 0

OwedIsComing(d) ==
    sim.stray \/ (Follows(d) => \A b \in Owed(d) :
        /\ ~away[d].failed /\ ~away[d].over => Coming(d, b, Nat)
        /\ Attaching(d) => Coming(d, b, {away[d].waiting}))

DeviceStands(d) ==
    Connected(d) /\ PendStands(d) /\ NothingYet(d) /\ GreetsFirst(d) /\ RepliesFit(d)
    /\ OwedIsComing(d)

HomeInv ==
    /\ HomeShape /\ CallsInOrder
    /\ ~sim.shell => sim.total = 0
    /\ \A c \in Calls : CallStands(c)
    /\ \A d \in Aways : DeviceStands(d)

(* ---- what is left of a queue ---- *)

LEMMA LeastNumber ==
  ASSUME NEW T \in SUBSET Nat, T # {}
  PROVE  \E n \in T : \A m \in T : n <= m
<1>1. IsWellFoundedOn(OpToRel(<, Nat), Nat)
  BY NatLessThanWellFounded
<1>2. PICK n \in T : \A m \in T : ~(<<m, n>> \in OpToRel(<, Nat))
  BY <1>1, WFMin
<1>3. \A m \in T : ~(m < n)
  BY <1>2 DEF OpToRel
<1> QED BY <1>3

(* Induction up to n, over a set of numbers.                                 *)
LEMMA UpTo ==
  ASSUME NEW n \in Nat, NEW S, 0 \in S, \A m \in 0..n : m < n /\ m \in S => m + 1 \in S
  PROVE  0..n \subseteq S
<1> DEFINE T == {m \in 0..n : m \notin S}
<1>1. T \subseteq Nat /\ \A m \in T : m \in 0..n /\ m \notin S
  OBVIOUS
<1>2. \A m \in 0..n : m \notin S => m \in T
  OBVIOUS
<1> HIDE DEF T
<1>3. ASSUME T # {} PROVE FALSE
  <2>1. PICK m \in T : \A l \in T : m <= l
    BY <1>1, <1>3, LeastNumber
  <2>2. m \in 0..n /\ m # 0
    BY <1>1, <2>1
  <2>3. m - 1 \in 0..n /\ m - 1 < n /\ m - 1 \notin T
    BY <2>1, <2>2, <1>1
  <2>4. m - 1 \in S
    BY <1>2, <2>3
  <2>5. (m - 1) + 1 \in S
    BY <2>3, <2>4
  <2> QED BY <1>1, <2>1, <2>2, <2>5
<1> QED BY <1>2, <1>3

(* One step of the sifting of a queue.                                       *)
Sifted(before, x) == IF Awaitable(x) THEN Append(before, x) ELSE before

(* f holds what is left of the beginnings of s, up to the k-th frame.        *)
IsSift(f, s, k) == f = [n \in 0..k |-> IF n = 0 THEN <<>> ELSE Sifted(f[n-1], s[n])]

LEMMA SiftSteps ==
  ASSUME NEW k \in Nat, NEW s, NEW f, NEW g, f = [n \in 0..k |-> g[n]], g[0] = <<>>,
         \A n \in 1..k : g[n] = Sifted(g[n-1], s[n])
  PROVE  IsSift(f, s, k)
<1>1. \A n \in 0..k : f[n] = IF n = 0 THEN <<>> ELSE Sifted(f[n-1], s[n])
  OBVIOUS
<1>2. f = [n \in 0..k |-> f[n]]
  OBVIOUS
<1> QED BY <1>1, <1>2 DEF IsSift

LEMMA SiftExists ==
  ASSUME NEW S, NEW s \in Seq(S), NEW k \in 0..Len(s)
  PROVE  \E f : IsSift(f, s, k) /\ \A n \in 0..k : f[n] \in Seq(S)
<1> DEFINE K == {m \in 0..Len(s) : \E f : IsSift(f, s, m) /\ \A n \in 0..m : f[n] \in Seq(S)}
<1>1. 0 \in K
  <2> DEFINE f == [n \in 0..0 |-> <<>>]
  <2>1. IsSift(f, s, 0)
    BY DEF IsSift
  <2> QED BY <2>1
<1>2. ASSUME NEW m \in 0..Len(s), m < Len(s), m \in K PROVE m + 1 \in K
  <2>1. PICK f : IsSift(f, s, m) /\ \A n \in 0..m : f[n] \in Seq(S)
    BY <1>2
  <2> DEFINE g == [n \in 0..(m + 1) |-> IF n = m + 1 THEN Sifted(f[m], s[m+1]) ELSE f[n]]
  <2>2. m \in Nat /\ m + 1 \in 1..Len(s) /\ s[m+1] \in S
    BY <1>2
  <2>3. \A n \in 0..m : f[n] = IF n = 0 THEN <<>> ELSE Sifted(f[n-1], s[n])
    BY <2>1 DEF IsSift
  <2>4. g[0] = <<>> /\ \A n \in 1..(m + 1) : g[n] = Sifted(g[n-1], s[n])
    BY <2>2, <2>3
  <2>5. \A n \in 0..(m + 1) : g[n] \in Seq(S)
    BY <2>1, <2>2 DEF Sifted
  <2>6. g = [n \in 0..(m + 1) |-> g[n]] /\ m + 1 \in Nat
    BY <2>2
  <2> HIDE DEF g
  <2>7. IsSift(g, s, m + 1)
    BY <2>4, <2>6, SiftSteps
  <2> QED BY <2>2, <2>5, <2>7
<1> HIDE DEF K
<1>3. k \in K
  BY <1>1, <1>2, UpTo
<1> QED BY <1>3 DEF K

LEMMA SiftDecides ==
  ASSUME NEW S, NEW s \in Seq(S), NEW f, IsSift(f, s, Len(s))
  PROVE  Awaited(s) = f[Len(s)]
<1> DEFINE upTo == CHOOSE upTo : upTo = [n \in 0..Len(s) |->
          IF n = 0 THEN <<>>
          ELSE IF Awaitable(s[n]) THEN Append(upTo[n-1], s[n])
          ELSE upTo[n-1]]
<1>1. upTo = [n \in 0..Len(s) |->
          IF n = 0 THEN <<>>
          ELSE IF Awaitable(s[n]) THEN Append(upTo[n-1], s[n])
          ELSE upTo[n-1]]
  BY DEF IsSift, Sifted
<1>2. Awaited(s) = upTo[Len(s)]
  BY Zenon DEF Awaited
<1> HIDE DEF upTo
<1>3. PICK g : g = upTo
  OBVIOUS
<1>4. \A n \in 0..Len(s) : g[n] = IF n = 0 THEN <<>> ELSE Sifted(g[n-1], s[n])
  BY <1>1, <1>3 DEF Sifted
<1>5. \A n \in 0..Len(s) : f[n] = IF n = 0 THEN <<>> ELSE Sifted(f[n-1], s[n])
  BY DEF IsSift
<1> DEFINE K == {n \in 0..Len(s) : g[n] = f[n]}
<1>6. 0 \in K
  BY <1>4, <1>5
<1>7. ASSUME NEW m \in 0..Len(s), m < Len(s), m \in K PROVE m + 1 \in K
  <2>1. m + 1 \in 0..Len(s) /\ m + 1 # 0 /\ (m + 1) - 1 = m /\ g[m] = f[m]
    BY <1>7
  <2>2. g[m+1] = Sifted(g[m], s[m+1]) /\ f[m+1] = Sifted(f[m], s[m+1])
    BY <1>4, <1>5, <2>1
  <2> QED BY <2>1, <2>2
<1>8. \A n \in K : g[n] = f[n]
  OBVIOUS
<1> HIDE DEF K
<1>9. Len(s) \in Nat /\ 0..Len(s) \subseteq K
  <2>1. Len(s) \in Nat
    OBVIOUS
  <2> QED BY <1>6, <1>7, <2>1, UpTo
<1>10. Len(s) \in K
  BY <1>9
<1> QED BY <1>2, <1>3, <1>8, <1>10

LEMMA AwaitedEmpty == Awaited(<<>>) = <<>>
<1>1. <<>> \in Seq({}) /\ Len(<<>>) = 0
  OBVIOUS
<1> DEFINE f == [n \in 0..0 |-> <<>>]
<1>2. IsSift(f, <<>>, Len(<<>>)) /\ f[Len(<<>>)] = <<>>
  BY <1>1 DEF IsSift
<1> HIDE DEF f
<1> QED BY <1>1, <1>2, SiftDecides

LEMMA AwaitedSeq ==
  ASSUME NEW S, NEW s \in Seq(S)
  PROVE  Awaited(s) \in Seq(S)
<1>1. PICK f : IsSift(f, s, Len(s)) /\ \A n \in 0..Len(s) : f[n] \in Seq(S)
  BY SiftExists
<1> QED BY <1>1, SiftDecides

LEMMA AwaitedAppend ==
  ASSUME NEW S, NEW s \in Seq(S), NEW x \in S
  PROVE  Awaited(Append(s, x)) = Sifted(Awaited(s), x)
<1>1. PICK f : IsSift(f, s, Len(s)) /\ \A n \in 0..Len(s) : f[n] \in Seq(S)
  BY SiftExists
<1>2. PICK m \in Nat : m = Len(s)
  OBVIOUS
<1> DEFINE t == Append(s, x)
           g == [n \in 0..(m + 1) |-> IF n = m + 1 THEN Sifted(f[m], x) ELSE f[n]]
<1>3. t \in Seq(S) /\ Len(t) = m + 1 /\ t[m+1] = x /\ \A n \in 1..m : t[n] = s[n]
  BY <1>2
<1> HIDE DEF t
<1>4. \A n \in 0..m : f[n] = IF n = 0 THEN <<>> ELSE Sifted(f[n-1], s[n])
  BY <1>1, <1>2 DEF IsSift
<1>5. g[0] = <<>> /\ \A n \in 1..(m + 1) : g[n] = Sifted(g[n-1], t[n])
  <2>1. g[0] = <<>>
    BY <1>4
  <2>2. ASSUME NEW n \in 1..(m + 1) PROVE g[n] = Sifted(g[n-1], t[n])
    <3>1. CASE n = m + 1
      <4>1. n - 1 = m /\ n - 1 \in 0..(m + 1) /\ n - 1 # m + 1 /\ n \in 0..(m + 1)
        BY <3>1
      <4> QED BY <1>3, <3>1, <4>1
    <3>2. CASE n # m + 1
      <4>1. n \in 1..m /\ n - 1 \in 0..m /\ n - 1 # m + 1 /\ n # 0
            /\ n \in 0..(m + 1) /\ n - 1 \in 0..(m + 1)
        BY <3>2
      <4> QED BY <1>3, <1>4, <3>2, <4>1
    <3> QED BY <3>1, <3>2
  <2> QED BY <2>1, <2>2
<1>6. g = [n \in 0..(m + 1) |-> g[n]] /\ m + 1 \in Nat /\ g[m+1] = Sifted(f[m], x)
  OBVIOUS
<1> HIDE DEF g
<1>7. IsSift(g, t, m + 1)
  BY <1>5, <1>6, SiftSteps
<1>8. Awaited(t) = g[m+1]
  BY <1>3, <1>7, SiftDecides
<1>9. Awaited(s) = f[m]
  BY <1>1, <1>2, SiftDecides
<1> QED BY <1>6, <1>8, <1>9 DEF t

LEMMA ConcatOne ==
  ASSUME NEW S, NEW a \in Seq(S), NEW b \in Seq(S), NEW x \in S
  PROVE  a \o Append(b, x) = Append(a \o b, x)
<1>1. /\ Append(b, x) = b \o <<x>> /\ Append(a \o b, x) = (a \o b) \o <<x>>
      /\ a \o b \in Seq(S) /\ <<x>> \in Seq(S)
  BY AppendIsConcat, ConcatProperties
<1> QED BY <1>1, ConcatAssociative

LEMMA AwaitedTail ==
  ASSUME NEW S, NEW s \in Seq(S), s # <<>>
  PROVE  Awaited(s) = Sifted(<<>>, Head(s)) \o Awaited(Tail(s))
<1> DEFINE t == Tail(s)
           pre == Sifted(<<>>, Head(s))
<1>1. PICK m \in Nat : m = Len(t) /\ Len(s) = m + 1
  OBVIOUS
<1>2. t \in Seq(S) /\ pre \in Seq(S) /\ Head(s) \in S /\ s[1] = Head(s)
      /\ \A n \in 2..(m + 1) : s[n] = t[n-1] /\ s[n] \in S
  BY <1>1 DEF Sifted
<1>3. PICK f : IsSift(f, t, m) /\ \A n \in 0..m : f[n] \in Seq(S)
  <2>1. m \in 0..Len(t)
    BY <1>1
  <2> HIDE DEF t
  <2> QED BY <1>2, <2>1, SiftExists
<1> HIDE DEF t
<1> DEFINE g == [n \in 0..(m + 1) |-> IF n = 0 THEN <<>> ELSE pre \o f[n-1]]
<1>4. \A n \in 0..m : f[n] = IF n = 0 THEN <<>> ELSE Sifted(f[n-1], t[n])
  BY <1>3 DEF IsSift
<1>5. \A n \in 1..(m + 1) : g[n] = Sifted(g[n-1], s[n])
  <2> TAKE n \in 1..(m + 1)
  <2>1. CASE n = 1
    <3>0. f[0] = <<>>
      <4>1. 0 \in 0..m
        OBVIOUS
      <4> HIDE DEF g, pre
      <4> QED BY <1>4, <4>1
    <3>1. g[1] = pre \o <<>> /\ g[0] = <<>>
      <4>1. 1 \in 0..(m + 1) /\ 0 \in 0..(m + 1) /\ 1 - 1 = 0 /\ 1 # 0
        OBVIOUS
      <4> HIDE DEF pre
      <4>2. g[0] = <<>> /\ g[1] = pre \o f[1 - 1]
        BY <4>1
      <4> QED BY <3>0, <4>1, <4>2
    <3>2. pre \o <<>> = pre
      <4> HIDE DEF pre
      <4> QED BY <1>2, ConcatEmptySeq
    <3> HIDE DEF g
    <3> QED BY <1>2, <2>1, <3>1, <3>2
  <2>2. CASE n # 1
    <3> HIDE DEF pre
    <3>1. n \in 2..(m + 1) /\ n - 1 \in 1..m /\ (n - 1) - 1 = n - 2 /\ n - 2 \in 0..m /\ n - 1 # 0
      BY <2>2
    <3>2. f[n-1] = Sifted(f[n-2], s[n]) /\ f[n-2] \in Seq(S)
      BY <1>2, <1>3, <1>4, <3>1
    <3>3. g[n] = pre \o f[n-1] /\ g[n-1] = pre \o f[n-2]
      <4>1. n \in 0..(m + 1) /\ n # 0 /\ n - 1 \in 0..(m + 1)
        BY <3>1
      <4> QED BY <3>1, <4>1
    <3>4. pre \o Append(f[n-2], s[n]) = Append(pre \o f[n-2], s[n])
      <4>1. s[n] \in S
        BY <1>2, <3>1
      <4>2. PICK h \in Seq(S) : h = f[n-2]
        BY <3>2
      <4>3. PICK q \in Seq(S) : q = pre
        BY <1>2
      <4>4. q \o Append(h, s[n]) = Append(q \o h, s[n])
        BY <4>1, ConcatOne
      <4> QED BY <4>2, <4>3, <4>4
    <3> HIDE DEF g
    <3> QED BY <3>2, <3>3, <3>4 DEF Sifted
  <2> QED BY <2>1, <2>2
<1>6. g = [n \in 0..(m + 1) |-> g[n]] /\ m + 1 \in Nat /\ g[m+1] = pre \o f[m] /\ g[0] = <<>>
  OBVIOUS
<1> HIDE DEF g, pre
<1>7. IsSift(g, s, m + 1)
  BY <1>5, <1>6, SiftSteps
<1>8. Awaited(s) = g[m+1]
  BY <1>1, <1>7, SiftDecides
<1>9. Awaited(t) = f[m]
  BY <1>1, <1>2, <1>3, SiftDecides DEF t
<1> QED BY <1>6, <1>8, <1>9 DEF t, pre

LEMMA AppendedElement ==
  ASSUME NEW S, NEW h \in Seq(S), NEW y \in S, NEW t \in Seq(S), t = Append(h, y), NEW x
  PROVE  (\E i \in 1..Len(t) : t[i] = x) <=> y = x \/ \E i \in 1..Len(h) : h[i] = x
<1>1. Len(t) = Len(h) + 1 /\ t[Len(h) + 1] = y /\ \A i \in 1..Len(h) : t[i] = h[i]
  OBVIOUS
<1>2. Len(h) \in Nat
  OBVIOUS
<1> DEFINE n == Len(h)
<1> HIDE DEF n
<1>3. 1..(n + 1) = 1..n \union {n + 1} /\ n \in Nat
  BY <1>2 DEF n
<1>4. Len(t) = n + 1 /\ t[n + 1] = y /\ \A i \in 1..n : t[i] = h[i]
  BY <1>1 DEF n
<1>5. (\E i \in 1..(n + 1) : t[i] = x) <=> (\E i \in 1..n : t[i] = x) \/ t[n + 1] = x
  BY <1>3
<1>6. (\E i \in 1..n : t[i] = x) <=> (\E i \in 1..n : h[i] = x)
  BY <1>4
<1> QED BY <1>4, <1>5, <1>6 DEF n

(* What is left are the requests and answers that were there.                *)
LEMMA AwaitedElements ==
  ASSUME NEW S, NEW s \in Seq(S), NEW x
  PROVE  (\E i \in 1..Len(Awaited(s)) : Awaited(s)[i] = x) <=>
           Awaitable(x) /\ \E i \in 1..Len(s) : s[i] = x
<1>1. PICK f : IsSift(f, s, Len(s)) /\ \A n \in 0..Len(s) : f[n] \in Seq(S)
  BY SiftExists
<1>2. \A n \in 0..Len(s) : f[n] = IF n = 0 THEN <<>> ELSE Sifted(f[n-1], s[n])
  BY <1>1 DEF IsSift
<1> DEFINE K == {n \in 0..Len(s) : (\E i \in 1..Len(f[n]) : f[n][i] = x) <=>
                                      Awaitable(x) /\ \E i \in 1..n : s[i] = x}
<1>3. 0 \in K
  BY <1>2
<1>4. ASSUME NEW m \in 0..Len(s), m < Len(s), m \in K PROVE m + 1 \in K
  <2>1. PICK h \in Seq(S) : h = f[m]
    BY <1>1
  <2>2. f[m+1] = Sifted(h, s[m+1]) /\ m + 1 \in 1..Len(s) /\ s[m+1] \in S
    BY <1>2, <1>4, <2>1
  <2>3. (\E i \in 1..Len(h) : h[i] = x) <=> Awaitable(x) /\ \E i \in 1..m : s[i] = x
    BY <1>4, <2>1
  <2>4. (\E i \in 1..(m + 1) : s[i] = x) <=> s[m+1] = x \/ \E i \in 1..m : s[i] = x
    BY <2>2
  <2>5. (\E i \in 1..Len(f[m+1]) : f[m+1][i] = x) <=>
           (Awaitable(s[m+1]) /\ s[m+1] = x) \/ \E i \in 1..Len(h) : h[i] = x
    <3>1. CASE Awaitable(s[m+1])
      <4>1. f[m+1] = Append(h, s[m+1])
        BY <2>2, <3>1 DEF Sifted
      <4>2. PICK t \in Seq(S) : t = f[m+1]
        <5>1. m + 1 \in 0..Len(s)
          BY <2>2
        <5> QED BY <1>1, <5>1
      <4>3. (\E i \in 1..Len(t) : t[i] = x) <=> s[m+1] = x \/ \E i \in 1..Len(h) : h[i] = x
        <5>1. t = Append(h, s[m+1]) /\ s[m+1] \in S /\ h \in Seq(S) /\ t \in Seq(S)
          BY <2>1, <2>2, <4>1, <4>2
        <5> QED BY <5>1, AppendedElement
      <4> QED BY <3>1, <4>2, <4>3
    <3>2. CASE ~Awaitable(s[m+1])
      BY <2>2, <3>2 DEF Sifted
    <3> QED BY <3>1, <3>2
  <2> QED BY <2>2, <2>3, <2>4, <2>5
<1>5. \A n \in K : (\E i \in 1..Len(f[n]) : f[n][i] = x) <=>
                      Awaitable(x) /\ \E i \in 1..n : s[i] = x
  OBVIOUS
<1> HIDE DEF K
<1>8. Len(s) \in Nat /\ 0..Len(s) \subseteq K
  <2>1. Len(s) \in Nat
    OBVIOUS
  <2> QED BY <1>3, <1>4, <2>1, UpTo
<1>6. Len(s) \in K
  BY <1>8
<1>7. Awaited(s) = f[Len(s)]
  BY <1>1, SiftDecides
<1> QED BY <1>5, <1>6, <1>7

(* ---- frames ---- *)

Datum(bytes) == [k |-> "data", bytes |-> bytes, id |-> 0]

Hears(c) == bridge[c].sub = "live" /\ Held(c)

Emitted(row, c, bytes) == IF Hears(c) THEN Append(row.down, Datum(bytes)) ELSE row.down

LEMMA EmitPipes ==
  ASSUME HomeShape, NEW bytes \in Seq(1..MaxOutput)
  PROVE  /\ Emit(bytes) \in [Calls -> PipeRow]
         /\ \A c \in Calls : /\ Emit(bytes)[c].up = pipe[c].up
                            /\ Emit(bytes)[c].down = Emitted(pipe[c], c, bytes)
<1>1. Datum(bytes) \in Frames
  BY DEF Datum, Frames
<1>2. ASSUME NEW c \in Calls
      PROVE  /\ Emit(bytes)[c] \in PipeRow /\ Emit(bytes)[c].up = pipe[c].up
             /\ Emit(bytes)[c].down = Emitted(pipe[c], c, bytes)
  <2>1. pipe[c] \in PipeRow
    BY DEF HomeShape
  <2>2. Emit(bytes)[c] = IF Hears(c) THEN [pipe[c] EXCEPT !.down = Append(@, Datum(bytes))]
                                     ELSE pipe[c]
    BY DEF Emit, Hears, Datum
  <2> DEFINE D == Datum(bytes)
  <2>3. D \in Frames
    BY <1>1
  <2> HIDE DEF D
  <2>4. CASE Hears(c)
    <3>0. pipe[c].down \in Seq(Frames)
      BY <2>1 DEF PipeRow
    <3>1. PICK q \in Seq(Frames) : q = Append(pipe[c].down, D)
      BY <2>3, <3>0, AppendProperties
    <3>2. Emit(bytes)[c] = [pipe[c] EXCEPT !.down = q]
      BY <2>2, <2>4, <3>1 DEF D
    <3>3. Emitted(pipe[c], c, bytes) = q
      BY <2>4, <3>1 DEF Emitted, D
    <3> QED BY <2>1, <3>1, <3>2, <3>3 DEF PipeRow
  <2>5. CASE ~Hears(c)
    BY <2>1, <2>2, <2>5 DEF Emitted
  <2> QED BY <2>4, <2>5
<1>3. Emit(bytes) = [c \in Calls |-> Emit(bytes)[c]]
  BY DEF Emit
<1> QED BY <1>2, <1>3

LEMMA ScrollbackBytes ==
  ASSUME HomeShape, NEW since \in Nat
  PROVE  /\ Scrollback(since) \in Seq(1..MaxOutput)
         /\ Range(Scrollback(since)) =
              {b \in 1..sim.total : b > since /\ b + Keep > sim.total}
<1> DEFINE total == sim.total
           retained == IF total > Keep THEN total - Keep ELSE 0
           from == IF since > retained THEN since ELSE retained
           n == IF total > from THEN total - from ELSE 0
<1>1. total \in 0..MaxOutput /\ MaxOutput \in Nat /\ Keep \in Nat \ {0}
  BY HomeAssumption DEF HomeShape
<1>2. from \in Nat /\ n \in Nat /\ \A i \in 1..n : from + i \in 1..MaxOutput
  BY <1>1
<1>3. Scrollback(since) = [i \in 1..n |-> from + i]
  BY DEF Scrollback
<1>4. \A b : b \in 1..total /\ b > since /\ b + Keep > total <=> \E i \in 1..n : b = from + i
  <2>1. ASSUME NEW b, b \in 1..total, b > since, b + Keep > total
        PROVE  \E i \in 1..n : b = from + i
    <3>1. b - from \in 1..n /\ b = from + (b - from)
      BY <1>1, <2>1
    <3> QED BY <3>1
  <2>2. ASSUME NEW i \in 1..n
        PROVE  from + i \in 1..total /\ from + i > since /\ (from + i) + Keep > total
    BY <1>1, <1>2
  <2> QED BY <2>1, <2>2
<1> HIDE DEF n, from
<1>5. Scrollback(since) \in Seq(1..MaxOutput)
  BY <1>2, <1>3
<1>6. Range(Scrollback(since)) = {from + i : i \in 1..n}
  BY <1>3 DEF Range
<1> QED BY <1>4, <1>5, <1>6

(* ---- what a step changes ---- *)

(* The shell says something: nobody else moves.                              *)
Said(bytes) ==
    /\ pipe' \in [Calls -> PipeRow]
    /\ \A c \in Calls : /\ pipe'[c].up = pipe[c].up
                       /\ pipe'[c].down = Emitted(pipe[c], c, bytes)

LEMMA OutputSays ==
  ASSUME HomeShape, Output
  PROVE  /\ HomeShape' /\ UNCHANGED <<bridge, away>>
         /\ sim'.shell = sim.shell /\ sim'.stray = sim.stray /\ sim.shell
         /\ sim'.total = sim.total + 1
         /\ <<sim.total + 1>> \in Seq(1..MaxOutput)
         /\ Range(<<sim.total + 1>>) = {sim.total + 1} /\ Said(<<sim.total + 1>>)
<1>1. <<sim.total + 1>> \in Seq(1..MaxOutput)
  BY HomeAssumption DEF HomeShape, Output
<1>2. Said(<<sim.total + 1>>)
  BY <1>1, EmitPipes DEF Output, Said
<1>3. Range(<<sim.total + 1>>) = {sim.total + 1}
  BY DEF Range
<1>4. /\ sim' \in [shell : BOOLEAN, total : 0..MaxOutput, seat : BOOLEAN, moves : Nat,
                   stray : BOOLEAN]
      /\ sim'.shell = sim.shell /\ sim'.stray = sim.stray /\ sim'.total = sim.total + 1
  <2>1. PICK n \in 0..MaxOutput : n = sim.total + 1
    BY HomeAssumption DEF HomeShape, Output
  <2>2. sim' = [sim EXCEPT !.total = n]
    BY <2>1 DEF Output
  <2> QED BY <2>1, <2>2 DEF HomeShape
<1> QED BY <1>1, <1>2, <1>3, <1>4 DEF HomeShape, Output, Said

LEMMA DeskSays ==
  ASSUME HomeShape, DeskAttach
  PROVE  /\ HomeShape' /\ UNCHANGED <<bridge, away, sim>>
         /\ Scrollback(0) \in Seq(1..MaxOutput)
         /\ Range(Scrollback(0)) \subseteq 1..sim.total /\ Said(Scrollback(0))
<1>1. Scrollback(0) \in Seq(1..MaxOutput) /\ Range(Scrollback(0)) \subseteq 1..sim.total
  BY ScrollbackBytes
<1>2. Said(Scrollback(0))
  BY <1>1, EmitPipes DEF DeskAttach, Said
<1> QED BY <1>1, <1>2 DEF HomeShape, DeskAttach, Said

LEMMA SeatOnly ==
  ASSUME HomeShape, SeatMoves
  PROVE  /\ HomeShape' /\ UNCHANGED <<bridge, pipe, away>>
         /\ sim'.shell = sim.shell /\ sim'.stray = sim.stray /\ sim'.total = sim.total
<1>1. PICK v \in BOOLEAN, n \in Nat : sim' = [sim EXCEPT !.seat = v, !.moves = n]
  <2>1. sim.moves + 1 \in Nat
    BY DEF HomeShape
  <2>2. (~sim.seat) \in BOOLEAN
    BY DEF HomeShape
  <2> QED BY Zenon, <2>1, <2>2 DEF SeatMoves
<1> QED BY <1>1 DEF HomeShape, SeatMoves

(* A frame reaches the bridge.                                               *)
LEMMA BridgeReceived ==
  ASSUME HomeShape, NEW c \in Calls, BridgeReceive(c)
  PROVE  LET f == Head(pipe[c].up) IN
         /\ HomeShape' /\ UNCHANGED sim
         /\ pipe[c].up # <<>> /\ f \in UpFrames
         /\ pipe'[c].up = Tail(pipe[c].up) /\ pipe'[c].down = pipe[c].down
         /\ \A x \in Calls : x # c => pipe'[x] = pipe[x] /\ bridge'[x] = bridge[x]
         /\ f.k = "announce" => bridge'[c] = BridgeSubscribed(bridge[c])
         /\ f.k = "close" => bridge'[c] = Gone(bridge[c])
         /\ f.k \notin {"announce", "close"} =>
               f \in CtlRequests
               /\ bridge'[c] = Queued(bridge[c], f)
         /\ \A d \in Aways :
               away'[d] = IF f.k = "announce" /\ away[d].conn = c /\ away[d].from = NothingOwed
                          THEN [away[d] EXCEPT !.from = sim.total] ELSE away[d]
<1> DEFINE f == Head(pipe[c].up)
<1>1. pipe[c] \in PipeRow /\ pipe[c].up # <<>> /\ bridge[c] \in BridgeRow
  BY DEF HomeShape, BridgeReceive
<1>2. f \in UpFrames /\ Tail(pipe[c].up) \in Seq(UpFrames)
  BY <1>1 DEF PipeRow
<1>3. pipe' = [pipe EXCEPT ![c].up = Tail(@)]
  BY DEF BridgeReceive
<1>4. /\ pipe' \in [Calls -> PipeRow] /\ pipe'[c].up = Tail(pipe[c].up)
      /\ pipe'[c].down = pipe[c].down
      /\ \A x \in Calls : x # c => pipe'[x] = pipe[x]
  BY <1>1, <1>2, <1>3 DEF HomeShape, PipeRow
<1> DEFINE b == CASE f.k = "announce" -> BridgeSubscribed(bridge[c])
                  [] f.k = "close" -> Gone(bridge[c])
                  [] OTHER -> Queued(bridge[c], f)
<1>5. bridge' = [bridge EXCEPT ![c] = b]
  BY DEF BridgeReceive
<1>6. f.k \notin {"announce", "close"} => f \in CtlRequests
  BY <1>2 DEF UpFrames, Announce, Hangup
<1>7. /\ f.k = "announce" => b = BridgeSubscribed(bridge[c])
      /\ f.k = "close" => b = Gone(bridge[c])
      /\ f.k \notin {"announce", "close"} =>
            b = Queued(bridge[c], f)
  OBVIOUS
<1> HIDE DEF f
<1>8. b \in BridgeRow
  <2> HIDE DEF b
  <2>1. BridgeSubscribed(bridge[c]) \in BridgeRow
    <3>1. PICK q \in {"none", "live", "dud"} :
             q = IF bridge[c].sub # "none" THEN bridge[c].sub
                 ELSE IF sim.shell /\ sim.seat THEN "live" ELSE "dud"
      BY <1>1 DEF BridgeRow
    <3>2. BridgeSubscribed(bridge[c]) = [bridge[c] EXCEPT !.sub = q]
      BY <3>1 DEF BridgeSubscribed
    <3> QED BY <1>1, <3>1, <3>2 DEF BridgeRow
  <2>2. Gone(bridge[c]) \in BridgeRow
    <3>0. <<>> \in Seq(CtlRequests)
      BY EmptySeq
    <3>1. PICK q \in Seq(CtlRequests) : q = <<>>
      BY <3>0
    <3>2. Gone(bridge[c]) = [bridge[c] EXCEPT !.open = FALSE, !.sub = "none", !.queue = q]
      BY <3>1 DEF Gone
    <3> QED BY <1>1, <3>2 DEF BridgeRow
  <2>3. ASSUME f \in CtlRequests
        PROVE  Queued(bridge[c], f) \in BridgeRow
    BY <1>1, <2>3 DEF Queued, BridgeRow
  <2> QED BY <1>6, <1>7, <2>1, <2>2, <2>3
<1> HIDE DEF b
<1>9. bridge' \in [Calls -> BridgeRow] /\ bridge'[c] = b
      /\ \A x \in Calls : x # c => bridge'[x] = bridge[x]
  BY <1>5, <1>8 DEF HomeShape
<1>10. sim.total \in Nat /\ UNCHANGED <<sim, asks>>
  BY DEF HomeShape, BridgeReceive
<1>11. away' = [d \in Aways |->
             IF f.k = "announce" /\ away[d].conn = c /\ away[d].from = NothingOwed
             THEN [away[d] EXCEPT !.from = sim.total] ELSE away[d]]
  BY DEF BridgeReceive, f
<1>12. ASSUME NEW d \in Aways PROVE away'[d] \in AwayRow
  <2>1. away[d] \in AwayRow
    BY DEF HomeShape
  <2> QED BY <1>10, <1>11, <2>1 DEF AwayRow
<1>13. away' \in [Aways -> AwayRow]
  BY <1>11, <1>12
<1> QED BY <1>1, <1>2, <1>4, <1>6, <1>7, <1>9, <1>10, <1>11, <1>13 DEF HomeShape, f

(* The bridge serves a request.                                              *)
Sound(r) == sim.seat /\ (r.k = "attach" => sim.shell)

Reply(r) == [k |-> IF ~Sound(r) THEN "error" ELSE IF r.k = "spawn" THEN "spawned" ELSE "attached",
             bytes |-> <<>>, id |-> r.id]

Replayed(x, r) ==
    IF Sound(r) /\ r.k = "attach" THEN Emitted(pipe[x], x, Scrollback(r.since)) ELSE pipe[x].down

LEMMA AnsweredPipes ==
  ASSUME NEW p \in [Calls -> PipeRow], NEW c \in Calls, NEW kind, NEW r,
         [k |-> kind, bytes |-> <<>>, id |-> r.id] \in Frames
  PROVE  /\ Answered(p, c, kind, r) \in [Calls -> PipeRow]
         /\ \A x \in Calls :
               /\ Answered(p, c, kind, r)[x].up = p[x].up
               /\ Answered(p, c, kind, r)[x].down =
                     IF x = c /\ Held(c)
                     THEN Append(p[x].down, [k |-> kind, bytes |-> <<>>, id |-> r.id])
                     ELSE p[x].down
<1> DEFINE ans == [k |-> kind, bytes |-> <<>>, id |-> r.id]
<1>1. ans \in Frames
  OBVIOUS
<1>2. Answered(p, c, kind, r) =
        IF Held(c) THEN [p EXCEPT ![c].down = Append(@, ans)] ELSE p
  BY DEF Answered
<1> HIDE DEF ans
<1>3. CASE Held(c)
  <2>1. p[c] \in PipeRow /\ p[c].down \in Seq(Frames)
    BY DEF PipeRow
  <2>2. PICK q \in Seq(Frames) : q = Append(p[c].down, ans)
    BY <1>1, <2>1, AppendProperties
  <2>3. Answered(p, c, kind, r) = [p EXCEPT ![c].down = q]
    BY <1>2, <1>3, <2>2
  <2>4. [p[c] EXCEPT !.down = q] \in PipeRow
    BY <2>1, <2>2 DEF PipeRow
  <2>5. p[c].up = [p[c] EXCEPT !.down = q].up /\ [p[c] EXCEPT !.down = q].down = q
    BY <2>1 DEF PipeRow
  <2>6. [p EXCEPT ![c].down = q] = [p EXCEPT ![c] = [p[c] EXCEPT !.down = q]]
    OBVIOUS
  <2> QED BY <1>3, <2>2, <2>3, <2>4, <2>5, <2>6 DEF ans
<1>4. CASE ~Held(c)
  BY <1>2, <1>4
<1> QED BY <1>3, <1>4

LEMMA ReplyIsFrame ==
  ASSUME NEW r \in CtlRequests
  PROVE  Reply(r) \in Frames
<1>1. PICK k \in {"attached", "spawned", "error"} :
         k = IF ~Sound(r) THEN "error" ELSE IF r.k = "spawn" THEN "spawned" ELSE "attached"
  OBVIOUS
<1>2. PICK id \in Nat : id = r.id
  BY DEF CtlRequests
<1>3. Reply(r) = [k |-> k, bytes |-> <<>>, id |-> id]
  BY <1>1, <1>2 DEF Reply
<1> QED BY <1>3 DEF Frames

LEMMA BridgeServed ==
  ASSUME HomeShape, NEW c \in Calls, BridgeServe(c)
  PROVE  LET r == Head(bridge[c].queue) IN
         /\ HomeShape' /\ UNCHANGED away
         /\ bridge[c].queue # <<>> /\ r \in CtlRequests
         /\ sim'.total = sim.total
         /\ sim'.stray = (sim.stray \/ (~Sound(r) /\ r.k = "resize"))
         /\ sim'.shell = (sim.shell \/ (Sound(r) /\ r.k = "spawn"))
         /\ bridge'[c] = [bridge[c] EXCEPT !.queue = Tail(bridge[c].queue)]
         /\ \A x \in Calls : x # c => bridge'[x] = bridge[x]
         /\ \A x \in Calls :
               /\ pipe'[x].up = pipe[x].up
               /\ pipe'[x].down =
                     IF x = c /\ Held(c) /\ (Sound(r) => r.k # "resize")
                     THEN Append(Replayed(x, r), Reply(r)) ELSE Replayed(x, r)
<1> DEFINE r == Head(bridge[c].queue)
<1>1. /\ bridge[c] \in BridgeRow /\ bridge[c].queue \in Seq(CtlRequests) /\ bridge[c].queue # <<>>
      /\ pipe \in [Calls -> PipeRow]
  BY DEF HomeShape, BridgeServe, Servable, BridgeRow
<1>2. r \in CtlRequests /\ Tail(bridge[c].queue) \in Seq(CtlRequests)
  BY <1>1
<1>3. r.k \in {"attach", "spawn", "resize"} /\ r.since \in Nat
  BY <1>2 DEF CtlRequests
<1>4. /\ pipe' = CASE ~Sound(r) -> Answered(pipe, c, "error", r)
                    [] Sound(r) /\ r.k = "spawn" -> Answered(pipe, c, "spawned", r)
                    [] Sound(r) /\ r.k = "attach" ->
                         Answered(Emit(Scrollback(r.since)), c, "attached", r)
                    [] Sound(r) /\ r.k = "resize" -> pipe
      /\ sim' = [sim EXCEPT !.shell = @ \/ (Sound(r) /\ r.k = "spawn"),
                            !.stray = @ \/ (~Sound(r) /\ r.k = "resize")]
      /\ bridge' = [bridge EXCEPT ![c].queue = Tail(@)]
      /\ UNCHANGED <<away, asks>>
  BY DEF BridgeServe, Sound
<1> HIDE DEF r
<1>5. Reply(r) \in Frames
  BY <1>2, ReplyIsFrame
<1>6. /\ pipe' \in [Calls -> PipeRow]
      /\ \A x \in Calls :
               /\ pipe'[x].up = pipe[x].up
               /\ pipe'[x].down =
                     IF x = c /\ Held(c) /\ (Sound(r) => r.k # "resize")
                     THEN Append(Replayed(x, r), Reply(r)) ELSE Replayed(x, r)
  <2>1. CASE ~Sound(r)
    <3>1. pipe' = Answered(pipe, c, "error", r) /\ \A x \in Calls : Replayed(x, r) = pipe[x].down
      BY <1>4, <2>1 DEF Replayed
    <3>2. Reply(r) = [k |-> "error", bytes |-> <<>>, id |-> r.id]
      BY <2>1 DEF Reply
    <3> QED BY <1>1, <1>5, <2>1, <3>1, <3>2, AnsweredPipes
  <2>2. CASE Sound(r) /\ r.k = "spawn"
    <3>1. pipe' = Answered(pipe, c, "spawned", r) /\ \A x \in Calls : Replayed(x, r) = pipe[x].down
      BY <1>4, <2>2 DEF Replayed
    <3>2. Reply(r) = [k |-> "spawned", bytes |-> <<>>, id |-> r.id]
      BY <2>2 DEF Reply
    <3> QED BY <1>1, <1>5, <2>2, <3>1, <3>2, AnsweredPipes
  <2>3. CASE Sound(r) /\ r.k = "attach"
    <3> DEFINE p == Emit(Scrollback(r.since))
    <3>1. pipe' = Answered(p, c, "attached", r)
      BY <1>4, <2>3
    <3>2. Reply(r) = [k |-> "attached", bytes |-> <<>>, id |-> r.id]
      BY <2>3 DEF Reply
    <3>3. /\ p \in [Calls -> PipeRow]
          /\ \A x \in Calls : p[x].up = pipe[x].up /\ p[x].down = Replayed(x, r)
      BY <1>3, <2>3, EmitPipes, ScrollbackBytes DEF Replayed
    <3> HIDE DEF p
    <3> QED BY <1>5, <2>3, <3>1, <3>2, <3>3, AnsweredPipes
  <2>4. CASE Sound(r) /\ r.k = "resize"
    BY <1>1, <1>4, <2>4 DEF Replayed
  <2> QED BY <1>3, <2>1, <2>2, <2>3, <2>4
<1>7. /\ bridge' \in [Calls -> BridgeRow]
      /\ bridge'[c] = [bridge[c] EXCEPT !.queue = Tail(bridge[c].queue)]
      /\ \A x \in Calls : x # c => bridge'[x] = bridge[x]
  <2>1. PICK q \in Seq(CtlRequests) : q = Tail(bridge[c].queue)
    BY <1>2
  <2>2. bridge' = [bridge EXCEPT ![c].queue = q]
    BY <1>4, <2>1
  <2>3. [bridge[c] EXCEPT !.queue = q] \in BridgeRow
    BY <1>1, <2>1 DEF BridgeRow
  <2>4. bridge' = [bridge EXCEPT ![c] = [bridge[c] EXCEPT !.queue = q]]
    BY <2>2
  <2> QED BY <2>1, <2>3, <2>4 DEF HomeShape
<1>8. /\ sim' \in [shell : BOOLEAN, total : 0..MaxOutput, seat : BOOLEAN, moves : Nat,
                   stray : BOOLEAN]
      /\ sim'.total = sim.total
      /\ sim'.stray = (sim.stray \/ (~Sound(r) /\ r.k = "resize"))
      /\ sim'.shell = (sim.shell \/ (Sound(r) /\ r.k = "spawn"))
  <2>1. PICK v \in BOOLEAN : v = (sim.shell \/ (Sound(r) /\ r.k = "spawn"))
    OBVIOUS
  <2>2. PICK w \in BOOLEAN : w = (sim.stray \/ (~Sound(r) /\ r.k = "resize"))
    OBVIOUS
  <2>3. sim' = [sim EXCEPT !.shell = v, !.stray = w]
    BY Zenon, <1>4, <2>1, <2>2
  <2>4. sim'.shell = v /\ sim'.stray = w /\ sim'.total = sim.total
        /\ sim' \in [shell : BOOLEAN, total : 0..MaxOutput, seat : BOOLEAN, moves : Nat,
                     stray : BOOLEAN]
    BY <2>3 DEF HomeShape
  <2> QED BY <2>1, <2>2, <2>4
<1> QED BY <1>1, <1>2, <1>4, <1>6, <1>7, <1>8 DEF HomeShape, r

(* Only the row of one connection, and of one device, changes.               *)
OthersKeep(c, d) ==
    /\ \A x \in Calls : x # c => pipe'[x] = pipe[x]
    /\ \A e \in Aways : e # d => away'[e] = away[e]

LEMMA AskedFor ==
  ASSUME HomeShape, NEW d \in Aways, NEW k \in {"spawn", "attach", "resize"}, Ask(d, k)
  PROVE  LET c == away[d].conn
             r == [k |-> k, since |-> 0, id |-> asks + 1] IN
         /\ HomeShape' /\ UNCHANGED <<sim, bridge>> /\ OthersKeep(c, d)
         /\ c \in Calls /\ away[d].waiting = 0 /\ r \in CtlRequests
         /\ sim.shell = (k # "spawn")
         /\ pipe'[c].up = Append(pipe[c].up, r) /\ pipe'[c].down = pipe[c].down
         /\ k = "resize" => away'[d] = away[d]
         /\ k # "resize" =>
               /\ r \in Asked /\ away'[d].pend = Append(away[d].pend, r)
               /\ away'[d].waiting = r.id /\ away'[d].conn = c
               /\ away'[d].listening = away[d].listening /\ away'[d].from = away[d].from
               /\ away'[d].failed = away[d].failed /\ away'[d].over = away[d].over
               /\ away'[d].shown = IF k = "attach" THEN {} ELSE away[d].shown
<1> DEFINE c == away[d].conn
           r == [k |-> k, since |-> 0, id |-> asks + 1]
<1>1. /\ away[d] \in AwayRow /\ c \in Calls /\ away[d].waiting = 0 /\ sim.shell = (k # "spawn")
      /\ pipe[c] \in PipeRow
  BY DEF HomeShape, Ask, AwayRow
<1>2. asks + 1 \in Nat /\ asks' = asks + 1 /\ UNCHANGED <<sim, bridge>>
  BY DEF HomeShape, Ask
<1>3. r \in CtlRequests /\ r \in UpFrames /\ r.k = k /\ r.id = asks + 1 /\ r.since = 0
  BY <1>2 DEF CtlRequests, UpFrames
<1>4. k # "resize" => r \in Asked
  BY <1>2 DEF Asked
<1>5. /\ pipe' = [pipe EXCEPT ![c].up = Append(@, r)]
      /\ away' = [away EXCEPT ![d] = IF k = "resize" THEN @ ELSE Waits(@, r)]
  BY DEF Ask
<1> HIDE DEF r
<1>6. /\ pipe' \in [Calls -> PipeRow] /\ \A x \in Calls : x # c => pipe'[x] = pipe[x]
      /\ pipe'[c].up = Append(pipe[c].up, r) /\ pipe'[c].down = pipe[c].down
  <2>1. pipe[c].up \in Seq(UpFrames)
    BY <1>1 DEF PipeRow
  <2>2. PICK q \in Seq(UpFrames) : q = Append(pipe[c].up, r)
    BY <1>3, <2>1, AppendProperties
  <2>3. [pipe[c] EXCEPT !.up = q] \in PipeRow
    BY <1>1, <2>2 DEF PipeRow
  <2>4. pipe' = [pipe EXCEPT ![c] = [pipe[c] EXCEPT !.up = q]]
    BY <1>5, <2>2
  <2>5. [pipe[c] EXCEPT !.up = q].up = q /\ [pipe[c] EXCEPT !.up = q].down = pipe[c].down
    BY <1>1 DEF PipeRow
  <2> HIDE DEF c
  <2> QED BY <1>1, <2>2, <2>3, <2>4, <2>5 DEF HomeShape
<1>7. /\ away' \in [Aways -> AwayRow] /\ \A e \in Aways : e # d => away'[e] = away[e]
      /\ k = "resize" => away'[d] = away[d]
      /\ k # "resize" =>
               /\ away'[d].pend = Append(away[d].pend, r)
               /\ away'[d].waiting = r.id /\ away'[d].conn = c
               /\ away'[d].listening = away[d].listening /\ away'[d].from = away[d].from
               /\ away'[d].failed = away[d].failed /\ away'[d].over = away[d].over
               /\ away'[d].shown = IF k = "attach" THEN {} ELSE away[d].shown
  <2>1. CASE k = "resize"
    <3>1. away' = away
      BY <1>5, <2>1 DEF HomeShape
    <3> QED BY <2>1, <3>1 DEF HomeShape
  <2>2. CASE k # "resize"
    <3>1. away[d].pend \in Seq(Asked)
      BY <1>1 DEF AwayRow
    <3>2. PICK q \in Seq(Asked) : q = Append(away[d].pend, r)
      BY <1>4, <2>2, <3>1, AppendProperties
    <3>3. PICK n \in Nat : n = IF k = "attach" THEN 0 ELSE away[d].count
      BY <1>1 DEF AwayRow
    <3>4. PICK s \in SUBSET Nat : s = IF k = "attach" THEN {} ELSE away[d].shown
      BY <1>1 DEF AwayRow
    <3>5. PICK id \in Nat : id = r.id
      BY <1>2, <1>3
    <3>6. Waits(away[d], r) =
            [away[d] EXCEPT !.pend = q, !.waiting = id, !.count = n, !.shown = s]
      BY <1>3, <3>2, <3>3, <3>4, <3>5 DEF Waits
    <3>7. away' = [away EXCEPT ![d] = Waits(away[d], r)]
      BY <1>5, <2>2
    <3> DEFINE row == [away[d] EXCEPT !.pend = q, !.waiting = id, !.count = n, !.shown = s]
    <3>8. /\ row \in AwayRow /\ row.pend = q /\ row.waiting = id /\ row.conn = away[d].conn
          /\ row.listening = away[d].listening /\ row.from = away[d].from
          /\ row.failed = away[d].failed /\ row.over = away[d].over /\ row.shown = s
      BY <1>1 DEF AwayRow
    <3>9. row = Waits(away[d], r)
      BY <3>6
    <3> HIDE DEF row
    <3> QED BY <2>2, <3>2, <3>4, <3>5, <3>7, <3>8, <3>9 DEF HomeShape
  <2> QED BY <2>1, <2>2
<1> QED BY <1>1, <1>2, <1>3, <1>4, <1>6, <1>7 DEF HomeShape, OthersKeep, r, c

(* What a device makes of a frame.                                           *)
Takes(a, f) == f.k # "data" /\ a.pend # <<>> /\ f.k \in {Expected[Head(a.pend).k], "error"}

TakesOwn(a, f) == Takes(a, f) /\ Head(a.pend).id = a.waiting /\ a.waiting # 0

Opens(a, f) == TakesOwn(a, f) /\ f.k # "error"

LEMMA AwayReceived ==
  ASSUME HomeShape, NEW d \in Aways, AwayReceive(d)
  PROVE  LET c == away[d].conn
             a == away[d]
             n == away'[d]
             f == Head(pipe[away[d].conn].down) IN
         /\ HomeShape' /\ UNCHANGED <<sim, bridge>> /\ OthersKeep(c, d)
         /\ c \in Calls /\ pipe[c].down # <<>> /\ f \in Frames
         /\ pipe'[c].down = Tail(pipe[c].down)
         /\ pipe'[c].up = IF Opens(a, f) THEN Append(pipe[c].up, Announce) ELSE pipe[c].up
         /\ n.conn = c /\ n.from = a.from
         /\ n.pend = IF Takes(a, f) THEN Tail(a.pend) ELSE a.pend
         /\ n.waiting = IF TakesOwn(a, f) THEN 0 ELSE a.waiting
         /\ n.listening = IF Opens(a, f) THEN TRUE ELSE a.listening
         /\ n.failed = IF Opens(a, f) THEN FALSE
                       ELSE IF Takes(a, f) /\ f.k = "error" THEN TRUE ELSE a.failed
         /\ n.over = IF Opens(a, f) THEN FALSE ELSE a.over
         /\ n.shown = IF f.k = "data" /\ a.listening THEN a.shown \union Range(f.bytes) ELSE a.shown
<1> DEFINE c == away[d].conn
           a == away[d]
           f == Head(pipe[away[d].conn].down)
           rest == [a EXCEPT !.pend = IF Takes(a, f) THEN Tail(@) ELSE @]
           row == CASE f.k = "data" -> Counted(a, f.bytes)
               [] TakesOwn(a, f) /\ f.k # "error" -> ChannelOpened(rest)
               [] Takes(a, f) /\ f.k = "error" ->
                    [rest EXCEPT !.waiting = IF TakesOwn(a, f) THEN 0 ELSE @, !.failed = TRUE]
               [] OTHER -> rest
<1>1. a \in AwayRow /\ c \in Calls /\ pipe[c].down # <<>> /\ pipe[c] \in PipeRow
  BY DEF HomeShape, AwayReceive, AwayRow
<1>2. f \in Frames /\ Tail(pipe[c].down) \in Seq(Frames)
  BY <1>1 DEF PipeRow
<1>3. /\ away' = [away EXCEPT ![d] = row]
      /\ pipe' = [pipe EXCEPT ![c].down = Tail(@),
                              ![c].up = IF TakesOwn(a, f) /\ f.k # "error"
                                        THEN Append(@, Announce) ELSE @]
      /\ UNCHANGED <<sim, bridge, asks>>
  BY DEF AwayReceive, Takes, TakesOwn
<1>4. PICK pend \in Seq(Asked) : pend = IF Takes(a, f) THEN Tail(a.pend) ELSE a.pend
  <2>1. a.pend \in Seq(Asked) /\ (a.pend # <<>> => Tail(a.pend) \in Seq(Asked))
    BY <1>1 DEF AwayRow
  <2>2. Takes(a, f) => a.pend # <<>>
    BY DEF Takes
  <2>3. (IF Takes(a, f) THEN Tail(a.pend) ELSE a.pend) \in Seq(Asked)
    <3> HIDE DEF a, f
    <3> QED BY <2>1, <2>2
  <2> QED BY <2>3
<1>5. rest = [a EXCEPT !.pend = pend]
  BY <1>4
<1> HIDE DEF f
<1>8. /\ row \in AwayRow
      /\ row.conn = c /\ row.from = a.from
      /\ row.pend = IF Takes(a, f) THEN Tail(a.pend) ELSE a.pend
      /\ row.waiting = IF TakesOwn(a, f) THEN 0 ELSE a.waiting
      /\ row.listening = IF Opens(a, f) THEN TRUE ELSE a.listening
      /\ row.failed = IF Opens(a, f) THEN FALSE
                       ELSE IF Takes(a, f) /\ f.k = "error" THEN TRUE ELSE a.failed
      /\ row.over = IF Opens(a, f) THEN FALSE ELSE a.over
      /\ row.shown = IF f.k = "data" /\ a.listening THEN a.shown \union Range(f.bytes) ELSE a.shown
  <2> HIDE DEF a
  <2>1. CASE f.k = "data"
    <3>1. row = Counted(a, f.bytes) /\ ~Takes(a, f) /\ ~TakesOwn(a, f) /\ ~Opens(a, f)
      BY <2>1 DEF Takes, TakesOwn, Opens
    <3> HIDE DEF row
    <3>2. f.bytes \in Seq(1..MaxOutput)
      BY <1>2, <2>1 DEF Frames
    <3>3. Len(f.bytes) \in Nat /\ Range(f.bytes) \subseteq Nat
      <4>1. f.bytes \in [1..Len(f.bytes) -> 1..MaxOutput] /\ Len(f.bytes) \in Nat
        BY <3>2, LenProperties
      <4> QED BY <4>1 DEF Range
    <3>4. CASE a.listening
      <4>1. PICK n \in Nat : n = a.count + Len(f.bytes)
        BY <1>1, <3>3 DEF AwayRow
      <4>2. PICK s \in SUBSET Nat : s = a.shown \union Range(f.bytes)
        BY <1>1, <3>3 DEF AwayRow
      <4>3. row = [a EXCEPT !.count = n, !.shown = s]
        BY <3>1, <3>4, <4>1, <4>2 DEF Counted
      <4> QED BY <1>1, <2>1, <3>1, <3>4, <4>2, <4>3 DEF AwayRow, a
    <3>5. CASE ~a.listening
      BY <1>1, <2>1, <3>1, <3>5 DEF Counted, a
    <3> QED BY <3>4, <3>5
  <2>2. CASE Opens(a, f)
    <3>1. row = ChannelOpened(rest) /\ Takes(a, f) /\ TakesOwn(a, f) /\ f.k # "data"
      BY <2>2 DEF Takes, TakesOwn, Opens
    <3>2. row = [a EXCEPT !.pend = pend, !.listening = TRUE, !.count = 0, !.waiting = 0,
                          !.failed = FALSE, !.over = FALSE]
      <4> HIDE DEF row, rest
      <4> QED BY <1>1, <1>5, <3>1 DEF ChannelOpened, AwayRow
    <3> HIDE DEF row, rest
    <3>3. /\ row \in AwayRow /\ row.conn = a.conn /\ row.from = a.from /\ row.pend = pend
          /\ row.waiting = 0 /\ row.listening = TRUE /\ row.failed = FALSE /\ row.over = FALSE
          /\ row.shown = a.shown
      BY <1>1, <3>2 DEF AwayRow
    <3> QED BY <1>4, <2>2, <3>1, <3>3 DEF a
  <2>3. CASE Takes(a, f) /\ f.k = "error"
    <3>1. PICK w \in Nat : w = IF TakesOwn(a, f) THEN 0 ELSE a.waiting
      BY <1>1 DEF AwayRow
    <3>2. row = [rest EXCEPT !.waiting = IF TakesOwn(a, f) THEN 0 ELSE @, !.failed = TRUE]
          /\ ~Opens(a, f)
      BY <2>3 DEF Takes, TakesOwn, Opens
    <3>3. row = [a EXCEPT !.pend = pend, !.waiting = w, !.failed = TRUE]
      <4>1. rest.waiting = a.waiting
        BY <1>1 DEF AwayRow
      <4> HIDE DEF row, rest
      <4> QED BY <1>1, <1>5, <3>1, <3>2, <4>1 DEF AwayRow
    <3> HIDE DEF row, rest
    <3> QED BY <1>1, <1>4, <2>3, <3>1, <3>2, <3>3 DEF AwayRow, a
  <2>4. CASE f.k # "data" /\ ~Opens(a, f) /\ ~(Takes(a, f) /\ f.k = "error")
    <3>1. row = rest /\ ~(TakesOwn(a, f) /\ f.k # "error")
      BY <2>4 DEF Opens
    <3>2. ~TakesOwn(a, f)
      BY <2>4, <3>1 DEF TakesOwn
    <3> HIDE DEF row, rest
    <3> QED BY <1>1, <1>4, <1>5, <2>4, <3>1, <3>2 DEF AwayRow, a
  <2> QED BY <2>1, <2>2, <2>3, <2>4
<1> HIDE DEF row
<1>9. /\ away' \in [Aways -> AwayRow] /\ away'[d] = row
      /\ \A e \in Aways : e # d => away'[e] = away[e]
  BY <1>3, <1>8 DEF HomeShape
<1>10. /\ pipe' \in [Calls -> PipeRow] /\ \A x \in Calls : x # c => pipe'[x] = pipe[x]
       /\ pipe'[c].down = Tail(pipe[c].down)
       /\ pipe'[c].up = IF Opens(a, f) THEN Append(pipe[c].up, Announce) ELSE pipe[c].up
  <2>1. pipe[c].up \in Seq(UpFrames) /\ Announce \in UpFrames
    BY <1>1 DEF PipeRow, UpFrames
  <2>2. PICK u \in Seq(UpFrames) : u = IF Opens(a, f) THEN Append(pipe[c].up, Announce)
                                                     ELSE pipe[c].up
    BY <2>1, AppendProperties
  <2>3. PICK q \in Seq(Frames) : q = Tail(pipe[c].down)
    BY <1>2
  <2>4. pipe' = [pipe EXCEPT ![c].down = q, ![c].up = u]
    BY <1>3, <2>2, <2>3 DEF Opens
  <2>5. pipe' = [pipe EXCEPT ![c] = [pipe[c] EXCEPT !.down = q, !.up = u]]
    BY <1>1, <2>4 DEF HomeShape
  <2>6. /\ [pipe[c] EXCEPT !.down = q, !.up = u] \in PipeRow
        /\ [pipe[c] EXCEPT !.down = q, !.up = u].down = q
        /\ [pipe[c] EXCEPT !.down = q, !.up = u].up = u
    BY <1>1 DEF PipeRow
  <2> HIDE DEF c, a
  <2> QED BY <1>1, <2>2, <2>3, <2>5, <2>6 DEF HomeShape
<1> QED BY <1>1, <1>2, <1>3, <1>8, <1>9, <1>10 DEF HomeShape, OthersKeep, f

LEMMA AppendToOne ==
  ASSUME NEW S, NEW x \in S, NEW y \in S
  PROVE  Append(<<x>>, y) = <<x, y>>
<1>1. /\ <<x>> \in Seq(S) /\ <<x, y>> \in Seq(S)
      /\ Len(<<x>>) = 1 /\ Len(<<x, y>>) = 2
      /\ <<x>>[1] = x /\ <<x, y>>[1] = x /\ <<x, y>>[2] = y
  OBVIOUS
<1>2. PICK p \in Seq(S) : p = <<x>>
  BY <1>1
<1>3. PICK q \in Seq(S) : q = <<x, y>>
  BY <1>1
<1>4. PICK r \in Seq(S) : r = Append(p, y)
  BY <1>2, AppendProperties
<1>5. Len(r) = 2 /\ r[1] = x /\ r[2] = y
  BY <1>1, <1>2, <1>4, AppendProperties
<1>6. Len(r) = Len(q) /\ \A i \in 1..Len(r) : r[i] = q[i]
  BY <1>5, <1>1, <1>3
<1>7. r = q
  BY <1>6, SeqEqual
<1> QED BY <1>7, <1>4, <1>3, <1>2

(* The gap a reconnecting device asks for.                                   *)
GapRequest(a) == [k |-> "attach", since |-> a.count, id |-> 0]

LEMMA GreetingIs ==
  ASSUME NEW a \in AwayRow
  PROVE  /\ Greeting(a) \in Seq(UpFrames)
         /\ Awaited(Greeting(a)) \in Seq(Asked)
         /\ ~a.listening => Greeting(a) = <<>> /\ Awaited(Greeting(a)) = <<>>
         /\ a.listening => /\ Len(Greeting(a)) = 2
                           /\ Greeting(a)[1] = Announce /\ Greeting(a)[2] = GapRequest(a)
                           /\ Awaited(Greeting(a)) = <<GapRequest(a)>>
                           /\ GapRequest(a) \in Asked
<1> DEFINE g == GapRequest(a)
<1>1. a.count \in Nat
  BY DEF AwayRow
<1>2. g \in CtlRequests /\ g \in Asked /\ g \in UpFrames /\ Announce \in UpFrames
  BY <1>1 DEF CtlRequests, Asked, UpFrames, GapRequest
<1>3. Awaitable(g) /\ ~Awaitable(Announce)
  BY DEF Awaitable, Announce, GapRequest
<1>4. Greeting(a) = IF a.listening THEN <<Announce, g>> ELSE <<>>
  BY DEF Greeting, GapRequest
<1> HIDE DEF g
<1>5. CASE a.listening
  <2> DEFINE n == Announce
  <2>0. n \in UpFrames /\ ~Awaitable(n)
    BY <1>2, <1>3
  <2> HIDE DEF n
  <2>1. Greeting(a) = <<n, g>> /\ <<n>> \in Seq(UpFrames)
        /\ <<n, g>> \in Seq(UpFrames) /\ <<g>> \in Seq(Asked)
    <3>1. Greeting(a) = <<n, g>>
      BY <1>4, <1>5 DEF n
    <3>2. <<n>> \in Seq(UpFrames) /\ <<n, g>> \in Seq(UpFrames) /\ <<g>> \in Seq(Asked)
      BY <1>2, <2>0
    <3> QED BY <3>1, <3>2
  <2>2. Append(<<>>, n) = <<n>> /\ Append(<<n>>, g) = <<n, g>>
        /\ Append(<<>>, g) = <<g>>
    <3>1. Append(<<n>>, g) = <<n, g>>
      BY <1>2, <2>0, AppendToOne
    <3>2. Append(<<>>, n) = <<n>> /\ Append(<<>>, g) = <<g>>
      OBVIOUS
    <3> QED BY <3>1, <3>2
  <2>3. Awaited(<<n>>) = <<>>
    <3>1. <<>> \in Seq(UpFrames)
      BY EmptySeq
    <3>2. Awaited(Append(<<>>, n)) = Sifted(Awaited(<<>>), n)
      BY <2>0, <3>1, AwaitedAppend
    <3> QED BY <2>0, <2>2, <3>2, AwaitedEmpty DEF Sifted
  <2>4. Awaited(<<n, g>>) = <<g>>
    <3>1. Awaited(Append(<<n>>, g)) = Sifted(Awaited(<<n>>), g)
      BY <1>2, <2>1, AwaitedAppend
    <3>2. Sifted(<<>>, g) = <<g>>
      BY <1>3, <2>2 DEF Sifted
    <3> QED BY <2>2, <2>3, <3>1, <3>2
  <2>5. Len(<<n, g>>) = 2 /\ <<n, g>>[1] = n /\ <<n, g>>[2] = g
    OBVIOUS
  <2> QED BY <1>2, <1>5, <2>1, <2>4, <2>5 DEF g, n
<1>6. CASE ~a.listening
  <2>1. Greeting(a) = <<>> /\ <<>> \in Seq(UpFrames) /\ <<>> \in Seq(Asked)
    BY <1>4, <1>6, EmptySeq
  <2> QED BY <1>6, <2>1, AwaitedEmpty
<1> QED BY <1>5, <1>6

LEMMA Dialled ==
  ASSUME HomeShape, CallsInOrder, NEW d \in Aways, Dial(d)
  PROVE  /\ HomeShape' /\ UNCHANGED sim /\ away[d].conn = 0
         /\ \E c \in Calls :
              LET a == away[d]
                  n == away'[d] IN
              /\ OthersKeep(c, d) /\ ~bridge[c].used
              /\ \A x \in Calls : x # c => bridge'[x] = bridge[x]
              /\ bridge'[c] = [bridge[c] EXCEPT !.open = TRUE, !.used = TRUE]
              /\ \E m \in 0..MaxDials : {x \in Calls : bridge'[x].used} = 1..m
              /\ pipe'[c].up = Greeting(a) /\ pipe'[c].down = pipe[c].down
              /\ n.conn = c /\ n.pend = a.pend \o Awaited(Greeting(a))
              /\ n.failed = FALSE
              /\ n.over = (\E b \in (a.from + 1)..a.count : b \notin a.shown)
              /\ n.waiting = a.waiting /\ n.listening = a.listening
              /\ n.shown = a.shown /\ n.from = a.from
<1> DEFINE a == away[d]
<1>1. PICK m \in 0..MaxDials : {c \in Calls : bridge[c].used} = 1..m
  BY DEF CallsInOrder
<1>2. Cardinality(1..m) = m /\ m \in Nat /\ MaxDials \in Nat
  BY HomeAssumption, FS_Interval
<1> DEFINE c == 1 + m
<1>3. /\ 1 + Cardinality({e \in Calls : bridge[e].used}) = c /\ c \in Calls /\ a.conn = 0
      /\ a \in AwayRow
  BY <1>1, <1>2 DEF Dial, HomeShape
<1>4. /\ bridge' = [bridge EXCEPT ![c].open = TRUE, ![c].used = TRUE]
      /\ pipe' = [pipe EXCEPT ![c].up = Greeting(a)]
      /\ away' = [away EXCEPT ![d].conn = c, ![d].pend = @ \o Awaited(Greeting(a)),
                              ![d].failed = FALSE,
                              ![d].over = \E b \in (a.from + 1)..a.count : b \notin a.shown]
      /\ UNCHANGED <<sim, asks>>
  BY <1>3 DEF Dial
<1>5. c \notin 1..m /\ ~bridge[c].used
  BY <1>1, <1>2, <1>3
<1> HIDE DEF c
<1>6. /\ bridge' \in [Calls -> BridgeRow]
      /\ bridge'[c] = [bridge[c] EXCEPT !.open = TRUE, !.used = TRUE]
      /\ \A x \in Calls : x # c => bridge'[x] = bridge[x]
      /\ bridge'[c].used
  <2>1. bridge[c] \in BridgeRow
    BY <1>3 DEF HomeShape
  <2>2. [bridge[c] EXCEPT !.open = TRUE, !.used = TRUE] \in BridgeRow
        /\ [bridge[c] EXCEPT !.open = TRUE, !.used = TRUE].used
    BY <2>1 DEF BridgeRow
  <2>3. bridge' = [bridge EXCEPT ![c] = [bridge[c] EXCEPT !.open = TRUE, !.used = TRUE]]
    BY <1>3, <1>4 DEF HomeShape
  <2> QED BY <1>3, <2>2, <2>3 DEF HomeShape
<1>7. {x \in Calls : bridge'[x].used} = 1..(m + 1) /\ m + 1 \in 0..MaxDials
  <2>1. m + 1 \in 0..MaxDials /\ 1..(m + 1) = 1..m \union {c}
    BY <1>2, <1>3 DEF Calls, c
  <2>2. \A x \in Calls : bridge'[x].used <=> (bridge[x].used \/ x = c)
    BY <1>3, <1>6
  <2> QED BY <1>1, <1>3, <2>1, <2>2
<1>8. /\ pipe' \in [Calls -> PipeRow] /\ pipe'[c].up = Greeting(a)
      /\ pipe'[c].down = pipe[c].down /\ \A x \in Calls : x # c => pipe'[x] = pipe[x]
  <2>1. Greeting(a) \in Seq(UpFrames)
    BY <1>3, GreetingIs
  <2>2. PICK u \in Seq(UpFrames) : u = Greeting(a)
    BY <2>1
  <2>3. pipe[c] \in PipeRow /\ pipe' = [pipe EXCEPT ![c] = [pipe[c] EXCEPT !.up = u]]
    BY <1>3, <1>4, <2>2 DEF HomeShape
  <2>4. [pipe[c] EXCEPT !.up = u] \in PipeRow /\ [pipe[c] EXCEPT !.up = u].up = u
        /\ [pipe[c] EXCEPT !.up = u].down = pipe[c].down
    BY <2>3 DEF PipeRow
  <2> HIDE DEF a
  <2> QED BY <1>3, <2>2, <2>3, <2>4 DEF HomeShape
<1>9. /\ away' \in [Aways -> AwayRow] /\ \A e \in Aways : e # d => away'[e] = away[e]
      /\ away'[d].conn = c /\ away'[d].pend = a.pend \o Awaited(Greeting(a))
      /\ away'[d].failed = FALSE
      /\ away'[d].over = (\E b \in (a.from + 1)..a.count : b \notin a.shown)
      /\ away'[d].waiting = a.waiting /\ away'[d].listening = a.listening
      /\ away'[d].shown = a.shown /\ away'[d].from = a.from
  <2>1. a.pend \o Awaited(Greeting(a)) \in Seq(Asked)
    BY <1>3, GreetingIs, ConcatProperties DEF AwayRow
  <2>2. PICK q \in Seq(Asked) : q = a.pend \o Awaited(Greeting(a))
    BY <2>1
  <2>3. PICK v \in BOOLEAN : v = (\E b \in (a.from + 1)..a.count : b \notin a.shown)
    OBVIOUS
  <2>4. away' = [away EXCEPT ![d].conn = c, ![d].pend = q, ![d].failed = FALSE, ![d].over = v]
    BY <1>4, <2>2, <2>3
  <2> DEFINE row == [away[d] EXCEPT !.conn = c, !.pend = q, !.failed = FALSE, !.over = v]
  <2>5. away' = [away EXCEPT ![d] = row]
    BY <2>4 DEF HomeShape
  <2>6. /\ row \in AwayRow /\ row.conn = c /\ row.pend = q /\ row.failed = FALSE /\ row.over = v
        /\ row.waiting = a.waiting /\ row.listening = a.listening
        /\ row.shown = a.shown /\ row.from = a.from
    BY <1>3 DEF AwayRow
  <2> HIDE DEF row, a
  <2> QED BY <2>2, <2>3, <2>5, <2>6 DEF HomeShape
<1>10. HomeShape' /\ UNCHANGED sim
  BY <1>4, <1>6, <1>8, <1>9 DEF HomeShape
<1>11. OthersKeep(c, d)
  BY <1>8, <1>9 DEF OthersKeep
<1> QED BY <1>3, <1>5, <1>6, <1>7, <1>8, <1>9, <1>10, <1>11

LEMMA CutIs ==
  ASSUME NEW a \in AwayRow
  PROVE  /\ Cut(a) \in AwayRow /\ Cut(a).conn = 0 /\ Cut(a).pend = <<>> /\ Cut(a).waiting = 0
         /\ Cut(a).listening = a.listening /\ Cut(a).from = a.from /\ Cut(a).shown = a.shown
<1>1. PICK q \in Seq(Asked) : q = <<>>
  <2>1. <<>> \in Seq(Asked)
    BY EmptySeq
  <2> QED BY <2>1
<1> DEFINE row == [a EXCEPT !.conn = 0, !.pend = q, !.waiting = 0]
<1>2. Cut(a) = row
  BY <1>1 DEF Cut
<1>3. /\ row \in AwayRow /\ row.conn = 0 /\ row.pend = q /\ row.waiting = 0
      /\ row.listening = a.listening /\ row.from = a.from /\ row.shown = a.shown
  BY <1>1 DEF AwayRow
<1> HIDE DEF row
<1> QED BY <1>1, <1>2, <1>3

LEMMA AwayCut ==
  ASSUME HomeShape, NEW d \in Aways, AwayLost(d)
  PROVE  LET c == away[d].conn IN
         /\ HomeShape' /\ UNCHANGED <<sim, bridge>> /\ OthersKeep(c, d)
         /\ c \in Calls /\ away'[d] = Cut(away[d])
         /\ pipe'[c].down = <<>> /\ pipe'[c].up = Append(pipe[c].up, Hangup)
<1> DEFINE c == away[d].conn
<1>1. c \in Calls /\ away[d] \in AwayRow /\ pipe[c] \in PipeRow /\ pipe[c].up \in Seq(UpFrames)
  BY DEF HomeShape, AwayLost, AwayRow, PipeRow
<1>2. Hangup \in UpFrames /\ <<>> \in Seq(Frames)
  BY EmptySeq DEF UpFrames
<1>3. PICK u \in Seq(UpFrames), q \in Seq(Frames) : u = Append(pipe[c].up, Hangup) /\ q = <<>>
  BY <1>1, <1>2, AppendProperties
<1>4. /\ pipe' = [pipe EXCEPT ![c].down = <<>>, ![c].up = Append(@, Hangup)]
      /\ away' = [away EXCEPT ![d] = Cut(@)] /\ UNCHANGED <<sim, bridge, asks>>
  BY DEF AwayLost
<1>5. pipe' = [pipe EXCEPT ![c] = [pipe[c] EXCEPT !.down = q, !.up = u]]
  BY <1>1, <1>3, <1>4 DEF HomeShape
<1>6. /\ [pipe[c] EXCEPT !.down = q, !.up = u] \in PipeRow
      /\ [pipe[c] EXCEPT !.down = q, !.up = u].down = q
      /\ [pipe[c] EXCEPT !.down = q, !.up = u].up = u
  BY <1>1, <1>3 DEF PipeRow
<1>7. pipe' \in [Calls -> PipeRow] /\ pipe'[c].down = <<>>
      /\ pipe'[c].up = Append(pipe[c].up, Hangup)
      /\ \A x \in Calls : x # c => pipe'[x] = pipe[x]
  <2> HIDE DEF c
  <2> QED BY <1>1, <1>3, <1>5, <1>6 DEF HomeShape
<1>8. away' \in [Aways -> AwayRow] /\ away'[d] = Cut(away[d])
      /\ \A e \in Aways : e # d => away'[e] = away[e]
  BY <1>1, <1>4, CutIs DEF HomeShape
<1> QED BY <1>1, <1>4, <1>7, <1>8 DEF HomeShape, OthersKeep

LEMMA HomeCut ==
  ASSUME HomeShape, HomeLost
  PROVE  /\ HomeShape' /\ UNCHANGED sim
         /\ \A d \in Aways : away'[d] = Cut(away[d])
         /\ \A c \in Calls : /\ pipe'[c].up = <<>> /\ pipe'[c].down = <<>>
                             /\ bridge'[c].used = bridge[c].used
                             /\ bridge'[c].sub = "none" /\ bridge'[c].queue = <<>>
<1>1. ASSUME NEW c \in Calls
      PROVE  /\ Gone(bridge[c]) \in BridgeRow /\ Gone(bridge[c]).used = bridge[c].used
             /\ Gone(bridge[c]).sub = "none" /\ Gone(bridge[c]).queue = <<>>
  <2>1. <<>> \in Seq(CtlRequests) /\ bridge[c] \in BridgeRow
    BY EmptySeq DEF HomeShape
  <2>2. PICK q \in Seq(CtlRequests) : q = <<>>
    BY <2>1
  <2>3. Gone(bridge[c]) = [bridge[c] EXCEPT !.open = FALSE, !.sub = "none", !.queue = q]
    BY <2>2 DEF Gone
  <2> QED BY <2>1, <2>2, <2>3 DEF BridgeRow
<1>2. /\ bridge' = [c \in Calls |-> Gone(bridge[c])]
      /\ pipe' = [c \in Calls |-> [up |-> <<>>, down |-> <<>>]]
      /\ away' = [d \in Aways |-> Cut(away[d])] /\ UNCHANGED <<sim, asks>>
  BY DEF HomeLost
<1>3. [up |-> <<>>, down |-> <<>>] \in PipeRow
  BY EmptySeq DEF PipeRow
<1>4. away' \in [Aways -> AwayRow]
  BY <1>2, CutIs DEF HomeShape
<1>5. bridge' \in [Calls -> BridgeRow] /\ pipe' \in [Calls -> PipeRow]
  BY <1>1, <1>2, <1>3
<1> QED BY <1>1, <1>2, <1>4, <1>5 DEF HomeShape

(* ---- queues ---- *)

LEMMA RangeEmpty == Range(<<>>) = {}
<1>1. DOMAIN <<>> = {}
  OBVIOUS
<1> QED BY <1>1 DEF Range

LEMMA RangeAppend ==
  ASSUME NEW S, NEW s \in Seq(S), NEW x \in S
  PROVE  Range(Append(s, x)) = Range(s) \union {x}
<1>1. PICK t \in Seq(S) : t = Append(s, x)
  BY AppendProperties
<1>2. Len(t) = Len(s) + 1 /\ t[Len(s)+1] = x /\ \A i \in 1..Len(s) : t[i] = s[i]
  BY <1>1, AppendProperties
<1>3. DOMAIN s = 1..Len(s) /\ DOMAIN t = 1..(Len(s) + 1) /\ Len(s) \in Nat
  BY <1>2, LenProperties
<1>4. Range(t) = Range(s) \union {x}
  <2>1. 1..(Len(s) + 1) = 1..Len(s) \union {Len(s) + 1}
    BY <1>3
  <2> QED BY <1>2, <1>3, <2>1 DEF Range
<1> QED BY <1>1, <1>4

LEMMA RangeTail ==
  ASSUME NEW S, NEW s \in Seq(S), s # <<>>
  PROVE  /\ Range(s) = {Head(s)} \union Range(Tail(s))
         /\ Head(s) \in S /\ Tail(s) \in Seq(S)
         /\ Len(s) >= 1 /\ Head(s) = s[1]
<1>0. Tail(s) \in Seq(S)
  OBVIOUS
<1>1. PICK t \in Seq(S) : t = Tail(s)
  BY <1>0
<1>2. Len(s) = Len(t) + 1 /\ Len(t) \in Nat /\ Head(s) = s[1] /\ Head(s) \in S
  BY <1>1
<1>3. \A i \in 1..Len(t) : t[i] = s[i+1]
  BY <1>1
<1>4. DOMAIN s = 1..(Len(t) + 1) /\ DOMAIN t = 1..Len(t)
  BY <1>2, LenProperties
<1>5. \A i \in 1..(Len(t) + 1) : i # 1 => i - 1 \in 1..Len(t) /\ s[i] = t[i-1]
  <2>1. ASSUME NEW i \in 1..(Len(t) + 1), i # 1 PROVE i - 1 \in 1..Len(t) /\ (i - 1) + 1 = i
    BY <1>2, <2>1
  <2> QED BY <1>3, <2>1
<1>6. \A i \in 1..Len(t) : i + 1 \in 1..(Len(t) + 1)
  BY <1>2
<1>7. Range(s) = {Head(s)} \union Range(t)
  <2>1. ASSUME NEW y \in Range(s) PROVE y \in {Head(s)} \union Range(t)
    <3>1. PICK i \in 1..(Len(t) + 1) : y = s[i]
      BY <1>4 DEF Range
    <3> QED BY <1>2, <1>4, <1>5, <3>1 DEF Range
  <2>2. ASSUME NEW y \in {Head(s)} \union Range(t) PROVE y \in Range(s)
    <3>1. CASE y = Head(s)
      BY <1>2, <1>4, <3>1 DEF Range
    <3>2. CASE y \in Range(t)
      <4>1. PICK i \in 1..Len(t) : y = t[i]
        BY <1>4, <3>2 DEF Range
      <4> QED BY <1>3, <1>4, <1>6, <4>1 DEF Range
    <3> QED BY <3>1, <3>2
  <2> QED BY <2>1, <2>2
<1>8. Len(s) >= 1
  BY <1>2
<1> QED BY <1>1, <1>2, <1>7, <1>8

LEMMA RangeElement ==
  ASSUME NEW S, NEW s \in Seq(S)
  PROVE  /\ Range(s) \subseteq S
         /\ \A i \in 1..Len(s) : s[i] \in Range(s)
         /\ \A x \in Range(s) : \E i \in 1..Len(s) : x = s[i]
<1>1. s \in [1..Len(s) -> S]
  BY LenProperties
<1> QED BY <1>1 DEF Range

(* ---- requests and the frames that stand for them ---- *)

AnyFrame == Frames \union UpFrames

LEMMA Before ==
  ASSUME NEW S, NEW x \in S, NEW b \in Seq(S)
  PROVE  /\ <<x>> \o b \in Seq(S) /\ Len(<<x>> \o b) = 1 + Len(b) /\ (<<x>> \o b)[1] = x
         /\ \A i \in 1..Len(b) : (<<x>> \o b)[1+i] = b[i]
<1>1. <<x>> \in Seq(S) /\ Len(<<x>>) = 1 /\ <<x>>[1] = x
  OBVIOUS
<1>2. PICK o \in Seq(S) : o = <<x>>
  BY <1>1
<1>3. PICK u \in Seq(S) : u = o \o b
  BY ConcatProperties
<1>4. Len(u) = 1 + Len(b) /\ u[1] = x /\ \A i \in 1..Len(b) : u[1+i] = b[i]
  <2>1. Len(u) = Len(o) + Len(b)
        /\ \A i \in 1..Len(u) : u[i] = IF i <= Len(o) THEN o[i] ELSE b[i - Len(o)]
    BY <1>3, ConcatProperties
  <2>2. Len(o) = 1 /\ o[1] = x /\ Len(b) \in Nat
    BY <1>1, <1>2
  <2>3. ASSUME NEW i \in 1..Len(b) PROVE u[1+i] = b[i]
    <3>1. 1 + i \in 1..Len(u) /\ ~(1 + i <= Len(o)) /\ (1 + i) - Len(o) = i
      BY <2>1, <2>2
    <3> QED BY <2>1, <3>1
  <2>4. 1 \in 1..Len(u) /\ 1 <= Len(o)
    BY <2>1, <2>2
  <2> QED BY <2>1, <2>2, <2>3, <2>4
<1> QED BY <1>2, <1>3, <1>4

LEMMA InLineAppend ==
  ASSUME NEW p \in Seq(Asked), NEW s \in Seq(AnyFrame), InLine(p, s), NEW r \in Asked,
         NEW x \in AnyFrame, Fits(r, x)
  PROVE  InLine(Append(p, r), Append(s, x))
<1>1. PICK q \in Seq(Asked) : q = Append(p, r)
  BY AppendProperties
<1>2. PICK t \in Seq(AnyFrame) : t = Append(s, x)
  BY AppendProperties
<1>3. /\ Len(q) = Len(p) + 1 /\ q[Len(p)+1] = r /\ \A i \in 1..Len(p) : q[i] = p[i]
      /\ Len(t) = Len(s) + 1 /\ t[Len(s)+1] = x /\ \A i \in 1..Len(s) : t[i] = s[i]
      /\ Len(p) \in Nat /\ Len(p) = Len(s)
  BY <1>1, <1>2, AppendProperties DEF InLine
<1>4. ASSUME NEW i \in 1..Len(q) PROVE Fits(q[i], t[i])
  <2>1. CASE i \in 1..Len(p)
    <3>1. Fits(p[i], s[i])
      BY <2>1 DEF InLine
    <3> QED BY <1>3, <2>1, <3>1
  <2>2. CASE i = Len(p) + 1
    BY <1>3, <2>2
  <2>3. i \in 1..Len(p) \/ i = Len(p) + 1
    BY <1>3
  <2> QED BY <2>1, <2>2, <2>3
<1> QED BY <1>1, <1>2, <1>3, <1>4 DEF InLine

LEMMA InLineHead ==
  ASSUME NEW p \in Seq(Asked), NEW s \in Seq(AnyFrame), NEW f \in AnyFrame,
         InLine(p, <<f>> \o s)
  PROVE  p # <<>> /\ Fits(Head(p), f) /\ InLine(Tail(p), s)
<1>0. <<f>> \o s \in Seq(AnyFrame)
  BY Before
<1>1. PICK t \in Seq(AnyFrame) : t = <<f>> \o s
  BY <1>0
<1>2. Len(t) = Len(s) + 1 /\ t[1] = f /\ \A i \in 1..Len(s) : t[i+1] = s[i]
  <2>1. Len(t) = 1 + Len(s) /\ t[1] = f /\ \A i \in 1..Len(s) : t[1+i] = s[i]
    BY <1>1, Before
  <2>2. \A i \in 1..Len(s) : 1 + i = i + 1
    OBVIOUS
  <2> QED BY <2>1, <2>2
<1>3. Len(p) = Len(t) /\ \A i \in 1..Len(p) : Fits(p[i], t[i])
  BY <1>1 DEF InLine
<1>4. Len(s) \in Nat /\ Len(p) = Len(s) + 1
  BY <1>2, <1>3
<1>5. p # <<>> /\ 1 \in 1..Len(p)
  BY <1>4
<1>6. PICK q \in Seq(Asked) : q = Tail(p)
  <2>1. Tail(p) \in Seq(Asked)
    BY <1>5, HeadTailProperties
  <2> QED BY <2>1
<1>7. Len(q) = Len(s) /\ Head(p) = p[1] /\ \A i \in 1..Len(q) : q[i] = p[i+1]
  BY <1>4, <1>5, <1>6
<1>8. ASSUME NEW i \in 1..Len(q) PROVE Fits(q[i], s[i])
  <2>1. i + 1 \in 1..Len(p) /\ i \in 1..Len(s)
    BY <1>4, <1>7
  <2>2. Fits(p[i+1], t[i+1])
    BY <1>3, <2>1
  <2> QED BY <1>2, <1>7, <2>1, <2>2
<1>9. Fits(p[1], t[1])
  BY <1>3, <1>5
<1> QED BY <1>2, <1>5, <1>6, <1>7, <1>8, <1>9 DEF InLine

LEMMA Between ==
  ASSUME NEW S, NEW a \in Seq(S), NEW x \in S, NEW b \in Seq(S)
  PROVE  LET t == a \o (<<x>> \o b) IN
         /\ t \in Seq(S) /\ Len(t) = Len(a) + 1 + Len(b)
         /\ \A i \in 1..Len(a) : t[i] = a[i]
         /\ t[Len(a)+1] = x
         /\ \A i \in 1..Len(b) : t[Len(a)+1+i] = b[i]
<1>3. PICK u \in Seq(S) : u = <<x>> \o b
  BY Before
<1>4. Len(u) = 1 + Len(b) /\ u[1] = x /\ \A i \in 1..Len(b) : u[1+i] = b[i]
  BY <1>3, Before
<1>5. PICK t \in Seq(S) : t = a \o u
  BY ConcatProperties
<1>6. Len(t) = Len(a) + Len(u)
      /\ \A i \in 1..Len(t) : t[i] = IF i <= Len(a) THEN a[i] ELSE u[i - Len(a)]
  BY <1>5, ConcatProperties
<1>7. Len(a) \in Nat /\ Len(b) \in Nat
  OBVIOUS
<1>8. \A i \in 1..Len(a) : t[i] = a[i]
  <2>1. ASSUME NEW i \in 1..Len(a) PROVE i \in 1..Len(t) /\ i <= Len(a)
    BY <1>4, <1>6, <1>7
  <2> QED BY <1>6, <2>1
<1>9. t[Len(a)+1] = x
  <2>1. Len(a) + 1 \in 1..Len(t) /\ ~(Len(a) + 1 <= Len(a)) /\ (Len(a) + 1) - Len(a) = 1
    BY <1>4, <1>6, <1>7
  <2>2. t[Len(a)+1] = u[(Len(a) + 1) - Len(a)]
    BY <1>6, <2>1
  <2> QED BY <1>4, <2>1, <2>2
<1>10. ASSUME NEW i \in 1..Len(b) PROVE t[Len(a)+1+i] = b[i]
  <2> DEFINE j == Len(a) + 1 + i
  <2>1. j \in 1..Len(t) /\ ~(j <= Len(a)) /\ j - Len(a) = 1 + i
    BY <1>4, <1>6, <1>7
  <2>2. t[j] = u[j - Len(a)]
    BY <1>6, <2>1
  <2> QED BY <1>4, <2>1, <2>2
<1> QED BY <1>3, <1>4, <1>5, <1>6, <1>8, <1>9, <1>10

(* One frame takes the place of another.                                     *)
LEMMA InLineSwap ==
  ASSUME NEW p \in Seq(Asked), NEW a \in Seq(AnyFrame), NEW b \in Seq(AnyFrame),
         NEW r \in AnyFrame, NEW x \in AnyFrame,
         InLine(p, a \o (<<r>> \o b)), \A q \in Asked : Fits(q, r) => Fits(q, x)
  PROVE  InLine(p, a \o (<<x>> \o b))
<1>1. PICK s \in Seq(AnyFrame) : s = a \o (<<r>> \o b)
  BY Between
<1>2. PICK t \in Seq(AnyFrame) : t = a \o (<<x>> \o b)
  BY Between
<1>3. /\ Len(s) = Len(a) + 1 + Len(b) /\ s[Len(a)+1] = r
      /\ \A i \in 1..Len(a) : s[i] = a[i]
      /\ \A i \in 1..Len(b) : s[Len(a)+1+i] = b[i]
  BY <1>1, Between
<1>4. /\ Len(t) = Len(a) + 1 + Len(b) /\ t[Len(a)+1] = x
      /\ \A i \in 1..Len(a) : t[i] = a[i]
      /\ \A i \in 1..Len(b) : t[Len(a)+1+i] = b[i]
  BY <1>2, Between
<1>5. Len(p) = Len(s) /\ \A i \in 1..Len(p) : Fits(p[i], s[i])
  BY <1>1 DEF InLine
<1>6. ASSUME NEW i \in 1..Len(p) PROVE Fits(p[i], t[i])
  <2>0. Len(a) \in Nat /\ Len(b) \in Nat /\ p[i] \in Asked
    OBVIOUS
  <2>1. CASE i \in 1..Len(a)
    BY <1>3, <1>4, <1>5, <2>1
  <2>2. CASE i = Len(a) + 1
    BY <1>3, <1>4, <1>5, <2>0, <2>2
  <2>3. CASE i > Len(a) + 1
    <3>1. i - (Len(a) + 1) \in 1..Len(b) /\ Len(a) + 1 + (i - (Len(a) + 1)) = i
      BY <1>3, <1>5, <2>0, <2>3
    <3>2. t[i] = s[i]
      BY <1>3, <1>4, <3>1
    <3> QED BY <1>5, <3>2
  <2> QED BY <2>0, <2>1, <2>2, <2>3
<1> QED BY <1>2, <1>3, <1>4, <1>5, <1>6 DEF InLine

(* ---- what stands as long as nobody touches it ---- *)

LEMMA DeviceRow ==
  ASSUME HomeShape, NEW d \in Aways
  PROVE  /\ away[d] \in AwayRow /\ away[d].pend \in Seq(Asked)
         /\ away[d].conn # 0 => away[d].conn \in Calls
         /\ sim.total \in Nat /\ sim.total <= MaxOutput /\ MaxOutput \in Nat
         /\ away[d].from \in Nat
  BY HomeAssumption DEF HomeShape, AwayRow

LEMMA CallRow ==
  ASSUME HomeShape, NEW c \in Calls
  PROVE  /\ bridge[c] \in BridgeRow /\ pipe[c] \in PipeRow
         /\ bridge[c].queue \in Seq(CtlRequests)
         /\ pipe[c].up \in Seq(UpFrames) /\ pipe[c].down \in Seq(Frames)
  BY DEF HomeShape, BridgeRow, PipeRow

(* A device that is owed a byte has subscribed.                              *)
LEMMA OwedIsAsked ==
  ASSUME HomeShape, NEW d \in Aways, NEW b \in Owed(d)
  PROVE  /\ b \in Nat /\ b >= 1 /\ b <= sim.total /\ away[d].from < b
         /\ b + Keep > sim.total /\ away[d].from # NothingOwed
<1>1. b \in 1..sim.total /\ b > away[d].from /\ b + Keep > sim.total
  BY DEF Owed
<1> QED BY <1>1, DeviceRow DEF NothingOwed

Grown == /\ sim'.total = sim.total /\ (sim.shell => sim'.shell) /\ (sim.stray => sim'.stray)

SameCall(c) == pipe'[c] = pipe[c] /\ bridge'[c] = bridge[c]

LEMMA CallUnmoved ==
  ASSUME Grown, NEW c, CallStands(c), SameCall(c)
  PROVE  CallStands(c)'
  BY DEF CallStands, Grown, SameCall, FromStart

LEMMA DeviceUnmoved ==
  ASSUME Grown, NEW d, DeviceStands(d), away'[d] = away[d],
         away[d].conn # 0 => SameCall(away[d].conn)
  PROVE  DeviceStands(d)'
<1>1. Connected(d)'
  BY DEF Connected, DeviceStands, Grown, SameCall
<1>2. PendStands(d)'
  BY DEF PendStands, DeviceStands
<1>3. NothingYet(d)'
  BY DEF NothingYet, DeviceStands, SameCall, NothingOwed
<1>4. GreetsFirst(d)'
  BY DEF GreetsFirst, Greets, DeviceStands, SameCall, NothingOwed, Grown
<1>5. RepliesFit(d)'
  BY DEF RepliesFit, Line, DeviceStands, SameCall, Grown
<1>6. OwedIsComing(d)'
  <2>1. CASE sim'.stray
    BY <2>1 DEF OwedIsComing
  <2>2. CASE Follows(d)' /\ ~sim'.stray
    <3>1. SameCall(away[d].conn) /\ Follows(d) /\ ~sim.stray
      BY <2>2 DEF Follows, SameCall, Grown
    <3>2. Owed(d)' = Owed(d)
      BY DEF Owed, Grown
    <3>3. Attaching(d)' <=> Attaching(d)
      BY DEF Attaching
    <3>4. ASSUME NEW b, NEW ids, Coming(d, b, ids) PROVE Coming(d, b, ids)'
      BY <3>1, <3>4 DEF Coming, Shows, TurnedDown, AsksIn, SameCall
    <3>5. \A b \in Owed(d) :
             /\ ~away[d].failed /\ ~away[d].over => Coming(d, b, Nat)
             /\ Attaching(d) => Coming(d, b, {away[d].waiting})
      BY <3>1 DEF DeviceStands, OwedIsComing
    <3>6. ASSUME NEW b \in Owed(d)'
          PROVE  /\ (~away[d].failed /\ ~away[d].over => Coming(d, b, Nat))'
                 /\ (Attaching(d) => Coming(d, b, {away[d].waiting}))'
      <4>1. b \in Owed(d)
        BY <3>2, <3>6
      <4>2. ~away[d].failed /\ ~away[d].over => Coming(d, b, Nat)'
        BY <3>4, <3>5, <4>1
      <4>3. Attaching(d) => Coming(d, b, {away[d].waiting})'
        <5>1. Coming(d, b, {away[d].waiting}) => Coming(d, b, {away[d].waiting})'
          BY <3>1 DEF Coming, Shows, TurnedDown, AsksIn, SameCall
        <5> QED BY <3>5, <4>1, <5>1
      <4> QED BY <3>3, <4>2, <4>3
    <3> QED BY <3>6 DEF OwedIsComing
  <2>3. CASE ~Follows(d)'
    BY <2>3 DEF OwedIsComing
  <2> QED BY <2>1, <2>2, <2>3
<1> QED BY <1>1, <1>2, <1>3, <1>4, <1>5, <1>6 DEF DeviceStands

(* ---- the shell says something ---- *)

LEMMA EmittedRange ==
  ASSUME HomeShape, NEW c \in Calls, NEW bytes \in Seq(1..MaxOutput)
  PROVE  /\ Emitted(pipe[c], c, bytes) \in Seq(Frames)
         /\ Range(Emitted(pipe[c], c, bytes)) =
               Range(pipe[c].down) \union (IF Hears(c) THEN {Datum(bytes)} ELSE {})
         /\ Awaited(Emitted(pipe[c], c, bytes)) = Awaited(pipe[c].down)
<1> DEFINE x == Datum(bytes)
<1>1. x \in Frames /\ ~Awaitable(x)
  BY DEF Datum, Frames, Awaitable
<1>2. pipe[c].down \in Seq(Frames)
  BY CallRow
<1>3. Emitted(pipe[c], c, bytes) = IF Hears(c) THEN Append(pipe[c].down, x) ELSE pipe[c].down
  BY DEF Emitted
<1> HIDE DEF x
<1>4. Append(pipe[c].down, x) \in Seq(Frames)
  BY <1>1, <1>2, AppendProperties
<1>5. Range(Append(pipe[c].down, x)) = Range(pipe[c].down) \union {x}
  BY <1>1, <1>2, RangeAppend
<1>6. Awaited(Append(pipe[c].down, x)) = Awaited(pipe[c].down)
  BY <1>1, <1>2, AwaitedAppend DEF Sifted
<1> QED BY <1>2, <1>3, <1>4, <1>5, <1>6 DEF x

LEMMA AwaitedRange ==
  ASSUME NEW S, NEW s \in Seq(S)
  PROVE  \A x \in Range(Awaited(s)) : x \in Range(s) /\ Awaitable(x)
<1>1. Awaited(s) \in Seq(S)
  BY AwaitedSeq
<1>2. ASSUME NEW x \in Range(Awaited(s)) PROVE x \in Range(s) /\ Awaitable(x)
  <2>1. \E i \in 1..Len(Awaited(s)) : Awaited(s)[i] = x
    <3>1. PICK w \in Seq(S) : w = Awaited(s)
      BY <1>1
    <3>2. \E i \in 1..Len(w) : x = w[i]
      BY <1>2, <3>1, RangeElement
    <3> QED BY <3>1, <3>2
  <2>2. Awaitable(x) /\ \E i \in 1..Len(s) : s[i] = x
    BY <2>1, AwaitedElements
  <2> QED BY <2>2, RangeElement
<1> QED BY <1>2

(* What a request that is pending and not yet at the bridge looks like.      *)
LEMMA StillOnItsWay ==
  ASSUME HomeShape, NEW d \in Aways, NEW c \in Calls, c = away[d].conn,
         InLine(away[d].pend, Line(d)), pipe[c].down = <<>>, bridge[c].queue = <<>>,
         NEW r \in Range(away[d].pend)
  PROVE  \E x \in Range(pipe[c].up) : x.id = r.id /\ x.k = r.k
<1> DEFINE u == pipe[c].up
           w == Awaited(u)
<1>1. u \in Seq(UpFrames) /\ w \in Seq(UpFrames)
  BY CallRow, AwaitedSeq
<1>2. Line(d) = w
  <2>1. Line(d) = <<>> \o <<>> \o w
    BY AwaitedEmpty DEF Line
  <2>2. <<>> \o <<>> \o w = w
    BY <1>1, ConcatEmptySeq, EmptySeq
  <2> QED BY <2>1, <2>2
<1>3. away[d].pend \in Seq(Asked)
  BY DeviceRow
<1>4. PICK i \in 1..Len(away[d].pend) : r = away[d].pend[i]
  BY <1>3, RangeElement
<1>5. i \in 1..Len(w) /\ Fits(r, w[i])
  BY <1>2, <1>4 DEF InLine
<1>6. w[i] \in Range(u) /\ Awaitable(w[i])
  <2>1. w[i] \in Range(w)
    BY <1>1, <1>5, RangeElement
  <2> QED BY <1>1, <2>1, AwaitedRange
<1>7. w[i] \in UpFrames /\ r \in Asked
  BY <1>1, <1>3, <1>4, <1>5
<1>8. w[i].k \in {"attach", "spawn"} /\ r.k \in {"attach", "spawn"}
  BY <1>6, <1>7 DEF UpFrames, CtlRequests, Announce, Hangup, Awaitable, Asked
<1>9. w[i].k = r.k /\ w[i].id = r.id
  BY <1>5, <1>8 DEF Fits, Expected
<1> QED BY <1>6, <1>9

(* What keeps a byte coming when frames and requests are only added.         *)
LEMMA ComingGrows ==
  ASSUME NEW d, NEW b, NEW ids, Coming(d, b, ids), UNCHANGED away,
         Range(pipe[away[d].conn].down) \subseteq Range(pipe'[away[d].conn].down),
         Range(pipe[away[d].conn].up) \subseteq Range(pipe'[away[d].conn].up),
         Range(bridge[away[d].conn].queue) \subseteq Range(bridge'[away[d].conn].queue)
  PROVE  Coming(d, b, ids)'
  BY DEF Coming, Shows, TurnedDown, AsksIn

LEMMA SaidKeeps ==
  ASSUME HomeInv, HomeShape', UNCHANGED <<bridge, away>>, NEW bytes \in Seq(1..MaxOutput),
         sim'.shell = sim.shell, sim'.stray = sim.stray, sim.shell, Said(bytes),
         sim.total <= sim'.total, Range(bytes) \subseteq 1..sim'.total,
         \A b \in 1..sim'.total : b \in 1..sim.total \/ b \in Range(bytes)
  PROVE  HomeInv'
<1>1. HomeShape /\ CallsInOrder /\ (\A c \in Calls : CallStands(c))
      /\ (\A d \in Aways : DeviceStands(d))
  BY DEF HomeInv
<1>2. sim.total \in Nat /\ sim'.total \in Nat /\ Keep \in Nat
      /\ 1..sim.total \subseteq 1..sim'.total
  <2>1. sim.total \in Nat /\ sim'.total \in Nat /\ Keep \in Nat
    BY <1>1, HomeAssumption DEF HomeShape
  <2> QED BY <2>1
<1>3. ASSUME NEW c \in Calls
      PROVE  /\ pipe'[c].up = pipe[c].up /\ pipe'[c].down = Emitted(pipe[c], c, bytes)
             /\ Range(pipe'[c].down) =
                   Range(pipe[c].down) \union (IF Hears(c) THEN {Datum(bytes)} ELSE {})
             /\ Awaited(pipe'[c].down) = Awaited(pipe[c].down)
  BY <1>1, EmittedRange DEF Said
<1>4. CallsInOrder'
  BY <1>1 DEF CallsInOrder
<1>5. ASSUME NEW c \in Calls PROVE CallStands(c)'
  <2>1. CallStands(c)
    BY <1>1
  <2>2. ~bridge[c].used => pipe'[c].down = <<>> /\ pipe'[c].up = <<>>
    <3>1. ASSUME ~bridge[c].used PROVE ~Hears(c)
      BY <1>1, <3>1 DEF Hears, Held, DeviceStands, Connected, CallStands
    <3> QED BY <1>3, <2>1, <3>1 DEF Emitted, CallStands
  <2>3. FromStart(pipe'[c].up)
    BY <1>3, <2>1 DEF CallStands
  <2>4. ASSUME NEW x \in Range(pipe'[c].down)
        PROVE  /\ x.k = "data" => Range(x.bytes) \subseteq 1..sim'.total
               /\ x.k \in {"attached", "spawned"} => sim'.shell
    <3>1. CASE x \in Range(pipe[c].down)
      BY <1>2, <2>1, <3>1 DEF CallStands
    <3>2. CASE x = Datum(bytes)
      BY <3>2 DEF Datum
    <3> QED BY <1>3, <2>4, <3>1, <3>2
  <2> QED BY <2>1, <2>2, <2>3, <2>4 DEF CallStands, FromStart
<1>6. ASSUME NEW d \in Aways PROVE DeviceStands(d)'
  <2> DEFINE c == away[d].conn
  <2>1. DeviceStands(d) /\ (c # 0 => c \in Calls)
    BY <1>1, DeviceRow
  <2>2. c # 0 => /\ pipe'[c].up = pipe[c].up
                 /\ Range(pipe[c].down) \subseteq Range(pipe'[c].down)
                 /\ Awaited(pipe'[c].down) = Awaited(pipe[c].down)
    BY <1>3, <2>1
  <2>3. Connected(d)'
    BY <1>2, <2>1, <2>2 DEF DeviceStands, Connected
  <2>4. PendStands(d)' /\ NothingYet(d)'
    BY <2>1, <2>2 DEF DeviceStands, PendStands, NothingYet, NothingOwed
  <2>5. GreetsFirst(d)'
    <3>1. SUFFICES ASSUME c # 0, away[d].listening, bridge[c].sub = "none",
                          away[d].from # NothingOwed
                   PROVE  Greets(d)'
      BY DEF GreetsFirst, NothingOwed
    <3>2. Greets(d)
      BY <2>1, <3>1 DEF DeviceStands, GreetsFirst
    <3>3. pipe'[c].down = pipe[c].down
      BY <1>3, <2>1, <3>1 DEF Emitted, Hears
    <3>4. pipe[c].up[2].since <= sim.total => pipe[c].up[2].since <= sim'.total
      <4>1. pipe[c].up[2].since \in Nat
        <5>1. Len(pipe[c].up) >= 2 /\ pipe[c].up \in Seq(UpFrames)
          BY <1>1, <2>1, <3>1, <3>2, CallRow DEF Greets
        <5>2. pipe[c].up[2] \in UpFrames
          BY <5>1
        <5> QED BY <5>2 DEF UpFrames, CtlRequests, Announce, Hangup
      <4> QED BY <1>2, <4>1
    <3> QED BY <2>2, <3>1, <3>2, <3>3, <3>4 DEF Greets
  <2>6. RepliesFit(d)'
    BY <2>1, <2>2 DEF DeviceStands, RepliesFit, Line
  <2>7. OwedIsComing(d)'
    <3>1. SUFFICES ASSUME ~sim.stray, c # 0, Follows(d), NEW b \in Owed(d)'
                   PROVE  /\ (~away[d].failed /\ ~away[d].over => Coming(d, b, Nat))'
                          /\ (Attaching(d) => Coming(d, b, {away[d].waiting}))'
      <4>1. Follows(d)' <=> Follows(d)
        BY DEF Follows
      <4>2. Follows(d) => c # 0
        BY DEF Follows
      <4> QED BY <4>1, <4>2 DEF OwedIsComing
    <3>2. /\ ~away[d].failed /\ ~away[d].over /\ b \in Owed(d) => Coming(d, b, Nat)
          /\ Attaching(d) /\ b \in Owed(d) => Coming(d, b, {away[d].waiting})
      BY <2>1, <3>1 DEF DeviceStands, OwedIsComing
    <3>3. ASSUME NEW ids, Coming(d, b, ids) PROVE Coming(d, b, ids)'
      BY <2>2, <3>1, <3>3, ComingGrows
    <3>4. CASE b \in Owed(d)
      <4>1. Coming(d, b, Nat) => Coming(d, b, Nat)'
        BY <3>3
      <4>2. Coming(d, b, {away[d].waiting}) => Coming(d, b, {away[d].waiting})'
        BY <2>2, <3>1, ComingGrows
      <4> QED BY <3>2, <3>4, <4>1, <4>2 DEF Attaching
    <3>5. CASE b \notin Owed(d)
      <4>1. b \in 1..sim'.total /\ b > away[d].from /\ b + Keep > sim'.total
        BY DEF Owed
      <4>2. away[d].from \in Nat /\ away[d].from # NothingOwed /\ b \notin 1..sim.total
            /\ b \in Range(bytes)
        <5>1. b \in Nat /\ away[d].from \in Nat /\ sim'.total <= MaxOutput /\ MaxOutput \in Nat
          BY <1>1, <4>1, DeviceRow, HomeAssumption DEF HomeShape
        <5>2. b \in 1..sim.total => b \in Owed(d)
          BY <1>2, <4>1, <5>1 DEF Owed
        <5>3. b \notin 1..sim.total /\ b \in Range(bytes)
          BY <3>5, <4>1, <5>2
        <5>4. away[d].from # MaxOutput
          BY <4>1, <5>1, <1>2
        <5> QED BY <5>1, <5>3, <5>4 DEF NothingOwed
      <4>3. CASE bridge[c].sub = "live"
        <5>1. Hears(c)
          BY <4>3 DEF Hears, Held
        <5>2. Datum(bytes) \in Range(pipe'[c].down)
          BY <1>3, <2>1, <3>1, <5>1
        <5>3. Shows(d, b)'
          BY <4>2, <5>2 DEF Shows, Datum
        <5> QED BY <5>3 DEF Coming
      <4>4. CASE bridge[c].sub = "none"
        <5>1. Greets(d)
          BY <2>1, <3>1, <4>2, <4>4 DEF DeviceStands, GreetsFirst, Follows
        <5>2. /\ c \in Calls /\ pipe[c].up \in Seq(UpFrames) /\ Len(pipe[c].up) >= 2
              /\ pipe[c].up[2].k = "attach"
              /\ away[d].over \/ pipe[c].up[2].since <= away[d].from
                 \/ pipe[c].up[2].since <= sim.total
          BY <1>1, <2>1, <3>1, <5>1, CallRow DEF Greets
        <5>3. PICK g \in UpFrames : g = pipe[c].up[2] /\ g \in Range(pipe[c].up)
          <6>1. 2 \in 1..Len(pipe[c].up)
            BY <5>2
          <6> QED BY <5>2, <6>1, RangeElement
        <5>4. g.k = "attach" /\ g.id \in Nat /\ g.since \in Nat
          BY <5>2, <5>3 DEF UpFrames, CtlRequests, Announce, Hangup
        <5>5. ~away[d].over => g.since < b
          <6>1. b > sim.total /\ b \in Nat
            BY <1>2, <4>1, <4>2
          <6>2. ~away[d].over => g.since <= away[d].from \/ g.since <= sim.total
            BY <5>2, <5>3
          <6> QED BY <1>2, <4>1, <4>2, <5>4, <6>1, <6>2
        <5>6. ~away[d].over => Coming(d, b, Nat)'
          BY <2>2, <3>1, <5>3, <5>4, <5>5 DEF Coming, AsksIn
        <5>7. Attaching(d) => Coming(d, b, {away[d].waiting})'
          <6>1. SUFFICES ASSUME NEW r \in Range(away[d].pend), r.k = "attach", r.id # 0
                         PROVE  Coming(d, b, {away[d].waiting})'
            BY DEF Attaching
          <6>2. InLine(away[d].pend, Line(d)) /\ r.id = away[d].waiting
            BY <2>1, <3>1, <6>1 DEF DeviceStands, RepliesFit, PendStands
          <6>3. pipe[c].down = <<>> /\ bridge[c].queue = <<>>
            BY <5>1 DEF Greets
          <6>4. PICK x \in Range(pipe[c].up) : x.id = r.id /\ x.k = r.k
            BY <1>1, <5>2, <6>2, <6>3, StillOnItsWay
          <6>5. x.since = 0
            BY <1>1, <5>2, <6>1, <6>4 DEF CallStands, FromStart
          <6>6. x.since < b
            BY <4>1, <6>5
          <6> QED BY <2>2, <3>1, <6>1, <6>2, <6>4, <6>6 DEF Coming, AsksIn
        <5> QED BY <5>6, <5>7 DEF Attaching
      <4> QED BY <1>1, <2>1, <3>1, <4>3, <4>4, CallRow DEF Follows, BridgeRow
    <3> QED BY <3>4, <3>5
  <2> QED BY <2>3, <2>4, <2>5, <2>6, <2>7 DEF DeviceStands
<1> QED BY <1>4, <1>5, <1>6 DEF HomeInv

LEMMA OutputKeeps ==
  ASSUME HomeInv, Output
  PROVE  HomeInv'
<1>1. HomeShape /\ sim.total \in Nat
  BY DEF HomeInv, HomeShape
<1>2. PICK bytes \in Seq(1..MaxOutput) : bytes = <<sim.total + 1>>
  BY <1>1, OutputSays
<1>3. /\ HomeShape' /\ UNCHANGED <<bridge, away>> /\ sim'.shell = sim.shell
      /\ sim'.stray = sim.stray /\ sim.shell /\ Said(bytes)
      /\ sim'.total = sim.total + 1 /\ Range(bytes) = {sim.total + 1}
  BY <1>1, <1>2, OutputSays
<1> QED BY <1>1, <1>3, SaidKeeps

LEMMA DeskAttachKeeps ==
  ASSUME HomeInv, DeskAttach
  PROVE  HomeInv'
<1>1. HomeShape /\ sim.total \in Nat
  BY DEF HomeInv, HomeShape
<1>2. PICK bytes \in Seq(1..MaxOutput) : bytes = Scrollback(0)
  BY <1>1, DeskSays
<1>3. /\ HomeShape' /\ UNCHANGED <<bridge, away, sim>> /\ Said(bytes)
      /\ Range(bytes) \subseteq 1..sim.total /\ sim.shell
  BY <1>1, <1>2, DeskSays DEF DeskAttach
<1>4. /\ sim'.shell = sim.shell /\ sim'.stray = sim.stray /\ sim'.total = sim.total
      /\ sim.total <= sim'.total /\ Range(bytes) \subseteq 1..sim'.total
      /\ \A b \in 1..sim'.total : b \in 1..sim.total \/ b \in Range(bytes)
  <2>1. sim' = sim
    BY <1>3
  <2>2. sim'.shell = sim.shell /\ sim'.stray = sim.stray /\ sim'.total = sim.total
    BY <2>1
  <2>3. sim.total <= sim.total
    BY <1>1
  <2> QED BY <1>3, <2>2, <2>3
<1> QED BY <1>3, <1>4, SaidKeeps

LEMMA SeatMovesKeeps ==
  ASSUME HomeInv, SeatMoves
  PROVE  HomeInv'
<1>1. HomeShape
  BY DEF HomeInv
<1>2. /\ HomeShape' /\ UNCHANGED <<bridge, pipe, away>> /\ Grown
      /\ sim'.shell = sim.shell /\ sim'.total = sim.total
  BY <1>1, SeatOnly DEF Grown
<1>3. ASSUME NEW c PROVE SameCall(c)
  BY <1>2 DEF SameCall
<1>4. \A c \in Calls : CallStands(c)'
  BY <1>2, <1>3, CallUnmoved DEF HomeInv
<1>5. \A d \in Aways : DeviceStands(d)'
  BY <1>2, <1>3, DeviceUnmoved DEF HomeInv
<1>6. CallsInOrder'
  BY <1>2 DEF HomeInv, CallsInOrder
<1> QED BY <1>2, <1>4, <1>5, <1>6 DEF HomeInv

(* ---- the bridge ---- *)

LEMMA BridgeFields ==
  ASSUME NEW b \in BridgeRow
  PROVE  /\ BridgeSubscribed(b).used = b.used /\ BridgeSubscribed(b).queue = b.queue
         /\ BridgeSubscribed(b).sub \in {"live", "dud"}
         /\ b.sub # "none" => BridgeSubscribed(b).sub = b.sub
         /\ Gone(b).used = b.used /\ Gone(b).queue = <<>>
         /\ \A f : /\ Queued(b, f).used = b.used /\ Queued(b, f).sub = b.sub
                   /\ Queued(b, f).queue = Append(b.queue, f)
<1>1. PICK q : q = IF b.sub # "none" THEN b.sub
                   ELSE IF sim.shell /\ sim.seat THEN "live" ELSE "dud"
  OBVIOUS
<1>2. BridgeSubscribed(b) = [b EXCEPT !.sub = q]
  BY <1>1 DEF BridgeSubscribed
<1>3. b.sub \in {"none", "live", "dud"}
  BY DEF BridgeRow
<1>4. /\ BridgeSubscribed(b).used = b.used /\ BridgeSubscribed(b).queue = b.queue
      /\ BridgeSubscribed(b).sub = q
  BY <1>2 DEF BridgeRow
<1>5. q \in {"live", "dud"} /\ (b.sub # "none" => q = b.sub)
  BY <1>1, <1>3
<1>6. Gone(b).used = b.used /\ Gone(b).queue = <<>>
  BY DEF Gone, BridgeRow
<1>7. ASSUME NEW f PROVE /\ Queued(b, f).used = b.used /\ Queued(b, f).sub = b.sub
                         /\ Queued(b, f).queue = Append(b.queue, f)
  BY DEF Queued, BridgeRow
<1> QED BY <1>4, <1>5, <1>6, <1>7

LEMMA InAnyFrame ==
  /\ Seq(Frames) \subseteq Seq(AnyFrame) /\ Seq(UpFrames) \subseteq Seq(AnyFrame)
  /\ Seq(CtlRequests) \subseteq Seq(AnyFrame) /\ CtlRequests \subseteq UpFrames
  /\ Frames \subseteq AnyFrame /\ UpFrames \subseteq AnyFrame
<1>1. Frames \subseteq AnyFrame /\ UpFrames \subseteq AnyFrame /\ CtlRequests \subseteq UpFrames
      /\ CtlRequests \subseteq AnyFrame
  BY DEF AnyFrame, UpFrames
<1>2. ASSUME NEW S, NEW T, S \subseteq T PROVE Seq(S) \subseteq Seq(T)
  BY <1>2
<1> QED BY <1>1, <1>2

LEMMA LineParts ==
  ASSUME HomeShape, NEW c \in Calls
  PROVE  /\ Awaited(pipe[c].down) \in Seq(AnyFrame)
         /\ Awaited(bridge[c].queue) \in Seq(AnyFrame)
         /\ Awaited(pipe[c].up) \in Seq(AnyFrame)
<1>1. /\ pipe[c].down \in Seq(AnyFrame) /\ bridge[c].queue \in Seq(AnyFrame)
      /\ pipe[c].up \in Seq(AnyFrame)
  BY CallRow, InAnyFrame
<1> QED BY <1>1, AwaitedSeq

(* A request that goes from one queue to the next keeps its place.           *)
LEMMA MovesUp ==
  ASSUME NEW a \in Seq(AnyFrame), NEW q \in Seq(AnyFrame), NEW u \in Seq(AnyFrame),
         NEW f \in AnyFrame
  PROVE  a \o Sifted(q, f) \o u = a \o q \o (Sifted(<<>>, f) \o u)
<1>1. CASE Awaitable(f)
  <2>1. Sifted(q, f) = Append(q, f) /\ Sifted(<<>>, f) = <<f>>
    <3>1. Append(<<>>, f) = <<f>>
      OBVIOUS
    <3> QED BY <1>1, <3>1 DEF Sifted
  <2>2. PICK o \in Seq(AnyFrame) : o = <<f>>
    <3>1. <<f>> \in Seq(AnyFrame)
      OBVIOUS
    <3> QED BY <3>1
  <2>3. Append(q, f) = q \o o
    BY <2>2, AppendIsConcat
  <2>4. q \o o \in Seq(AnyFrame) /\ a \o q \in Seq(AnyFrame) /\ o \o u \in Seq(AnyFrame)
    BY ConcatProperties
  <2>5. PICK v \in Seq(AnyFrame) : v = a \o q
    BY <2>4
  <2>6. v \o o = a \o (q \o o)
    BY <2>5, ConcatAssociative
  <2>7. (v \o o) \o u = v \o (o \o u)
    BY <2>2, <2>5, ConcatAssociative
  <2> QED BY <2>1, <2>2, <2>3, <2>5, <2>6, <2>7
<1>2. CASE ~Awaitable(f)
  <2>1. Sifted(q, f) = q /\ Sifted(<<>>, f) = <<>>
    BY <1>2 DEF Sifted
  <2>2. <<>> \o u = u
    BY ConcatEmptySeq
  <2> QED BY <2>1, <2>2
<1> QED BY <1>1, <1>2

LEMMA BridgeReceiveKeeps ==
  ASSUME HomeInv, NEW c \in Calls, BridgeReceive(c)
  PROVE  HomeInv'
<1> DEFINE f == Head(pipe[c].up)
<1>1. HomeShape /\ CallsInOrder /\ (\A x \in Calls : CallStands(x))
      /\ (\A d \in Aways : DeviceStands(d))
  BY DEF HomeInv
<1>2. /\ HomeShape' /\ UNCHANGED sim
      /\ pipe[c].up # <<>> /\ f \in UpFrames
      /\ pipe'[c].up = Tail(pipe[c].up) /\ pipe'[c].down = pipe[c].down
      /\ \A x \in Calls : x # c => pipe'[x] = pipe[x] /\ bridge'[x] = bridge[x]
      /\ f.k = "announce" => bridge'[c] = BridgeSubscribed(bridge[c])
      /\ f.k = "close" => bridge'[c] = Gone(bridge[c])
      /\ f.k \notin {"announce", "close"} =>
            f \in CtlRequests /\ bridge'[c] = Queued(bridge[c], f)
      /\ \A d \in Aways :
            away'[d] = IF f.k = "announce" /\ away[d].conn = c /\ away[d].from = NothingOwed
                       THEN [away[d] EXCEPT !.from = sim.total] ELSE away[d]
  BY <1>1, BridgeReceived
<1>3. Grown
  BY <1>2 DEF Grown
<1>4. /\ bridge[c] \in BridgeRow /\ pipe[c].up \in Seq(UpFrames)
      /\ bridge[c].queue \in Seq(CtlRequests)
  BY <1>1, CallRow
<1>5. Range(pipe[c].up) = {f} \union Range(pipe'[c].up)
  BY <1>2, <1>4, RangeTail
<1>6. /\ bridge'[c].used = bridge[c].used
      /\ f.k = "announce" => bridge'[c].queue = bridge[c].queue
                             /\ bridge'[c].sub \in {"live", "dud"}
                             /\ (bridge[c].sub # "none" => bridge'[c].sub = bridge[c].sub)
      /\ f.k = "close" => bridge'[c].queue = <<>>
      /\ f.k \notin {"announce", "close"} =>
            f \in CtlRequests /\ bridge'[c].queue = Append(bridge[c].queue, f)
            /\ Range(bridge'[c].queue) = Range(bridge[c].queue) \union {f}
            /\ bridge'[c].sub = bridge[c].sub
  <2>1. CASE f.k = "announce"
    BY <1>2, <1>4, <2>1, BridgeFields
  <2>2. CASE f.k = "close"
    BY <1>2, <1>4, <2>2, BridgeFields
  <2>3. CASE f.k \notin {"announce", "close"}
    <3>1. f \in CtlRequests /\ bridge'[c] = Queued(bridge[c], f)
      BY <1>2, <2>3
    <3>2. bridge'[c].used = bridge[c].used /\ bridge'[c].sub = bridge[c].sub
          /\ bridge'[c].queue = Append(bridge[c].queue, f)
      BY <1>4, <3>1, BridgeFields
    <3>3. Range(Append(bridge[c].queue, f)) = Range(bridge[c].queue) \union {f}
      BY <1>4, <3>1, RangeAppend
    <3> QED BY <2>3, <3>1, <3>2, <3>3
  <2> QED BY <2>1, <2>2, <2>3
<1>7. \A x \in Calls : x # c => SameCall(x)
  BY <1>2 DEF SameCall
<1>8. ASSUME NEW d \in Aways
      PROVE  /\ away'[d].conn = away[d].conn /\ away'[d].listening = away[d].listening
             /\ away'[d].pend = away[d].pend /\ away'[d].waiting = away[d].waiting
             /\ away'[d].shown = away[d].shown /\ away'[d].failed = away[d].failed
             /\ away'[d].over = away[d].over
             /\ away[d].conn # c => away'[d] = away[d]
             /\ away'[d].from = IF f.k = "announce" /\ away[d].conn = c
                                   /\ away[d].from = NothingOwed
                                THEN sim.total ELSE away[d].from
  <2>1. away[d] \in AwayRow
    BY <1>1, DeviceRow
  <2>2. CASE f.k = "announce" /\ away[d].conn = c /\ away[d].from = NothingOwed
    <3>1. away'[d] = [away[d] EXCEPT !.from = sim.total]
      BY <1>2, <2>2
    <3> QED BY <2>1, <2>2, <3>1 DEF AwayRow
  <2>3. CASE ~(f.k = "announce" /\ away[d].conn = c /\ away[d].from = NothingOwed)
    <3>1. away'[d] = away[d]
      BY <1>2, <2>3
    <3> QED BY <2>3, <3>1
  <2> QED BY <2>2, <2>3
<1> HIDE DEF f
<1>9. CallsInOrder'
  <2>1. \A x \in Calls : bridge'[x].used = bridge[x].used
    BY <1>2, <1>6
  <2>2. {x \in Calls : bridge'[x].used} = {x \in Calls : bridge[x].used}
    BY <2>1
  <2> QED BY <1>1, <1>8, <2>2 DEF CallsInOrder
<1>10. ASSUME NEW x \in Calls PROVE CallStands(x)'
  <2>1. CASE x # c
    BY <1>1, <1>3, <1>7, <2>1, CallUnmoved
  <2>2. CASE x = c
    <3>1. CallStands(c)
      BY <1>1
    <3>2. FromStart(bridge'[c].queue)
      <4>1. CASE f.k = "close"
        BY <1>6, <4>1, RangeEmpty DEF FromStart
      <4>2. CASE f.k = "announce"
        BY <1>6, <3>1, <4>2 DEF CallStands
      <4>3. CASE f.k \notin {"announce", "close"}
        BY <1>5, <1>6, <3>1, <4>3 DEF CallStands, FromStart
      <4> QED BY <4>1, <4>2, <4>3
    <3>3. FromStart(pipe'[c].up)
      BY <1>5, <3>1 DEF CallStands, FromStart
    <3>4. bridge'[c].used
      BY <1>2, <1>6, <3>1 DEF CallStands
    <3>5. \A y \in Range(pipe'[c].down) :
             /\ y.k = "data" => Range(y.bytes) \subseteq 1..sim'.total
             /\ y.k \in {"attached", "spawned"} => sim'.shell
      BY <1>2, <3>1 DEF CallStands
    <3>6. CallStands(c)'
      BY <3>2, <3>3, <3>4, <3>5 DEF CallStands, FromStart
    <3> QED BY <2>2, <3>6
  <2> QED BY <2>1, <2>2
<1>11. ASSUME NEW d \in Aways PROVE DeviceStands(d)'
  <2>1. DeviceStands(d) /\ (away[d].conn # 0 => away[d].conn \in Calls)
    BY <1>1, DeviceRow
  <2>2. CASE away[d].conn # c
    BY <1>3, <1>7, <1>8, <2>1, <2>2, DeviceUnmoved
  <2>3. CASE away[d].conn = c
    <3>0. c # 0 /\ away'[d].conn = c
      BY <1>8, <2>3 DEF Calls
    <3>1. f.k # "close" /\ (f.k = "announce" => away[d].listening)
      BY <1>5, <2>1, <2>3, <3>0 DEF DeviceStands, Connected, NothingYet
    <3>2. Connected(d)'
      BY <1>2, <1>5, <1>6, <1>8, <2>1, <2>3, <3>0 DEF DeviceStands, Connected
    <3>3. PendStands(d)'
      BY <1>8, <2>1, <3>0 DEF DeviceStands, PendStands
    <3>4. NothingYet(d)'
      BY <1>5, <1>8, <2>1, <2>3, <3>0, <3>1 DEF DeviceStands, NothingYet, NothingOwed
    <3>5. GreetsFirst(d)'
      <4>1. SUFFICES ASSUME away[d].listening, bridge'[c].sub = "none",
                            away'[d].from # NothingOwed
                     PROVE  FALSE
        BY <1>8, <3>0 DEF GreetsFirst, NothingOwed
      <4>2. f.k # "announce"
        BY <1>6, <4>1
      <4>3. bridge[c].sub = "none" /\ away[d].from # NothingOwed
        BY <1>6, <1>8, <3>1, <4>1, <4>2
      <4>4. Greets(d)
        BY <2>1, <2>3, <3>0, <4>1, <4>3 DEF DeviceStands, GreetsFirst
      <4>5. f = pipe[c].up[1]
        BY <1>2, <1>4, RangeTail DEF f
      <4> QED BY <2>3, <4>2, <4>4, <4>5 DEF Greets
    <3>6. RepliesFit(d)'
      <4>1. SUFFICES ASSUME InLine(away[d].pend, Line(d))
                     PROVE  InLine(away[d].pend, Line(d)')
        BY <1>2, <1>8, <2>1, <2>3, <3>0 DEF DeviceStands, RepliesFit
      <4> DEFINE a == Awaited(pipe[c].down)
                 q == Awaited(bridge[c].queue)
                 u == Awaited(pipe'[c].up)
      <4>2. a \in Seq(AnyFrame) /\ q \in Seq(AnyFrame) /\ u \in Seq(AnyFrame) /\ f \in AnyFrame
        <5>1. pipe'[c].up \in Seq(AnyFrame)
          BY <1>2, CallRow, InAnyFrame DEF HomeShape, PipeRow
        <5> QED BY <1>1, <1>2, <5>1, LineParts, AwaitedSeq, InAnyFrame
      <4>3. Line(d) = a \o q \o (Sifted(<<>>, f) \o u)
        <5>1. Awaited(pipe[c].up) = Sifted(<<>>, f) \o u
          BY <1>2, <1>4, AwaitedTail DEF f
        <5> QED BY <2>3, <5>1 DEF Line
      <4>4. Line(d)' = a \o Sifted(q, f) \o u
        <5>1. Awaited(bridge'[c].queue) = Sifted(q, f)
          <6>1. CASE f.k = "announce"
            BY <1>6, <6>1 DEF Sifted, Awaitable
          <6>2. CASE f.k # "announce"
            BY <1>4, <1>6, <3>1, <6>2, AwaitedAppend
          <6> QED BY <6>1, <6>2
        <5> QED BY <1>2, <3>0, <5>1 DEF Line
      <4> HIDE DEF a, q, u
      <4>5. Line(d)' = Line(d)
        BY <4>2, <4>3, <4>4, MovesUp
      <4> QED BY <4>1, <4>5
    <3>7. OwedIsComing(d)'
      <4>1. SUFFICES ASSUME ~sim.stray, Follows(d)', NEW b \in Owed(d)'
                     PROVE  /\ (~away[d].failed /\ ~away[d].over => Coming(d, b, Nat))'
                            /\ (Attaching(d) => Coming(d, b, {away[d].waiting}))'
        BY <1>2 DEF OwedIsComing
      <4>2. b \in Owed(d)
        <5>1. b \in 1..sim.total /\ b > away'[d].from /\ b + Keep > sim.total
          BY <1>2 DEF Owed
        <5>2. away'[d].from = away[d].from
          <6>1. ~(b > sim.total)
            BY <1>1, <5>1, DeviceRow
          <6> QED BY <1>8, <5>1, <6>1
        <5> QED BY <5>1, <5>2 DEF Owed
      <4>3. Follows(d)
        BY <1>6, <1>8, <2>3, <3>0, <3>1, <4>1 DEF Follows
      <4>4. /\ ~away[d].failed /\ ~away[d].over => Coming(d, b, Nat)
            /\ Attaching(d) => Coming(d, b, {away[d].waiting})
        BY <2>1, <4>1, <4>2, <4>3 DEF DeviceStands, OwedIsComing
      <4>5. ASSUME NEW ids, Coming(d, b, ids)
            PROVE  \/ Shows(d, b)' \/ TurnedDown(d, ids)'
                   \/ AsksIn(bridge'[c].queue, b, ids) \/ AsksIn(pipe'[c].up, b, ids)
        <5>1. CASE Shows(d, b)
          BY <1>2, <1>8, <2>3, <3>0, <5>1 DEF Shows
        <5>2. CASE TurnedDown(d, ids)
          BY <1>2, <2>3, <3>0, <5>2 DEF TurnedDown
        <5>3. CASE AsksIn(bridge[c].queue, b, ids)
          BY <1>6, <3>1, <5>3 DEF AsksIn
        <5>4. CASE AsksIn(pipe[c].up, b, ids)
          BY <1>5, <1>6, <3>1, <5>4 DEF AsksIn
        <5> QED BY <2>3, <4>5, <5>1, <5>2, <5>3, <5>4 DEF Coming
      <4>6. Coming(d, b, Nat) => Coming(d, b, Nat)'
        BY <3>0, <4>5 DEF Coming
      <4>7. Coming(d, b, {away[d].waiting}) => Coming(d, b, {away[d].waiting})'
        <5>1. SUFFICES ASSUME Coming(d, b, {away[d].waiting})
                       PROVE  \/ Shows(d, b)' \/ TurnedDown(d, {away[d].waiting})'
                              \/ AsksIn(bridge'[c].queue, b, {away'[d].waiting})
                              \/ AsksIn(pipe'[c].up, b, {away'[d].waiting})
          BY <3>0 DEF Coming
        <5>2. /\ TurnedDown(d, {away[d].waiting})' <=>
                   \E x \in Range(pipe'[c].down) : x.k = "error" /\ x.id \in {away[d].waiting}
              /\ away'[d].waiting = away[d].waiting
          BY <1>8, <3>0 DEF TurnedDown
        <5>3. PICK ids : ids = {away[d].waiting}
          OBVIOUS
        <5>4. TurnedDown(d, ids)' <=>
                   \E x \in Range(pipe'[c].down) : x.k = "error" /\ x.id \in ids
          BY <3>0 DEF TurnedDown
        <5> QED BY <4>5, <5>1, <5>2, <5>3, <5>4
      <4> QED BY <1>8, <4>4, <4>6, <4>7 DEF Attaching
    <3> QED BY <3>2, <3>3, <3>4, <3>5, <3>6, <3>7 DEF DeviceStands
  <2> QED BY <2>2, <2>3
<1> QED BY <1>1, <1>2, <1>9, <1>10, <1>11 DEF HomeInv

LEMMA Joined ==
  ASSUME NEW s \in Seq(AnyFrame), NEW t \in Seq(AnyFrame), NEW u \in Seq(AnyFrame)
  PROVE  (s \o t) \o u = s \o (t \o u) /\ s \o t \in Seq(AnyFrame)
  BY ConcatAssociative, ConcatProperties

One(x) == <<x>>

LEMMA PutBetween ==
  ASSUME NEW a \in Seq(AnyFrame), NEW q \in Seq(AnyFrame), NEW u \in Seq(AnyFrame),
         NEW x \in AnyFrame
  PROVE  a \o (One(x) \o q) \o u = a \o (One(x) \o (q \o u))
<1> DEFINE o == One(x)
<1>1. o \in Seq(AnyFrame)
  BY DEF One
<1> HIDE DEF o
<1>2. a \o (o \o q) \o u = a \o ((o \o q) \o u)
  <2> DEFINE v == o \o q
  <2>1. v \in Seq(AnyFrame)
    BY <1>1, Joined
  <2> HIDE DEF v
  <2>2. (a \o v) \o u = a \o (v \o u)
    BY <2>1, Joined
  <2> QED BY <2>2 DEF v
<1>3. (o \o q) \o u = o \o (q \o u)
  BY <1>1, Joined
<1> QED BY <1>2, <1>3 DEF o

LEMMA PutAfter ==
  ASSUME NEW a \in Seq(AnyFrame), NEW q \in Seq(AnyFrame), NEW u \in Seq(AnyFrame),
         NEW x \in AnyFrame
  PROVE  Append(a, x) \o q \o u = a \o (One(x) \o (q \o u))
<1> DEFINE o == One(x)
<1>1. o \in Seq(AnyFrame)
  BY DEF One
<1>6. Append(a, x) = a \o o
  BY AppendIsConcat DEF One
<1> HIDE DEF o
<1>4. (a \o o) \o q \o u = (a \o o) \o (q \o u)
  <2> DEFINE y == a \o o
  <2>1. y \in Seq(AnyFrame)
    BY <1>1, Joined
  <2> HIDE DEF y
  <2>2. (y \o q) \o u = y \o (q \o u)
    BY <2>1, Joined
  <2> QED BY <2>2 DEF y
<1>5. (a \o o) \o (q \o u) = a \o (o \o (q \o u))
  <2> DEFINE w == q \o u
  <2>1. w \in Seq(AnyFrame)
    BY Joined
  <2> HIDE DEF w
  <2>2. (a \o o) \o w = a \o (o \o w)
    BY <1>1, <2>1, Joined
  <2> QED BY <2>2 DEF w
<1> QED BY <1>4, <1>5, <1>6 DEF o

(* A request on the line gives way to its answer.                            *)
LEMMA Exchanged ==
  ASSUME NEW a \in Seq(AnyFrame), NEW q \in Seq(AnyFrame), NEW u \in Seq(AnyFrame)
  PROVE  \A r, x \in AnyFrame, p \in Seq(Asked) :
            /\ InLine(p, a \o (One(r) \o q) \o u)
            /\ \A y \in Asked : Fits(y, r) => Fits(y, x)
            => InLine(p, Append(a, x) \o q \o u)
<1>1. ASSUME NEW x \in AnyFrame
      PROVE  Append(a, x) \o q \o u = a \o (One(x) \o (q \o u))
  BY PutAfter
<1>2. ASSUME NEW x \in AnyFrame
      PROVE  a \o (One(x) \o q) \o u = a \o (One(x) \o (q \o u))
  BY PutBetween
<1> DEFINE w == q \o u
<1>3. w \in Seq(AnyFrame)
  BY Joined
<1>4. \A x \in AnyFrame : /\ a \o (One(x) \o q) \o u = a \o (<<x>> \o w)
                          /\ Append(a, x) \o q \o u = a \o (<<x>> \o w)
  BY <1>1, <1>2 DEF One
<1> HIDE DEF w
<1>5. ASSUME NEW r \in AnyFrame, NEW x \in AnyFrame, NEW p \in Seq(Asked),
             InLine(p, a \o (<<r>> \o w)), \A y \in Asked : Fits(y, r) => Fits(y, x)
      PROVE  InLine(p, a \o (<<x>> \o w))
  BY <1>3, <1>5, InLineSwap
<1> QED BY <1>4, <1>5

LEMMA ReplyFits ==
  ASSUME NEW r \in CtlRequests, r.k # "resize", NEW p \in Asked, Fits(p, r)
  PROVE  Fits(p, Reply(r))
<1>1. r.k \in {"attach", "spawn"} /\ p.k \in {"attach", "spawn"}
  BY DEF CtlRequests, Asked
<1>2. r.k = p.k /\ r.id = p.id
  BY <1>1 DEF Fits, Expected
<1>3. Reply(r).id = r.id
      /\ Reply(r).k = IF ~Sound(r) THEN "error" ELSE IF r.k = "spawn" THEN "spawned" ELSE "attached"
  BY DEF Reply
<1> QED BY <1>1, <1>2, <1>3 DEF Fits, Expected

LEMMA ServedFrames ==
  ASSUME HomeShape, NEW c \in Calls, BridgeServe(c), NEW x \in Calls
  PROVE  LET r == Head(bridge[c].queue)
             heard == IF Sound(r) /\ r.k = "attach" /\ Hears(x)
                      THEN {Datum(Scrollback(r.since))} ELSE {}
             answers == x = c /\ Held(c) /\ (Sound(r) => r.k # "resize") IN
         /\ pipe'[x].up = pipe[x].up
         /\ Range(pipe'[x].down) =
               Range(pipe[x].down) \union heard \union (IF answers THEN {Reply(r)} ELSE {})
         /\ Awaited(pipe'[x].down) = IF answers THEN Append(Awaited(pipe[x].down), Reply(r))
                                     ELSE Awaited(pipe[x].down)
         /\ ~Hears(x) /\ x # c => pipe'[x].down = pipe[x].down
<1> DEFINE r == Head(bridge[c].queue)
           answers == x = c /\ Held(c) /\ (Sound(r) => r.k # "resize")
           heard == IF Sound(r) /\ r.k = "attach" /\ Hears(x)
                    THEN {Datum(Scrollback(r.since))} ELSE {}
<1>1. /\ r \in CtlRequests /\ pipe'[x].up = pipe[x].up
      /\ pipe'[x].down = IF answers THEN Append(Replayed(x, r), Reply(r)) ELSE Replayed(x, r)
  BY BridgeServed
<1> HIDE DEF r
<1>2. r.since \in Nat
  BY <1>1 DEF CtlRequests
<1>3. PICK bytes \in Seq(1..MaxOutput) : bytes = Scrollback(r.since)
  BY <1>2, ScrollbackBytes
<1>4. PICK s \in Seq(Frames) : s = Replayed(x, r)
  BY <1>3, EmittedRange, CallRow DEF Replayed
<1>5. Range(s) = Range(pipe[x].down) \union heard /\ Awaited(s) = Awaited(pipe[x].down)
  <2>1. CASE Sound(r) /\ r.k = "attach"
    <3>1. s = Emitted(pipe[x], x, bytes)
      BY <1>3, <1>4, <2>1 DEF Replayed
    <3>2. heard = IF Hears(x) THEN {Datum(bytes)} ELSE {}
      BY <1>3, <2>1
    <3> HIDE DEF heard
    <3> QED BY <1>3, <3>1, <3>2, EmittedRange
  <2>2. CASE ~(Sound(r) /\ r.k = "attach")
    BY <1>4, <2>2 DEF Replayed
  <2> QED BY <2>1, <2>2
<1>6. Reply(r) \in Frames /\ Awaitable(Reply(r))
  <2>1. Reply(r).k \in {"attached", "spawned", "error"}
    BY DEF Reply
  <2> QED BY <1>1, <2>1, ReplyIsFrame DEF Awaitable
<1>7. /\ Range(Append(s, Reply(r))) = Range(s) \union {Reply(r)}
      /\ Awaited(Append(s, Reply(r))) = Append(Awaited(s), Reply(r))
  BY <1>6, RangeAppend, AwaitedAppend DEF Sifted
<1>8. ~Hears(x) => s = pipe[x].down
  BY <1>4 DEF Replayed, Emitted
<1> HIDE DEF heard
<1>9. ~Hears(x) /\ x # c => pipe'[x].down = pipe[x].down
  BY <1>1, <1>4, <1>8
<1>10. Range(pipe'[x].down) =
          Range(pipe[x].down) \union heard \union (IF answers THEN {Reply(r)} ELSE {})
  <2>1. CASE answers
    BY <1>1, <1>4, <1>5, <1>7, <2>1
  <2>2. CASE ~answers
    BY <1>1, <1>4, <1>5, <2>2
  <2> QED BY <2>1, <2>2
<1>11. Awaited(pipe'[x].down) = IF answers THEN Append(Awaited(pipe[x].down), Reply(r))
                                ELSE Awaited(pipe[x].down)
  BY <1>1, <1>4, <1>5, <1>7
<1> QED BY <1>1, <1>9, <1>10, <1>11 DEF heard, r

LEMMA BridgeServeKeeps ==
  ASSUME HomeInv, NEW c \in Calls, BridgeServe(c)
  PROVE  HomeInv'
<1> DEFINE r == Head(bridge[c].queue)
           answers(x) == x = c /\ Held(c) /\ (Sound(r) => r.k # "resize")
<1>1. HomeShape /\ CallsInOrder /\ (\A x \in Calls : CallStands(x))
      /\ (\A d \in Aways : DeviceStands(d)) /\ (~sim.shell => sim.total = 0)
  BY DEF HomeInv
<1>2. /\ HomeShape' /\ UNCHANGED away
      /\ bridge[c].queue # <<>> /\ r \in CtlRequests
      /\ sim'.total = sim.total
      /\ sim'.stray = (sim.stray \/ (~Sound(r) /\ r.k = "resize"))
      /\ sim'.shell = (sim.shell \/ (Sound(r) /\ r.k = "spawn"))
      /\ bridge'[c] = [bridge[c] EXCEPT !.queue = Tail(bridge[c].queue)]
      /\ \A x \in Calls : x # c => bridge'[x] = bridge[x]
  BY <1>1, BridgeServed
<1>3. bridge[c] \in BridgeRow /\ bridge[c].queue \in Seq(CtlRequests)
  BY <1>1, CallRow
<1>4. /\ bridge'[c].used = bridge[c].used /\ bridge'[c].sub = bridge[c].sub
      /\ bridge'[c].queue = Tail(bridge[c].queue)
      /\ Range(bridge[c].queue) = {r} \union Range(bridge'[c].queue)
  <2>1. bridge'[c].used = bridge[c].used /\ bridge'[c].sub = bridge[c].sub
        /\ bridge'[c].queue = Tail(bridge[c].queue)
    BY <1>2, <1>3 DEF BridgeRow
  <2> QED BY <1>2, <1>3, <2>1, RangeTail
<1>5. r.since \in Nat /\ r.id \in Nat /\ r.k \in {"attach", "spawn", "resize"}
  BY <1>2 DEF CtlRequests
<1>6. /\ \A y \in Range(Scrollback(r.since)) : y \in 1..sim.total
      /\ \A b \in 1..sim.total : b > r.since /\ b + Keep > sim.total =>
            b \in Range(Scrollback(r.since))
  BY <1>1, <1>5, ScrollbackBytes
<1>7. ASSUME NEW x \in Calls
      PROVE  /\ pipe'[x].up = pipe[x].up
             /\ Range(pipe'[x].down) = Range(pipe[x].down)
                   \union (IF Sound(r) /\ r.k = "attach" /\ Hears(x)
                           THEN {Datum(Scrollback(r.since))} ELSE {})
                   \union (IF answers(x) THEN {Reply(r)} ELSE {})
             /\ Awaited(pipe'[x].down) = IF answers(x)
                                         THEN Append(Awaited(pipe[x].down), Reply(r))
                                         ELSE Awaited(pipe[x].down)
             /\ ~Hears(x) /\ x # c => pipe'[x].down = pipe[x].down
             /\ Range(pipe[x].down) \subseteq Range(pipe'[x].down)
             /\ bridge'[x].sub = bridge[x].sub /\ bridge'[x].used = bridge[x].used
  <2>1. bridge'[x].sub = bridge[x].sub /\ bridge'[x].used = bridge[x].used
    BY <1>2, <1>4
  <2> QED BY <1>1, <2>1, ServedFrames
<1>8. Reply(r).id = r.id /\ Reply(r).k # "data"
      /\ Reply(r).k = IF ~Sound(r) THEN "error" ELSE IF r.k = "spawn" THEN "spawned" ELSE "attached"
  BY DEF Reply
<1>9. sim.shell => sim'.shell
  BY <1>2
<1>10. r = Head(bridge[c].queue)
  OBVIOUS
<1> HIDE DEF r, answers
<1>11. CallsInOrder'
  <2>1. {x \in Calls : bridge'[x].used} = {x \in Calls : bridge[x].used}
    BY <1>7
  <2> QED BY <1>1, <1>2, <2>1 DEF CallsInOrder
<1>12. ASSUME NEW x \in Calls PROVE CallStands(x)'
  <2>1. CallStands(x) /\ CallStands(c)
    BY <1>1
  <2>2. ASSUME ~bridge[x].used
        PROVE  /\ bridge'[x].sub = "none" /\ bridge'[x].queue = <<>>
               /\ pipe'[x].down = <<>> /\ pipe'[x].up = <<>>
    <3>1. x # c
      BY <1>2, <2>1, <2>2 DEF CallStands
    <3>2. ~Hears(x)
      BY <1>1, <2>2 DEF Hears, Held, DeviceStands, Connected, CallStands
    <3> QED BY <1>2, <1>7, <2>1, <2>2, <3>1, <3>2 DEF CallStands
  <2>3. FromStart(bridge'[x].queue) /\ FromStart(pipe'[x].up)
    <3>1. FromStart(pipe'[x].up)
      BY <1>7, <2>1 DEF CallStands
    <3>2. FromStart(bridge'[c].queue)
      BY <1>4, <2>1 DEF CallStands, FromStart
    <3> QED BY <1>2, <2>1, <3>1, <3>2 DEF CallStands
  <2>4. ASSUME NEW y \in Range(pipe'[x].down)
        PROVE  /\ y.k = "data" => Range(y.bytes) \subseteq 1..sim'.total
               /\ y.k \in {"attached", "spawned"} => sim'.shell
    <3>1. CASE y \in Range(pipe[x].down)
      BY <1>2, <1>9, <2>1, <3>1 DEF CallStands
    <3>2. CASE y = Datum(Scrollback(r.since))
      BY <1>2, <1>6, <3>2 DEF Datum
    <3>3. CASE answers(x) /\ y = Reply(r)
      <4>1. y.k \in {"attached", "spawned"} => sim'.shell
        <5>1. Sound(r) /\ r.k = "attach" => sim.shell
          BY DEF Sound
        <5> QED BY <1>2, <1>5, <1>8, <3>3, <5>1 DEF answers
      <4> QED BY <1>8, <3>3, <4>1
    <3> QED BY <1>7, <2>4, <3>1, <3>2, <3>3
  <2> QED BY <1>7, <2>2, <2>3, <2>4 DEF CallStands, FromStart
<1>13. ASSUME NEW d \in Aways PROVE DeviceStands(d)'
  <2> DEFINE e == away[d].conn
  <2>1. DeviceStands(d) /\ (e # 0 => e \in Calls) /\ away[d].pend \in Seq(Asked)
    BY <1>1, DeviceRow
  <2>2. e # 0 => /\ pipe'[e].up = pipe[e].up /\ bridge'[e].used = bridge[e].used
                 /\ bridge'[e].sub = bridge[e].sub
                 /\ Range(pipe[e].down) \subseteq Range(pipe'[e].down)
    BY <1>7, <2>1
  <2>3. Connected(d)'
    BY <1>2, <1>9, <2>1, <2>2 DEF DeviceStands, Connected
  <2>4. PendStands(d)' /\ NothingYet(d)'
    BY <1>2, <2>1, <2>2 DEF DeviceStands, PendStands, NothingYet, NothingOwed
  <2>5. GreetsFirst(d)'
    <3>1. SUFFICES ASSUME e # 0, away[d].listening, bridge[e].sub = "none",
                          away[d].from # NothingOwed
                   PROVE  Greets(d)'
      BY <1>2, <2>2 DEF GreetsFirst, NothingOwed
    <3>2. Greets(d)
      BY <2>1, <3>1 DEF DeviceStands, GreetsFirst
    <3>3. e # c
      BY <1>2, <3>2 DEF Greets
    <3>4. pipe'[e].down = pipe[e].down /\ bridge'[e] = bridge[e]
      BY <1>2, <1>7, <2>1, <3>1, <3>3 DEF Hears
    <3> QED BY <1>2, <2>2, <3>1, <3>2, <3>4 DEF Greets
  <2>6. RepliesFit(d)'
    <3>1. SUFFICES ASSUME ~sim'.stray, e # 0
                   PROVE  InLine(away[d].pend, Line(d)')
      BY <1>2 DEF RepliesFit
    <3>2. ~sim.stray /\ InLine(away[d].pend, Line(d)) /\ (Sound(r) \/ r.k # "resize")
      BY <1>2, <2>1, <3>1 DEF DeviceStands, RepliesFit
    <3> DEFINE a == Awaited(pipe[e].down)
               u == Awaited(pipe[e].up)
    <3>3. CASE ~answers(e)
      <4>1. Awaited(bridge'[e].queue) = Awaited(bridge[e].queue)
        <5>1. CASE e # c
          BY <1>2, <2>1, <3>1, <5>1
        <5>2. CASE e = c
          <6>1. Held(c)
            BY <5>2 DEF Held
          <6>2. ~Awaitable(r)
            BY <3>3, <5>2, <6>1 DEF answers, Awaitable
          <6>3. Awaited(bridge[c].queue) = Sifted(<<>>, r) \o Awaited(bridge'[c].queue)
            BY <1>2, <1>3, <1>4, <1>10, AwaitedTail
          <6>4. Awaited(bridge'[c].queue) \in Seq(CtlRequests)
            <7>1. bridge'[c].queue \in Seq(CtlRequests)
              BY <1>2 DEF HomeShape, BridgeRow
            <7> QED BY <7>1, AwaitedSeq
          <6>5. <<>> \o Awaited(bridge'[c].queue) = Awaited(bridge'[c].queue)
            BY <6>4, ConcatEmptySeq
          <6> QED BY <5>2, <6>2, <6>3, <6>5 DEF Sifted
        <5> QED BY <5>1, <5>2
      <4>2. Line(d)' = Line(d)
        BY <1>2, <1>7, <2>1, <3>1, <3>3, <4>1 DEF Line
      <4> QED BY <3>2, <4>2
    <3>4. CASE answers(e)
      <4>1. e = c /\ r.k # "resize" /\ Awaitable(r)
        BY <1>5, <3>2, <3>4 DEF answers, Awaitable
      <4> DEFINE q == Awaited(bridge'[c].queue)
      <4>2. /\ a \in Seq(AnyFrame) /\ u \in Seq(AnyFrame) /\ q \in Seq(AnyFrame)
            /\ r \in AnyFrame /\ Reply(r) \in AnyFrame
        <5>1. bridge'[c].queue \in Seq(AnyFrame)
          BY <1>2, InAnyFrame DEF HomeShape, BridgeRow
        <5>2. Reply(r) \in Frames
          BY <1>2, ReplyIsFrame
        <5> QED BY <1>1, <1>2, <2>1, <3>1, <5>1, <5>2, LineParts, AwaitedSeq, InAnyFrame
      <4>3. Awaited(bridge[c].queue) = <<r>> \o q
        <5>1. Awaited(bridge[c].queue) = Sifted(<<>>, r) \o q
          BY <1>2, <1>3, <1>4, <1>10, AwaitedTail
        <5>2. Sifted(<<>>, r) = <<r>>
          <6>1. Append(<<>>, r) = <<r>>
            OBVIOUS
          <6> QED BY <4>1, <6>1 DEF Sifted
        <5> QED BY <5>1, <5>2
      <4>4. Line(d) = a \o (<<r>> \o q) \o u
        BY <4>1, <4>3 DEF Line
      <4>5. Line(d)' = Append(a, Reply(r)) \o q \o u
        BY <1>2, <1>7, <2>1, <2>2, <3>1, <3>4, <4>1 DEF Line
      <4>6. \A p \in Asked : Fits(p, r) => Fits(p, Reply(r))
        BY <1>2, <4>1, ReplyFits
      <4> HIDE DEF a, q, u
      <4>7. InLine(away[d].pend, a \o (One(r) \o q) \o u)
        BY <3>2, <4>4 DEF One
      <4>8. InLine(away[d].pend, Append(a, Reply(r)) \o q \o u)
        BY <2>1, <4>2, <4>6, <4>7, Exchanged
      <4> QED BY <4>5, <4>8
    <3> QED BY <3>3, <3>4
  <2>7. OwedIsComing(d)'
    <3>1. SUFFICES ASSUME ~sim'.stray, Follows(d)', NEW b \in Owed(d)'
                   PROVE  /\ (~away[d].failed /\ ~away[d].over => Coming(d, b, Nat))'
                          /\ (Attaching(d) => Coming(d, b, {away[d].waiting}))'
      BY DEF OwedIsComing
    <3>2. Follows(d) /\ ~sim.stray /\ e # 0 /\ e \in Calls
      BY <1>2, <2>1, <2>2, <3>1 DEF Follows
    <3>3. b \in Owed(d)
      BY <1>2 DEF Owed
    <3>4. /\ ~away[d].failed /\ ~away[d].over => Coming(d, b, Nat)
          /\ Attaching(d) => Coming(d, b, {away[d].waiting})
      BY <2>1, <3>2, <3>3 DEF DeviceStands, OwedIsComing
    <3>5. ASSUME NEW ids, Coming(d, b, ids)
          PROVE  \/ b \in away[d].shown
                 \/ \E x \in Range(pipe'[e].down) : x.k = "data" /\ b \in Range(x.bytes)
                 \/ \E x \in Range(pipe'[e].down) : x.k = "error" /\ x.id \in ids
                 \/ AsksIn(bridge'[e].queue, b, ids) \/ AsksIn(pipe'[e].up, b, ids)
      <4>1. CASE Shows(d, b)
        BY <2>2, <3>2, <4>1 DEF Shows
      <4>2. CASE TurnedDown(d, ids)
        BY <2>2, <3>2, <4>2 DEF TurnedDown
      <4>3. CASE AsksIn(pipe[e].up, b, ids)
        BY <2>2, <3>2, <4>3
      <4>4. CASE AsksIn(bridge[e].queue, b, ids)
        <5>1. CASE e # c
          BY <1>2, <3>2, <4>4, <5>1
        <5>2. CASE e = c /\ AsksIn(bridge'[c].queue, b, ids)
          BY <5>2
        <5>3. CASE e = c /\ ~AsksIn(bridge'[c].queue, b, ids)
          <6>1. r.k = "attach" /\ r.since < b /\ r.id \in ids
            BY <1>4, <4>4, <5>3 DEF AsksIn
          <6>2. Held(c)
            BY <5>3 DEF Held
          <6>3. bridge[c].sub = "live"
            <7>1. bridge[c].sub # "none"
              <8>1. ASSUME bridge[c].sub = "none" PROVE Greets(d)
                BY <1>1, <2>1, <3>2, <3>3, <5>3, <8>1, OwedIsAsked
                   DEF DeviceStands, GreetsFirst, Follows
              <8> QED BY <1>2, <5>3, <8>1 DEF Greets
            <7> QED BY <1>3, <3>2, <5>3, <7>1 DEF Follows, BridgeRow
          <6>4. CASE Sound(r)
            <7>1. Datum(Scrollback(r.since)) \in Range(pipe'[c].down)
              BY <1>7, <6>1, <6>2, <6>3, <6>4 DEF Hears
            <7>2. b \in Range(Scrollback(r.since))
              <8>1. b \in 1..sim.total /\ b + Keep > sim.total /\ b \in Nat
                BY <3>3 DEF Owed
              <8>2. b > r.since
                BY <1>5, <6>1, <8>1
              <8> QED BY <1>6, <8>1, <8>2
            <7> QED BY <5>3, <7>1, <7>2 DEF Datum
          <6>5. CASE ~Sound(r)
            <7>1. answers(c)
              BY <6>1, <6>2 DEF answers
            <7>2. Reply(r) \in Range(pipe'[c].down)
              BY <1>7, <7>1
            <7> QED BY <1>8, <5>3, <6>1, <6>5, <7>2
          <6> QED BY <6>4, <6>5
        <5> QED BY <5>1, <5>2, <5>3
      <4> QED BY <3>5, <4>1, <4>2, <4>3, <4>4 DEF Coming
    <3>6. Coming(d, b, Nat) => Coming(d, b, Nat)'
      BY <1>2, <3>5 DEF Coming, Shows, TurnedDown
    <3>7. Coming(d, b, {away[d].waiting}) => Coming(d, b, {away[d].waiting})'
      BY <1>2, <3>5 DEF Coming, Shows, TurnedDown
    <3> QED BY <1>2, <3>4, <3>6, <3>7 DEF Attaching
  <2> QED BY <2>3, <2>4, <2>5, <2>6, <2>7 DEF DeviceStands
<1>14. ~sim'.shell => sim'.total = 0
  BY <1>1, <1>2
<1> QED BY <1>2, <1>11, <1>12, <1>13, <1>14 DEF HomeInv

(* ---- a device takes a frame ---- *)

Lone(p) == \A i, j \in 1..Len(p) : p[i].id # 0 /\ p[j].id # 0 => i = j

LEMMA LoneTail ==
  ASSUME NEW p \in Seq(Asked), p # <<>>, Lone(p)
  PROVE  /\ Lone(Tail(p)) /\ Tail(p) \in Seq(Asked)
         /\ Head(p).id # 0 => \A r \in Range(Tail(p)) : r.id = 0
<1>1. PICK t \in Seq(Asked) : t = Tail(p)
  <2>1. Tail(p) \in Seq(Asked)
    BY HeadTailProperties
  <2> QED BY <2>1
<1>2. Len(p) = Len(t) + 1 /\ Len(t) \in Nat /\ \A i \in 1..Len(t) : t[i] = p[i+1]
  BY <1>1, HeadTailProperties
<1>3. \A i \in 1..Len(t) : i + 1 \in 1..Len(p) /\ i + 1 # 1
  BY <1>2
<1>4. Lone(t)
  <2>1. SUFFICES ASSUME NEW i \in 1..Len(t), NEW j \in 1..Len(t), t[i].id # 0, t[j].id # 0
                 PROVE  i = j
    BY DEF Lone
  <2>2. i + 1 = j + 1
    BY <1>2, <1>3, <2>1 DEF Lone
  <2> QED BY <1>2, <2>2
<1>5. ASSUME Head(p).id # 0, NEW r \in Range(t) PROVE r.id = 0
  <2>1. PICK i \in 1..Len(t) : r = t[i]
    BY RangeElement
  <2>2. 1 \in 1..Len(p) /\ Head(p) = p[1]
    BY <1>2, RangeTail
  <2>3. ASSUME p[i+1].id # 0 PROVE 1 = i + 1
    BY <1>3, <1>5, <2>2, <2>3 DEF Lone
  <2> QED BY <1>2, <1>3, <2>1, <2>3
<1> QED BY <1>1, <1>4, <1>5

(* The first frame of the line is the first of what is on its way down.      *)
LEMMA FirstOfLine ==
  ASSUME NEW f \in AnyFrame, NEW a \in Seq(AnyFrame), NEW q \in Seq(AnyFrame),
         NEW u \in Seq(AnyFrame)
  PROVE  One(f) \o a \o q \o u = One(f) \o (a \o q \o u)
<1> DEFINE o == One(f)
<1>1. o \in Seq(AnyFrame)
  BY DEF One
<1> HIDE DEF o
<1>2. o \o a \o q = o \o (a \o q)
  BY <1>1, Joined
<1>3. o \o (a \o q) \o u = o \o ((a \o q) \o u)
  <2> DEFINE v == a \o q
  <2>1. v \in Seq(AnyFrame)
    BY Joined
  <2> HIDE DEF v
  <2>2. o \o v \o u = o \o (v \o u)
    BY <1>1, <2>1, Joined
  <2> QED BY <2>2 DEF v
<1> QED BY <1>2, <1>3 DEF o

LEMMA LineTaken ==
  ASSUME HomeShape, NEW c \in Calls, pipe[c].down # <<>>, NEW p \in Seq(Asked),
         InLine(p, Awaited(pipe[c].down) \o Awaited(bridge[c].queue) \o Awaited(pipe[c].up))
  PROVE  LET f == Head(pipe[c].down)
             rest == Awaited(Tail(pipe[c].down)) \o Awaited(bridge[c].queue)
                     \o Awaited(pipe[c].up) IN
         /\ f.k = "data" => InLine(p, rest)
         /\ f.k # "data" => p # <<>> /\ Fits(Head(p), f) /\ InLine(Tail(p), rest)
<1> DEFINE f == Head(pipe[c].down)
           a == Awaited(Tail(pipe[c].down))
           q == Awaited(bridge[c].queue)
           u == Awaited(pipe[c].up)
<1>1. /\ pipe[c].down \in Seq(Frames) /\ f \in Frames /\ Tail(pipe[c].down) \in Seq(Frames)
      /\ f \in AnyFrame
  <2>1. pipe[c].down \in Seq(Frames)
    BY CallRow
  <2> QED BY <2>1, HeadTailProperties, InAnyFrame
<1>2. a \in Seq(AnyFrame) /\ q \in Seq(AnyFrame) /\ u \in Seq(AnyFrame)
  <2>1. Tail(pipe[c].down) \in Seq(AnyFrame)
    BY <1>1, InAnyFrame
  <2> QED BY <2>1, LineParts, AwaitedSeq
<1>3. Awaited(pipe[c].down) = Sifted(<<>>, f) \o a
  BY <1>1, AwaitedTail
<1>4. Awaitable(f) <=> f.k # "data"
  BY <1>1 DEF Awaitable, Frames
<1> HIDE DEF f, a, q, u
<1>5. CASE f.k = "data"
  <2>1. <<>> \o a = a
    BY <1>2, ConcatEmptySeq
  <2>2. InLine(p, a \o q \o u)
    BY <1>3, <1>4, <1>5, <2>1 DEF Sifted, q, u
  <2> QED BY <1>5, <2>2 DEF f, a, q, u
<1>6. CASE f.k # "data"
  <2>1. Sifted(<<>>, f) = One(f)
    <3>1. Append(<<>>, f) = <<f>>
      OBVIOUS
    <3> QED BY <1>4, <1>6, <3>1 DEF Sifted, One
  <2>2. InLine(p, One(f) \o a \o q \o u)
    BY <1>3, <2>1 DEF q, u
  <2> DEFINE w == a \o q \o u
  <2>3. InLine(p, One(f) \o w)
    BY <1>1, <1>2, <2>2, FirstOfLine
  <2>4. w \in Seq(AnyFrame)
    <3> DEFINE v == a \o q
    <3>1. v \in Seq(AnyFrame)
      BY <1>2, Joined
    <3> HIDE DEF v
    <3>2. v \o u \in Seq(AnyFrame)
      BY <1>2, <3>1, Joined
    <3> QED BY <3>2 DEF v
  <2> HIDE DEF w
  <2>5. p # <<>> /\ Fits(Head(p), f) /\ InLine(Tail(p), w)
    BY <1>1, <2>3, <2>4, InLineHead DEF One
  <2> QED BY <1>6, <2>5 DEF f, a, q, u, w
<1> QED BY <1>5, <1>6

LEMMA AwayReceiveKeeps ==
  ASSUME HomeInv, NEW d \in Aways, AwayReceive(d)
  PROVE  HomeInv'
<1> DEFINE c == away[d].conn
           a == away[d]
           n == away'[d]
           f == Head(pipe[away[d].conn].down)
<1>1. HomeShape /\ CallsInOrder /\ (\A x \in Calls : CallStands(x))
      /\ (\A e \in Aways : DeviceStands(e)) /\ (~sim.shell => sim.total = 0)
  BY DEF HomeInv
<1>2. /\ HomeShape' /\ UNCHANGED <<sim, bridge>> /\ OthersKeep(c, d)
      /\ c \in Calls /\ pipe[c].down # <<>> /\ f \in Frames
      /\ pipe'[c].down = Tail(pipe[c].down)
      /\ pipe'[c].up = IF Opens(a, f) THEN Append(pipe[c].up, Announce) ELSE pipe[c].up
      /\ n.conn = c /\ n.from = a.from
      /\ n.pend = IF Takes(a, f) THEN Tail(a.pend) ELSE a.pend
      /\ n.waiting = IF TakesOwn(a, f) THEN 0 ELSE a.waiting
      /\ n.listening = IF Opens(a, f) THEN TRUE ELSE a.listening
      /\ n.failed = IF Opens(a, f) THEN FALSE
                    ELSE IF Takes(a, f) /\ f.k = "error" THEN TRUE ELSE a.failed
      /\ n.over = IF Opens(a, f) THEN FALSE ELSE a.over
      /\ n.shown = IF f.k = "data" /\ a.listening THEN a.shown \union Range(f.bytes) ELSE a.shown
  BY <1>1, AwayReceived
<1>3. Grown
  BY <1>2 DEF Grown
<1>4. \A x \in Calls : x # c => SameCall(x)
  BY <1>2 DEF OthersKeep, SameCall
<1>5. c # 0 /\ DeviceStands(d) /\ CallStands(c) /\ a \in AwayRow /\ a.pend \in Seq(Asked)
      /\ pipe[c].up \in Seq(UpFrames) /\ pipe[c].down \in Seq(Frames)
  BY <1>1, <1>2, DeviceRow, CallRow DEF Calls
<1>6. /\ Range(pipe[c].down) = {f} \union Range(pipe'[c].down)
      /\ f.k \in {"data", "attached", "spawned", "error"}
  <2>1. f.k \in {"data", "attached", "spawned", "error"}
    BY <1>2 DEF Frames
  <2>2. pipe[c].down \in Seq(Frames) /\ pipe[c].down # <<>> /\ pipe'[c].down = Tail(pipe[c].down)
    BY <1>2, <1>5
  <2> QED BY <2>1, <2>2, RangeTail
<1>7. /\ Range(pipe'[c].up) = Range(pipe[c].up) \union (IF Opens(a, f) THEN {Announce} ELSE {})
      /\ Awaited(pipe'[c].up) = Awaited(pipe[c].up)
  <2>1. Announce \in UpFrames /\ ~Awaitable(Announce)
    BY DEF UpFrames, Announce, Awaitable
  <2>2. /\ Range(Append(pipe[c].up, Announce)) = Range(pipe[c].up) \union {Announce}
        /\ Awaited(Append(pipe[c].up, Announce)) = Awaited(pipe[c].up)
    BY <1>5, <2>1, RangeAppend, AwaitedAppend DEF Sifted
  <2> QED BY <1>2, <2>2
<1>8. Announce.k = "announce"
  BY DEF Announce
<1>9. /\ Takes(a, f) => f.k # "data" /\ a.pend # <<>>
      /\ TakesOwn(a, f) => Takes(a, f) /\ Head(a.pend).id = a.waiting /\ a.waiting # 0
      /\ Opens(a, f) => TakesOwn(a, f) /\ f.k \in {"attached", "spawned"}
  BY <1>6 DEF Takes, TakesOwn, Opens
<1>10. /\ Takes(a, f) => /\ Range(a.pend) = {Head(a.pend)} \union Range(n.pend)
                         /\ Lone(n.pend) /\ Head(a.pend) \in Asked
                         /\ Head(a.pend).id # 0 => \A r \in Range(n.pend) : r.id = 0
       /\ ~Takes(a, f) => n.pend = a.pend
       /\ Range(n.pend) \subseteq Range(a.pend) /\ Lone(n.pend)
  <2>1. Lone(a.pend)
    BY <1>5 DEF DeviceStands, PendStands, Lone
  <2>2. CASE Takes(a, f)
    <3>1. n.pend = Tail(a.pend) /\ a.pend # <<>>
      BY <1>2, <1>9, <2>2
    <3>2. Range(a.pend) = {Head(a.pend)} \union Range(Tail(a.pend)) /\ Head(a.pend) \in Asked
      BY <1>5, <3>1, RangeTail
    <3>3. /\ Lone(Tail(a.pend))
          /\ Head(a.pend).id # 0 => \A r \in Range(Tail(a.pend)) : r.id = 0
      BY <1>5, <2>1, <3>1, LoneTail
    <3> QED BY <2>2, <3>1, <3>2, <3>3
  <2>3. CASE ~Takes(a, f)
    BY <1>2, <2>1, <2>3
  <2> QED BY <2>2, <2>3
<1>11. ASSUME ~sim.stray
       PROVE  /\ InLine(n.pend, Line(d)')
              /\ f.k # "data" => Takes(a, f) /\ Fits(Head(a.pend), f)
  <2>1. InLine(a.pend, Awaited(pipe[c].down) \o Awaited(bridge[c].queue) \o Awaited(pipe[c].up))
    BY <1>5, <1>11 DEF DeviceStands, RepliesFit, Line
  <2>2. Line(d)' = Awaited(Tail(pipe[c].down)) \o Awaited(bridge[c].queue) \o Awaited(pipe[c].up)
    BY <1>2, <1>7 DEF Line
  <2>3. /\ f.k = "data" => InLine(a.pend, Line(d)')
        /\ f.k # "data" => /\ a.pend # <<>> /\ Fits(Head(a.pend), f)
                           /\ InLine(Tail(a.pend), Line(d)')
    BY <1>1, <1>2, <1>5, <2>1, <2>2, LineTaken
  <2>4. f.k # "data" => Takes(a, f)
    <3>1. SUFFICES ASSUME f.k # "data" PROVE Takes(a, f)
      OBVIOUS
    <3>2. Head(a.pend).k \in {"attach", "spawn"}
      <4>1. Head(a.pend) \in Asked
        BY <1>5, <2>3, <3>1, HeadTailProperties
      <4> QED BY <4>1 DEF Asked
    <3> QED BY <1>6, <2>3, <3>1, <3>2 DEF Takes, Fits, Expected
  <2> QED BY <1>2, <1>9, <2>3, <2>4
<1>12. a.conn = c /\ a = away[d]
  OBVIOUS
<1> HIDE DEF f, n
<1>13. CallsInOrder'
  <2>1. \A e \in Aways : away'[e].conn = away[e].conn
    BY <1>2 DEF OthersKeep, n
  <2> QED BY <1>1, <1>2, <2>1 DEF CallsInOrder
<1>14. ASSUME NEW x \in Calls PROVE CallStands(x)'
  <2>1. CASE x # c
    BY <1>1, <1>3, <1>4, <2>1, CallUnmoved
  <2>2. CASE x = c
    <3>1. FromStart(pipe'[c].up)
      BY <1>5, <1>7, <1>8 DEF CallStands, FromStart
    <3>2. bridge[c].used
      BY <1>5 DEF DeviceStands, Connected
    <3>3. /\ bridge'[x].used /\ FromStart(bridge'[x].queue) /\ FromStart(pipe'[x].up)
          /\ \A y \in Range(pipe'[x].down) :
                /\ y.k = "data" => Range(y.bytes) \subseteq 1..sim'.total
                /\ y.k \in {"attached", "spawned"} => sim'.shell
      BY <1>2, <1>5, <1>6, <2>2, <3>1, <3>2 DEF CallStands
    <3> QED BY <3>3 DEF CallStands, FromStart
  <2> QED BY <2>1, <2>2
<1>15. ASSUME NEW e \in Aways PROVE DeviceStands(e)'
  <2>1. CASE e # d
    <3>1. away[e].conn # 0 => SameCall(away[e].conn)
      BY <1>1, <1>4, <1>5, <2>1, DeviceRow DEF CallsInOrder
    <3>2. away'[e] = away[e] /\ DeviceStands(e)
      BY <1>1, <1>2, <2>1 DEF OthersKeep
    <3> QED BY <1>3, <3>1, <3>2, DeviceUnmoved
  <2>2. Connected(d)'
    <3>1. n.shown \subseteq 1..sim.total
      <4>1. /\ a.shown \subseteq 1..sim.total
            /\ f.k = "data" => Range(f.bytes) \subseteq 1..sim.total
        BY <1>5, <1>6 DEF DeviceStands, Connected, CallStands
      <4> QED BY <1>2, <4>1
    <3>2. n.listening => sim.shell
      <4>1. f.k \in {"attached", "spawned"} => sim.shell
        BY <1>5, <1>6 DEF CallStands
      <4> QED BY <1>2, <1>5, <1>9, <4>1 DEF DeviceStands, Connected
    <3>3. bridge[c].used /\ \A r \in Range(pipe'[c].up) : r.k # "close"
      BY <1>5, <1>7, <1>8 DEF DeviceStands, Connected
    <3> QED BY <1>2, <3>1, <3>2, <3>3 DEF Connected, n
  <2>3. PendStands(d)'
    <3>1. ASSUME NEW r \in Range(n.pend)
          PROVE  /\ r.id # 0 => r.id = n.waiting
                 /\ r.id = 0 => r.k = "attach"
                 /\ r.k = "spawn" => ~n.listening
      <4>1. r \in Range(a.pend)
        BY <1>10, <3>1
      <4>2. /\ r.id # 0 => r.id = a.waiting
            /\ r.id = 0 => r.k = "attach"
            /\ r.k = "spawn" => ~a.listening
        BY <1>5, <4>1 DEF DeviceStands, PendStands
      <4>3. CASE TakesOwn(a, f)
        <5>1. r.id = 0
          BY <1>9, <1>10, <3>1, <4>3
        <5> QED BY <4>2, <5>1
      <4>4. CASE ~TakesOwn(a, f)
        BY <1>2, <1>9, <4>2, <4>4
      <4> QED BY <4>3, <4>4
    <3>2. Lone(n.pend)
      BY <1>10
    <3> QED BY <1>2, <1>5, <3>1, <3>2 DEF PendStands, Lone, n
  <2>4. NothingYet(d)'
    <3>1. SUFFICES ASSUME ~n.listening
                   PROVE  n.from = NothingOwed /\ \A r \in Range(pipe'[c].up) : r.k # "announce"
      BY <1>2 DEF NothingYet, NothingOwed, n
    <3>2. ~Opens(a, f) /\ ~a.listening
      BY <1>2, <3>1
    <3> QED BY <1>2, <1>5, <3>2 DEF DeviceStands, NothingYet
  <2>5. GreetsFirst(d)'
    <3>1. SUFFICES ASSUME bridge[c].sub = "none", a.from # NothingOwed PROVE FALSE
      BY <1>2 DEF GreetsFirst, NothingOwed, n
    <3>2. a.listening
      BY <1>5, <3>1 DEF DeviceStands, NothingYet
    <3>3. Greets(d)
      BY <1>5, <3>1, <3>2 DEF DeviceStands, GreetsFirst
    <3> QED BY <1>2, <3>3 DEF Greets
  <2>6. RepliesFit(d)'
    BY <1>2, <1>11 DEF RepliesFit, n
  <2>7. OwedIsComing(d)'
    <3>1. SUFFICES ASSUME ~sim.stray, Follows(d)', NEW b \in Owed(d)'
                   PROVE  /\ (~away[d].failed /\ ~away[d].over => Coming(d, b, Nat))'
                          /\ (Attaching(d) => Coming(d, b, {away[d].waiting}))'
      BY <1>2 DEF OwedIsComing
    <3>2. b \in Owed(d) /\ n.conn = c
      BY <1>2 DEF Owed, n
    <3>3. a.listening
      BY <1>1, <1>5, <3>2, OwedIsAsked DEF DeviceStands, NothingYet
    <3>4. Follows(d)
      BY <1>2, <1>5, <3>1, <3>3 DEF Follows, n
    <3>5. /\ ~a.failed /\ ~a.over => Coming(d, b, Nat)
          /\ Attaching(d) => Coming(d, b, {a.waiting})
      BY <1>5, <3>1, <3>2, <3>4 DEF DeviceStands, OwedIsComing
    <3>6. ASSUME NEW ids, Coming(d, b, ids), f.k = "error" => f.id \notin ids
          PROVE  \/ b \in n.shown
                 \/ \E x \in Range(pipe'[c].down) : x.k = "data" /\ b \in Range(x.bytes)
                 \/ \E x \in Range(pipe'[c].down) : x.k = "error" /\ x.id \in ids
                 \/ AsksIn(bridge'[c].queue, b, ids) \/ AsksIn(pipe'[c].up, b, ids)
      <4>1. CASE Shows(d, b)
        BY <1>2, <1>6, <3>3, <4>1 DEF Shows
      <4>2. CASE TurnedDown(d, ids)
        BY <1>6, <3>6, <4>2 DEF TurnedDown
      <4>3. CASE AsksIn(pipe[c].up, b, ids) \/ AsksIn(bridge[c].queue, b, ids)
        BY <1>2, <1>7, <4>3 DEF AsksIn
      <4> QED BY <3>6, <4>1, <4>2, <4>3 DEF Coming
    <3>7. ASSUME Coming(d, b, Nat), f.k # "error" PROVE Coming(d, b, Nat)'
      BY <3>2, <3>6, <3>7 DEF Coming, Shows, TurnedDown, n
    <3>8. ASSUME NEW ids, Coming(d, b, ids), f.k = "error" => f.id \notin ids, ids \subseteq Nat
          PROVE  Coming(d, b, Nat)'
      <4>1. Coming(d, b, Nat)' <=>
                 \/ b \in n.shown
                 \/ \E x \in Range(pipe'[c].down) : x.k = "data" /\ b \in Range(x.bytes)
                 \/ \E x \in Range(pipe'[c].down) : x.k = "error" /\ x.id \in Nat
                 \/ AsksIn(bridge'[c].queue, b, Nat) \/ AsksIn(pipe'[c].up, b, Nat)
        BY <3>2 DEF Coming, Shows, TurnedDown, n
      <4> QED BY <3>6, <3>8, <4>1 DEF AsksIn
    <3>9. ASSUME Coming(d, b, {a.waiting}), f.k = "error" => f.id \notin {a.waiting},
                 n.waiting = a.waiting
          PROVE  Coming(d, b, {away[d].waiting})'
      <4>1. Coming(d, b, {away[d].waiting})' <=>
                 \/ b \in n.shown
                 \/ \E x \in Range(pipe'[c].down) : x.k = "data" /\ b \in Range(x.bytes)
                 \/ \E x \in Range(pipe'[c].down) : x.k = "error" /\ x.id \in {n.waiting}
                 \/ AsksIn(bridge'[c].queue, b, {n.waiting})
                 \/ AsksIn(pipe'[c].up, b, {n.waiting})
        BY <3>2 DEF Coming, Shows, TurnedDown, n
      <4> QED BY <3>6, <3>9, <4>1
    <3>10. (~n.failed /\ ~n.over => Coming(d, b, Nat)')
      <4>1. CASE Opens(a, f)
        <5>1. Takes(a, f) /\ Head(a.pend) \in Range(a.pend) /\ Head(a.pend).id # 0
              /\ Head(a.pend).id = a.waiting /\ f.k # "error"
          BY <1>9, <1>10, <4>1
        <5>2. Head(a.pend).k = "attach"
          <6>1. Head(a.pend).k \in {"attach", "spawn"}
            BY <1>10, <5>1 DEF Asked
          <6> QED BY <1>5, <3>3, <5>1, <6>1 DEF DeviceStands, PendStands
        <5>3. Attaching(d)
          BY <5>1, <5>2 DEF Attaching
        <5>4. {a.waiting} \subseteq Nat
          BY <1>5 DEF AwayRow
        <5> QED BY <3>5, <3>8, <5>1, <5>3, <5>4
      <4>2. CASE ~Opens(a, f) /\ f.k # "error"
        BY <1>2, <3>5, <3>7, <4>2
      <4>3. CASE f.k = "error"
        <5>1. Takes(a, f) /\ ~Opens(a, f)
          BY <1>9, <1>11, <3>1, <4>3
        <5> QED BY <1>2, <4>3, <5>1
      <4> QED BY <4>1, <4>2, <4>3
    <3>11. Attaching(d)' => Coming(d, b, {away[d].waiting})'
      <4>1. SUFFICES ASSUME NEW r \in Range(n.pend), r.k = "attach", r.id # 0
                     PROVE  Coming(d, b, {away[d].waiting})'
        BY DEF Attaching, n
      <4>2. Attaching(d) /\ r.id = a.waiting
        BY <1>5, <1>10, <4>1 DEF Attaching, DeviceStands, PendStands
      <4>3. Takes(a, f) => Head(a.pend).id = 0
        BY <1>10, <4>1
      <4>4. ~TakesOwn(a, f) /\ n.waiting = a.waiting
        BY <1>2, <1>9, <4>1, <4>3
      <4>5. f.k = "error" => f.id # a.waiting
        BY <1>11, <3>1, <4>1, <4>2, <4>3 DEF Fits
      <4> QED BY <3>5, <3>9, <4>2, <4>4, <4>5
    <3> QED BY <3>10, <3>11 DEF n
  <2>8. DeviceStands(d)'
    BY <2>2, <2>3, <2>4, <2>5, <2>6, <2>7 DEF DeviceStands
  <2> QED BY <2>1, <2>8
<1> QED BY <1>1, <1>2, <1>13, <1>14, <1>15 DEF HomeInv

(* ---- a device asks, loses its connection and dials again ---- *)

LEMMA LineGrows ==
  ASSUME HomeShape, NEW c \in Calls, NEW r \in UpFrames
  PROVE  Awaited(pipe[c].down) \o Awaited(bridge[c].queue) \o Awaited(Append(pipe[c].up, r)) =
            Sifted(Awaited(pipe[c].down) \o Awaited(bridge[c].queue) \o Awaited(pipe[c].up), r)
<1> DEFINE a == Awaited(pipe[c].down)
           q == Awaited(bridge[c].queue)
           u == Awaited(pipe[c].up)
<1>1. Awaited(Append(pipe[c].up, r)) = Sifted(u, r)
  BY CallRow, AwaitedAppend
<1>2. a \in Seq(AnyFrame) /\ q \in Seq(AnyFrame) /\ u \in Seq(AnyFrame) /\ r \in AnyFrame
  BY LineParts, InAnyFrame
<1> HIDE DEF a, q, u
<1>3. CASE Awaitable(r)
  <2> DEFINE v == a \o q
  <2>1. v \in Seq(AnyFrame)
    BY <1>2, Joined
  <2> HIDE DEF v
  <2>2. v \o Append(u, r) = Append(v \o u, r)
    BY <1>2, <2>1, ConcatOne
  <2> QED BY <1>1, <1>3, <2>2 DEF Sifted, v, a, q, u
<1>4. CASE ~Awaitable(r)
  BY <1>1, <1>4 DEF Sifted, a, q, u
<1> QED BY <1>3, <1>4

LEMMA LineIsFrames ==
  ASSUME HomeShape, NEW c \in Calls
  PROVE  Awaited(pipe[c].down) \o Awaited(bridge[c].queue) \o Awaited(pipe[c].up)
            \in Seq(AnyFrame)
<1> DEFINE v == Awaited(pipe[c].down) \o Awaited(bridge[c].queue)
           u == Awaited(pipe[c].up)
<1>1. v \in Seq(AnyFrame) /\ u \in Seq(AnyFrame)
  BY LineParts, Joined
<1> HIDE DEF v, u
<1>2. v \o u \in Seq(AnyFrame)
  BY <1>1, Joined
<1> QED BY <1>2 DEF v, u

LEMMA AskKeeps ==
  ASSUME HomeInv, NEW d \in Aways, NEW k \in {"spawn", "attach", "resize"}, Ask(d, k)
  PROVE  HomeInv'
<1> DEFINE c == away[d].conn
           a == away[d]
           n == away'[d]
           r == [k |-> k, since |-> 0, id |-> asks + 1]
<1>1. HomeShape /\ CallsInOrder /\ (\A x \in Calls : CallStands(x))
      /\ (\A e \in Aways : DeviceStands(e)) /\ (~sim.shell => sim.total = 0)
  BY DEF HomeInv
<1>2. /\ HomeShape' /\ UNCHANGED <<sim, bridge>> /\ OthersKeep(c, d)
      /\ c \in Calls /\ a.waiting = 0 /\ r \in CtlRequests /\ sim.shell = (k # "spawn")
      /\ pipe'[c].up = Append(pipe[c].up, r) /\ pipe'[c].down = pipe[c].down
      /\ k = "resize" => n = a
      /\ k # "resize" =>
            /\ r \in Asked /\ n.pend = Append(a.pend, r)
            /\ n.waiting = r.id /\ n.conn = c
            /\ n.listening = a.listening /\ n.from = a.from
            /\ n.failed = a.failed /\ n.over = a.over
            /\ n.shown = IF k = "attach" THEN {} ELSE a.shown
  BY <1>1, AskedFor
<1>3. r.k = k /\ r.since = 0 /\ r.id = asks + 1 /\ r.id # 0 /\ r.id \in Nat
  BY <1>1 DEF HomeShape
<1>4. Grown
  BY <1>2 DEF Grown
<1>5. \A x \in Calls : x # c => SameCall(x)
  BY <1>2 DEF OthersKeep, SameCall
<1>6. c # 0 /\ DeviceStands(d) /\ CallStands(c) /\ a.pend \in Seq(Asked)
      /\ pipe[c].up \in Seq(UpFrames) /\ r \in UpFrames
  <2>1. c # 0 /\ DeviceStands(d) /\ CallStands(c) /\ r \in UpFrames
    BY <1>1, <1>2 DEF Calls, UpFrames
  <2>2. a.pend \in Seq(Asked) /\ pipe[c].up \in Seq(UpFrames)
    BY <1>1, <1>2, DeviceRow, CallRow
  <2> QED BY <2>1, <2>2
<1> HIDE DEF r, n
<1>7. /\ n.conn = c /\ n.listening = a.listening /\ n.from = a.from
      /\ n.failed = a.failed /\ n.over = a.over
      /\ n.shown = IF k = "attach" THEN {} ELSE a.shown
      /\ n.pend = IF k = "resize" THEN a.pend ELSE Append(a.pend, r)
      /\ n.waiting = IF k = "resize" THEN a.waiting ELSE r.id
  BY <1>2
<1>8. Range(pipe'[c].up) = Range(pipe[c].up) \union {r}
  BY <1>2, <1>6, RangeAppend
<1>9. k # "resize" => Range(n.pend) = Range(a.pend) \union {r}
  <2>1. k # "resize" => Range(Append(a.pend, r)) = Range(a.pend) \union {r}
    BY <1>2, <1>6, RangeAppend
  <2> QED BY <1>7, <2>1
<1>10. CallsInOrder'
  <2>1. \A e \in Aways : away'[e].conn = away[e].conn
    BY <1>2, <1>7 DEF OthersKeep, n
  <2> QED BY <1>1, <1>2, <2>1 DEF CallsInOrder
<1>11. ASSUME NEW x \in Calls PROVE CallStands(x)'
  <2>1. CASE x # c
    BY <1>1, <1>4, <1>5, <2>1, CallUnmoved
  <2>2. CASE x = c
    <3>1. FromStart(pipe'[c].up)
      BY <1>3, <1>6, <1>8 DEF CallStands, FromStart
    <3>2. bridge[c].used
      BY <1>6 DEF DeviceStands, Connected
    <3>3. /\ bridge'[x].used /\ FromStart(bridge'[x].queue) /\ FromStart(pipe'[x].up)
          /\ \A y \in Range(pipe'[x].down) :
                /\ y.k = "data" => Range(y.bytes) \subseteq 1..sim'.total
                /\ y.k \in {"attached", "spawned"} => sim'.shell
      BY <1>2, <1>6, <2>2, <3>1, <3>2 DEF CallStands
    <3> QED BY <3>3 DEF CallStands, FromStart
  <2> QED BY <2>1, <2>2
<1>12. ASSUME NEW e \in Aways PROVE DeviceStands(e)'
  <2>1. CASE e # d
    <3>1. away[e].conn # 0 => SameCall(away[e].conn)
      BY <1>1, <1>5, <1>6, <2>1, DeviceRow DEF CallsInOrder
    <3>2. away'[e] = away[e] /\ DeviceStands(e)
      BY <1>1, <1>2, <2>1 DEF OthersKeep
    <3> QED BY <1>4, <3>1, <3>2, DeviceUnmoved
  <2>2. Connected(d)'
    <3>1. n.shown \subseteq 1..sim.total /\ (n.listening => sim.shell) /\ bridge[c].used
      BY <1>6, <1>7 DEF DeviceStands, Connected
    <3>2. \A y \in Range(pipe'[c].up) : y.k # "close"
      BY <1>3, <1>6, <1>8 DEF DeviceStands, Connected
    <3> QED BY <1>2, <1>7, <3>1, <3>2 DEF Connected, n
  <2>3. PendStands(d)'
    <3>1. CASE k = "resize"
      <4>1. away'[d] = away[d]
        BY <1>2, <3>1 DEF n
      <4> QED BY <1>6, <4>1 DEF DeviceStands, PendStands
    <3>2. CASE k # "resize"
      <4>1. \A y \in Range(a.pend) : y.id = 0 /\ y.k = "attach"
        BY <1>2, <1>6 DEF DeviceStands, PendStands
      <4>2. k = "spawn" => ~a.listening
        BY <1>2, <1>6 DEF DeviceStands, Connected
      <4>3. \A y \in Range(n.pend) :
               /\ y.id # 0 => y.id = n.waiting
               /\ y.id = 0 => y.k = "attach"
               /\ y.k = "spawn" => ~n.listening
        BY <1>3, <1>7, <1>9, <3>2, <4>1, <4>2
      <4>4. \A i, j \in 1..Len(n.pend) : n.pend[i].id # 0 /\ n.pend[j].id # 0 => i = j
        <5>1. PICK q \in Seq(Asked) : q = Append(a.pend, r)
          BY <1>2, <1>6, <3>2, AppendProperties
        <5>2. Len(q) = Len(a.pend) + 1 /\ \A i \in 1..Len(a.pend) : q[i] = a.pend[i]
          BY <1>2, <1>6, <3>2, <5>1, AppendProperties
        <5>3. \A i \in 1..Len(a.pend) : q[i].id = 0
          BY <1>6, <4>1, <5>2, RangeElement
        <5>4. \A i \in 1..Len(q) : q[i].id # 0 => i = Len(a.pend) + 1
          <6>1. Len(a.pend) \in Nat
            BY <1>6
          <6>2. \A i \in 1..Len(q) : i \in 1..Len(a.pend) \/ i = Len(a.pend) + 1
            BY <5>2, <6>1
          <6> QED BY <5>3, <6>2
        <5> QED BY <1>7, <3>2, <5>1, <5>4
      <4> QED BY <1>6, <1>7, <4>3, <4>4 DEF PendStands, n
    <3> QED BY <3>1, <3>2
  <2>4. NothingYet(d)'
    <3>1. ~a.listening => a.from = NothingOwed /\ \A y \in Range(pipe'[c].up) : y.k # "announce"
      BY <1>3, <1>6, <1>8 DEF DeviceStands, NothingYet
    <3> QED BY <1>7, <3>1 DEF NothingYet, NothingOwed, n
  <2>5. GreetsFirst(d)'
    <3>1. SUFFICES ASSUME a.listening, bridge[c].sub = "none", a.from # NothingOwed
                   PROVE  Greets(d)'
      BY <1>2, <1>7 DEF GreetsFirst, NothingOwed, n
    <3>2. Greets(d)
      BY <1>6, <3>1 DEF DeviceStands, GreetsFirst
    <3>3. Len(pipe'[c].up) >= 2 /\ pipe'[c].up[1] = pipe[c].up[1] /\ pipe'[c].up[2] = pipe[c].up[2]
      <4>1. PICK v \in Seq(UpFrames) : v = Append(pipe[c].up, r)
        BY <1>6, AppendProperties
      <4>2. Len(v) = Len(pipe[c].up) + 1 /\ \A i \in 1..Len(pipe[c].up) : v[i] = pipe[c].up[i]
        BY <1>6, <4>1, AppendProperties
      <4>3. Len(pipe[c].up) \in Nat /\ Len(pipe[c].up) >= 2
        BY <1>6, <3>2 DEF Greets
      <4> QED BY <1>2, <4>1, <4>2, <4>3
    <3> QED BY <1>2, <1>7, <3>2, <3>3 DEF Greets, n
  <2>6. RepliesFit(d)'
    <3> DEFINE l == Awaited(pipe[c].down) \o Awaited(bridge[c].queue) \o Awaited(pipe[c].up)
    <3>1. SUFFICES ASSUME ~sim.stray PROVE InLine(n.pend, Line(d)')
      BY <1>2 DEF RepliesFit, n
    <3>2. InLine(a.pend, l) /\ l \in Seq(AnyFrame)
      BY <1>1, <1>2, <1>6, <3>1, LineIsFrames DEF DeviceStands, RepliesFit, Line
    <3>3. Line(d)' = Sifted(l, r)
      <4>1. Line(d)' = Awaited(pipe[c].down) \o Awaited(bridge[c].queue)
                       \o Awaited(Append(pipe[c].up, r))
        BY <1>2, <1>7 DEF Line, n
      <4> QED BY <1>1, <1>2, <1>6, <4>1, LineGrows
    <3> HIDE DEF l
    <3>4. CASE k = "resize"
      BY <1>3, <1>7, <3>2, <3>3, <3>4 DEF Sifted, Awaitable
    <3>5. CASE k # "resize"
      <4>1. Awaitable(r) /\ Fits(r, r)
        BY <1>3, <3>5 DEF Awaitable, Fits
      <4>2. InLine(Append(a.pend, r), Append(l, r))
        BY <1>2, <1>6, <3>2, <3>5, <4>1, InLineAppend, InAnyFrame
      <4> QED BY <1>7, <3>3, <3>5, <4>1, <4>2 DEF Sifted
    <3> QED BY <3>4, <3>5
  <2>7. OwedIsComing(d)'
    <3>1. SUFFICES ASSUME ~sim.stray, Follows(d)', NEW b \in Owed(d)'
                   PROVE  /\ (~away[d].failed /\ ~away[d].over => Coming(d, b, Nat))'
                          /\ (Attaching(d) => Coming(d, b, {away[d].waiting}))'
      BY <1>2 DEF OwedIsComing
    <3>2. b \in Owed(d) /\ Follows(d)
      BY <1>2, <1>7, <3>1 DEF Owed, Follows, n
    <3>3. CASE k = "resize"
      <4>1. /\ ~a.failed /\ ~a.over => Coming(d, b, Nat)
            /\ Attaching(d) => Coming(d, b, {a.waiting})
        BY <1>6, <3>1, <3>2 DEF DeviceStands, OwedIsComing
      <4>2. away'[d] = away[d]
        BY <1>2, <3>3 DEF n
      <4>3. Coming(d, b, Nat) => Coming(d, b, Nat)'
        BY <1>2, <1>8, <4>2 DEF Coming, Shows, TurnedDown, AsksIn
      <4>4. Coming(d, b, {away[d].waiting}) => Coming(d, b, {away[d].waiting})'
        BY <1>2, <1>8, <4>2 DEF Coming, Shows, TurnedDown, AsksIn
      <4>5. Attaching(d)' <=> Attaching(d)
        BY <4>2 DEF Attaching
      <4> QED BY <4>1, <4>2, <4>3, <4>4, <4>5
    <3>4. CASE k = "spawn"
      <4>1. ~a.listening
        BY <1>2, <1>6, <3>4 DEF DeviceStands, Connected
      <4> QED BY <3>2, <4>1 DEF Follows
    <3>5. CASE k = "attach"
      <4>1. r.k = "attach" /\ r.since < b /\ r.id \in Nat /\ r.id = n.waiting
            /\ r \in Range(pipe'[c].up)
        BY <1>1, <1>3, <1>7, <1>8, <3>2, <3>5, OwedIsAsked
      <4>2. Coming(d, b, Nat)'
        BY <1>7, <4>1 DEF Coming, AsksIn, n
      <4>3. Coming(d, b, {away[d].waiting})'
        BY <1>7, <4>1 DEF Coming, AsksIn, n
      <4> QED BY <4>2, <4>3
    <3> QED BY <3>3, <3>4, <3>5
  <2>8. DeviceStands(d)'
    BY <2>2, <2>3, <2>4, <2>5, <2>6, <2>7 DEF DeviceStands
  <2> QED BY <2>1, <2>8
<1> QED BY <1>1, <1>2, <1>10, <1>11, <1>12 DEF HomeInv

(* A device cut off owes no answer and is owed none.                         *)
LEMMA CutStands ==
  ASSUME HomeShape, NEW d \in Aways, DeviceStands(d), Grown, away'[d] = Cut(away[d])
  PROVE  DeviceStands(d)'
<1>1. /\ away'[d].conn = 0 /\ away'[d].pend = <<>> /\ away'[d].waiting = 0
      /\ away'[d].listening = away[d].listening /\ away'[d].from = away[d].from
      /\ away'[d].shown = away[d].shown
  BY DeviceRow, CutIs
<1>2. Connected(d)'
  BY <1>1 DEF Connected, DeviceStands, Grown
<1>3. PendStands(d)'
  <2>1. Range(<<>>) = {} /\ 1..Len(<<>>) = {}
    BY RangeEmpty
  <2> QED BY <1>1, <2>1 DEF PendStands
<1>4. NothingYet(d)'
  BY <1>1 DEF NothingYet, NothingOwed, DeviceStands
<1>5. GreetsFirst(d)' /\ RepliesFit(d)' /\ OwedIsComing(d)'
  BY <1>1 DEF GreetsFirst, RepliesFit, OwedIsComing, Follows
<1> QED BY <1>2, <1>3, <1>4, <1>5 DEF DeviceStands

LEMMA AwayLostKeeps ==
  ASSUME HomeInv, NEW d \in Aways, AwayLost(d)
  PROVE  HomeInv'
<1> DEFINE c == away[d].conn
<1>1. HomeShape /\ CallsInOrder /\ (\A x \in Calls : CallStands(x))
      /\ (\A e \in Aways : DeviceStands(e)) /\ (~sim.shell => sim.total = 0)
  BY DEF HomeInv
<1>2. /\ HomeShape' /\ UNCHANGED <<sim, bridge>> /\ OthersKeep(c, d)
      /\ c \in Calls /\ away'[d] = Cut(away[d])
      /\ pipe'[c].down = <<>> /\ pipe'[c].up = Append(pipe[c].up, Hangup)
  BY <1>1, AwayCut
<1>3. Grown
  BY <1>2 DEF Grown
<1>4. \A x \in Calls : x # c => SameCall(x)
  BY <1>2 DEF OthersKeep, SameCall
<1>5. c # 0 /\ DeviceStands(d) /\ CallStands(c) /\ pipe[c].up \in Seq(UpFrames)
      /\ Hangup \in UpFrames /\ Hangup.k = "close"
  BY <1>1, <1>2, CallRow DEF Calls, UpFrames, Hangup
<1>6. Range(pipe'[c].up) = Range(pipe[c].up) \union {Hangup}
  BY <1>2, <1>5, RangeAppend
<1>7. CallsInOrder'
  <2>1. away'[d].conn = 0
    BY <1>1, <1>2, DeviceRow, CutIs
  <2>2. \A e \in Aways : away'[e].conn # 0 => away'[e].conn = away[e].conn /\ e # d
    BY <1>2, <2>1 DEF OthersKeep
  <2> QED BY <1>1, <1>2, <2>2 DEF CallsInOrder
<1>8. ASSUME NEW x \in Calls PROVE CallStands(x)'
  <2>1. CASE x # c
    BY <1>1, <1>3, <1>4, <2>1, CallUnmoved
  <2>2. CASE x = c
    <3>1. FromStart(pipe'[c].up)
      BY <1>5, <1>6 DEF CallStands, FromStart
    <3>2. bridge[c].used
      BY <1>5 DEF DeviceStands, Connected
    <3>3. /\ bridge'[x].used /\ FromStart(bridge'[x].queue) /\ FromStart(pipe'[x].up)
          /\ Range(pipe'[x].down) = {}
      BY <1>2, <1>5, <2>2, <3>1, <3>2, RangeEmpty DEF CallStands
    <3> QED BY <3>3 DEF CallStands, FromStart
  <2> QED BY <2>1, <2>2
<1>9. ASSUME NEW e \in Aways PROVE DeviceStands(e)'
  <2>1. CASE e # d
    <3>1. away[e].conn # 0 => SameCall(away[e].conn)
      BY <1>1, <1>4, <1>5, <2>1, DeviceRow DEF CallsInOrder
    <3>2. away'[e] = away[e] /\ DeviceStands(e)
      BY <1>1, <1>2, <2>1 DEF OthersKeep
    <3> QED BY <1>3, <3>1, <3>2, DeviceUnmoved
  <2>2. CASE e = d
    BY <1>1, <1>2, <1>3, <1>5, <2>2, CutStands
  <2> QED BY <2>1, <2>2
<1> QED BY <1>1, <1>2, <1>7, <1>8, <1>9 DEF HomeInv

LEMMA HomeLostKeeps ==
  ASSUME HomeInv, HomeLost
  PROVE  HomeInv'
<1>1. HomeShape /\ CallsInOrder /\ (\A x \in Calls : CallStands(x))
      /\ (\A e \in Aways : DeviceStands(e)) /\ (~sim.shell => sim.total = 0)
  BY DEF HomeInv
<1>2. /\ HomeShape' /\ UNCHANGED sim
      /\ \A d \in Aways : away'[d] = Cut(away[d])
      /\ \A c \in Calls : /\ pipe'[c].up = <<>> /\ pipe'[c].down = <<>>
                          /\ bridge'[c].used = bridge[c].used
                          /\ bridge'[c].sub = "none" /\ bridge'[c].queue = <<>>
  BY <1>1, HomeCut
<1>3. Grown
  BY <1>2 DEF Grown
<1>4. \A d \in Aways : DeviceStands(d)'
  BY <1>1, <1>2, <1>3, CutStands
<1>5. \A c \in Calls : CallStands(c)'
  BY <1>2, RangeEmpty DEF CallStands, FromStart
<1>6. CallsInOrder'
  <2>1. \A d \in Aways : away'[d].conn = 0
    BY <1>1, <1>2, DeviceRow, CutIs
  <2>2. {c \in Calls : bridge'[c].used} = {c \in Calls : bridge[c].used}
    BY <1>2
  <2> QED BY <1>1, <2>1, <2>2 DEF CallsInOrder
<1> QED BY <1>1, <1>2, <1>4, <1>5, <1>6 DEF HomeInv

LEMMA GreetingRange ==
  ASSUME NEW a \in AwayRow
  PROVE  /\ Range(Greeting(a)) = IF a.listening THEN {Announce, GapRequest(a)} ELSE {}
         /\ Range(Awaited(Greeting(a))) = IF a.listening THEN {GapRequest(a)} ELSE {}
<1>1. CASE ~a.listening
  BY <1>1, GreetingIs, RangeEmpty
<1>2. CASE a.listening
  <2>1. PICK g \in Seq(UpFrames) : g = Greeting(a)
    BY GreetingIs
  <2>2. Len(g) = 2 /\ g[1] = Announce /\ g[2] = GapRequest(a)
    BY <1>2, <2>1, GreetingIs
  <2>3. \A i \in 1..Len(g) : i = 1 \/ i = 2
    BY <2>2
  <2>4. 1 \in 1..Len(g) /\ 2 \in 1..Len(g)
    BY <2>2
  <2>5. Range(g) = {Announce, GapRequest(a)}
    BY <2>2, <2>3, <2>4, RangeElement
  <2>6. Awaited(Greeting(a)) = <<GapRequest(a)>>
    BY <1>2, GreetingIs
  <2>7. Range(<<GapRequest(a)>>) = {GapRequest(a)}
    BY DEF Range
  <2> QED BY <1>2, <2>1, <2>5, <2>6, <2>7
<1> QED BY <1>1, <1>2

LEMMA InLineItself ==
  ASSUME NEW p \in Seq(Asked)
  PROVE  InLine(p, p)
  BY DEF InLine, Fits

LEMMA DialKeeps ==
  ASSUME HomeInv, NEW d \in Aways, Dial(d)
  PROVE  HomeInv'
<1> DEFINE a == away[d]
           n == away'[d]
<1>1. HomeShape /\ CallsInOrder /\ (\A x \in Calls : CallStands(x))
      /\ (\A e \in Aways : DeviceStands(e)) /\ (~sim.shell => sim.total = 0)
  BY DEF HomeInv
<1>2. HomeShape' /\ UNCHANGED sim /\ a.conn = 0
  BY <1>1, Dialled
<1>3. PICK c \in Calls :
        /\ OthersKeep(c, d) /\ ~bridge[c].used
        /\ \A x \in Calls : x # c => bridge'[x] = bridge[x]
        /\ bridge'[c] = [bridge[c] EXCEPT !.open = TRUE, !.used = TRUE]
        /\ \E m \in 0..MaxDials : {x \in Calls : bridge'[x].used} = 1..m
        /\ pipe'[c].up = Greeting(a) /\ pipe'[c].down = pipe[c].down
        /\ n.conn = c /\ n.pend = a.pend \o Awaited(Greeting(a))
        /\ n.failed = FALSE
        /\ n.over = (\E b \in (a.from + 1)..a.count : b \notin a.shown)
        /\ n.waiting = a.waiting /\ n.listening = a.listening
        /\ n.shown = a.shown /\ n.from = a.from
  BY <1>1, Dialled
<1>4. /\ a \in AwayRow /\ DeviceStands(d) /\ a.pend = <<>> /\ a.waiting = 0 /\ c # 0
      /\ a.count \in Nat /\ a.from \in Nat /\ a.shown \subseteq 1..sim.total
  BY <1>1, <1>2, DeviceRow DEF DeviceStands, PendStands, Connected, Calls, AwayRow
<1>5. bridge[c].sub = "none" /\ bridge[c].queue = <<>> /\ pipe[c].down = <<>>
  BY <1>1, <1>3 DEF CallStands
<1>6. bridge'[c].used /\ bridge'[c].sub = "none" /\ bridge'[c].queue = <<>>
      /\ pipe'[c].down = <<>>
  <2>1. bridge[c] \in BridgeRow
    BY <1>1, CallRow
  <2> QED BY <1>3, <1>5, <2>1 DEF BridgeRow
<1>7. n.pend = Awaited(Greeting(a)) /\ n.pend \in Seq(Asked)
  <2>1. PICK w \in Seq(Asked) : w = Awaited(Greeting(a))
    BY <1>4, GreetingIs
  <2>2. <<>> \o w = w
    BY <2>1, ConcatEmptySeq
  <2> QED BY <1>3, <1>4, <2>1, <2>2
<1>8. /\ Range(pipe'[c].up) = IF a.listening THEN {Announce, GapRequest(a)} ELSE {}
      /\ Range(n.pend) = IF a.listening THEN {GapRequest(a)} ELSE {}
  BY <1>3, <1>4, <1>7, GreetingRange
<1>9. /\ GapRequest(a).k = "attach" /\ GapRequest(a).since = a.count
      /\ GapRequest(a).id = 0 /\ Announce.k = "announce" /\ Announce.id = 0
  BY DEF GapRequest, Announce
<1>10. Grown
  BY <1>2 DEF Grown
<1>11. \A x \in Calls : x # c => SameCall(x)
  BY <1>3 DEF OthersKeep, SameCall
<1>12. \A e \in Aways : away[e].conn # c
  BY <1>1, <1>3, <1>4 DEF DeviceStands, Connected
<1>13. CallsInOrder'
  <2>1. \A e \in Aways : e # d => away'[e].conn = away[e].conn
    BY <1>3 DEF OthersKeep
  <2>2. \A e, f \in Aways : away'[e].conn # 0 /\ away'[e].conn = away'[f].conn => e = f
    BY <1>1, <1>3, <1>12, <2>1 DEF CallsInOrder
  <2> QED BY <1>3, <2>2 DEF CallsInOrder
<1>14. ASSUME NEW x \in Calls PROVE CallStands(x)'
  <2>1. CASE x # c
    BY <1>1, <1>10, <1>11, <2>1, CallUnmoved
  <2>2. CASE x = c
    <3>1. FromStart(pipe'[c].up)
      BY <1>8, <1>9 DEF FromStart
    <3>2. FromStart(bridge'[c].queue) /\ Range(pipe'[c].down) = {}
      BY <1>6, RangeEmpty DEF FromStart
    <3>3. /\ bridge'[x].used /\ FromStart(bridge'[x].queue) /\ FromStart(pipe'[x].up)
          /\ Range(pipe'[x].down) = {}
      BY <1>6, <2>2, <3>1, <3>2
    <3> QED BY <3>3 DEF CallStands, FromStart
  <2> QED BY <2>1, <2>2
<1>15. ASSUME NEW e \in Aways PROVE DeviceStands(e)'
  <2>1. CASE e # d
    <3>1. away[e].conn # 0 => SameCall(away[e].conn)
      BY <1>1, <1>11, <1>12, DeviceRow
    <3>2. away'[e] = away[e] /\ DeviceStands(e)
      BY <1>1, <1>3, <2>1 DEF OthersKeep
    <3> QED BY <1>10, <3>1, <3>2, DeviceUnmoved
  <2> HIDE DEF n
  <2>2. Connected(d)'
    <3>1. n.shown \subseteq 1..sim.total /\ (n.listening => sim.shell)
      BY <1>3, <1>4 DEF DeviceStands, Connected
    <3>2. \A y \in Range(pipe'[c].up) : y.k # "close"
      BY <1>8, <1>9
    <3> QED BY <1>2, <1>3, <1>6, <3>1, <3>2 DEF Connected, n
  <2>3. PendStands(d)'
    <3>1. \A y \in Range(n.pend) : y.id = 0 /\ y.k = "attach"
      BY <1>8, <1>9
    <3>2. \A i \in 1..Len(n.pend) : n.pend[i].id = 0
      BY <1>7, <3>1, RangeElement
    <3> QED BY <1>3, <1>4, <3>1, <3>2 DEF PendStands, n
  <2>4. NothingYet(d)'
    <3>1. ~a.listening => a.from = NothingOwed /\ \A y \in Range(pipe'[c].up) : y.k # "announce"
      BY <1>4, <1>8 DEF DeviceStands, NothingYet
    <3> QED BY <1>3, <3>1 DEF NothingYet, NothingOwed, n
  <2>5. GreetsFirst(d)'
    <3>1. SUFFICES ASSUME a.listening PROVE Greets(d)'
      BY <1>3 DEF GreetsFirst, n
    <3>2. Len(pipe'[c].up) = 2 /\ pipe'[c].up[1] = Announce /\ pipe'[c].up[2] = GapRequest(a)
      BY <1>3, <1>4, <3>1, GreetingIs
    <3>3. n.over \/ a.count <= a.from \/ a.count <= sim.total
      <4>1. SUFFICES ASSUME ~n.over, a.count > a.from PROVE a.count <= sim.total
        BY <1>4
      <4>2. a.count \in (a.from + 1)..a.count
        BY <1>4, <4>1
      <4>3. a.count \in a.shown
        BY <1>3, <4>1, <4>2
      <4> QED BY <1>4, <4>3
    <3>4. /\ bridge'[c].queue = <<>> /\ pipe'[c].down = <<>> /\ Len(pipe'[c].up) >= 2
          /\ pipe'[c].up[1].k = "announce" /\ pipe'[c].up[2].k = "attach"
          /\ n.over \/ pipe'[c].up[2].since <= n.from \/ pipe'[c].up[2].since <= sim'.total
      BY <1>2, <1>3, <1>6, <1>9, <3>2, <3>3
    <3> QED BY <1>3, <3>4 DEF Greets, n
  <2>6. RepliesFit(d)'
    <3>1. Line(d)' = <<>> \o <<>> \o Awaited(Greeting(a))
      BY <1>3, <1>6, AwaitedEmpty DEF Line, n
    <3>2. PICK w \in Seq(Asked) : w = Awaited(Greeting(a))
      BY <1>4, GreetingIs
    <3>3. <<>> \o <<>> \o w = w
      BY <3>2, ConcatEmptySeq, EmptySeq
    <3>4. InLine(n.pend, Line(d)')
      BY <1>7, <3>1, <3>2, <3>3, InLineItself
    <3> QED BY <1>3, <3>4 DEF RepliesFit, n
  <2>7. OwedIsComing(d)'
    <3>1. SUFFICES ASSUME Follows(d)', NEW b \in Owed(d)'
                   PROVE  /\ (~away[d].failed /\ ~away[d].over => Coming(d, b, Nat))'
                          /\ (Attaching(d) => Coming(d, b, {away[d].waiting}))'
      BY DEF OwedIsComing
    <3>2. b \in Owed(d) /\ a.listening
      BY <1>2, <1>3, <3>1 DEF Owed, Follows, n
    <3>3. b \in Nat /\ a.from < b
      BY <1>1, <3>2, OwedIsAsked
    <3>4. ~Attaching(d)'
      BY <1>8, <1>9 DEF Attaching, n
    <3>5. ASSUME ~n.over PROVE Coming(d, b, Nat)'
      <4>1. CASE b <= a.count
        <5>1. b \in (a.from + 1)..a.count
          BY <1>4, <3>3, <4>1
        <5>2. b \in n.shown
          BY <1>3, <3>5, <5>1
        <5> QED BY <5>2 DEF Coming, Shows, n
      <4>2. CASE a.count < b
        <5>1. GapRequest(a) \in Range(pipe'[c].up)
          BY <1>8, <3>2
        <5>2. AsksIn(pipe'[c].up, b, Nat)
          BY <1>9, <4>2, <5>1 DEF AsksIn
        <5>3. AsksIn(pipe[away[d].conn].up, b, Nat)'
          BY <1>3, <5>2 DEF AsksIn, n
        <5> QED BY <5>3 DEF Coming
      <4> QED BY <1>4, <3>3, <4>1, <4>2
    <3> QED BY <3>4, <3>5 DEF n
  <2>8. DeviceStands(d)'
    BY <2>2, <2>3, <2>4, <2>5, <2>6, <2>7 DEF DeviceStands
  <2> QED BY <2>1, <2>8
<1>16. (~sim.shell => sim.total = 0)'
  BY <1>1, <1>2
<1> QED BY <1>2, <1>13, <1>14, <1>15, <1>16 DEF HomeInv

LEMMA HomeInvInit ==
  ASSUME HtInit
  PROVE  HomeInv
<1>1. /\ sim \in [shell : BOOLEAN, total : {0}, seat : {TRUE}, moves : {0}, stray : {FALSE}]
      /\ bridge = [c \in Calls |-> [used |-> FALSE, open |-> FALSE, sub |-> "none", queue |-> <<>>]]
      /\ pipe = [c \in Calls |-> [up |-> <<>>, down |-> <<>>]]
      /\ away = [d \in Aways |->
                  [conn |-> 0, listening |-> FALSE, count |-> 0, pend |-> <<>>, waiting |-> 0,
                   shown |-> {}, from |-> NothingOwed, failed |-> FALSE, over |-> FALSE]]
      /\ asks = 0
  BY DEF HtInit
<1>2. MaxDials \in Nat /\ NothingOwed \in Nat /\ MaxOutput \in Nat
  BY HomeAssumption DEF NothingOwed
<1>3. \A c \in Calls : /\ ~bridge[c].used /\ bridge[c].sub = "none" /\ bridge[c].queue = <<>>
                       /\ pipe[c].up = <<>> /\ pipe[c].down = <<>>
  BY <1>1
<1>4. \A d \in Aways :
         /\ away[d].conn = 0 /\ ~away[d].listening /\ away[d].pend = <<>> /\ away[d].waiting = 0
         /\ away[d].shown = {} /\ away[d].from = NothingOwed
  BY <1>1
<1>5. HomeShape
  <2>1. <<>> \in Seq(CtlRequests) /\ <<>> \in Seq(UpFrames) /\ <<>> \in Seq(Frames)
        /\ <<>> \in Seq(Asked)
    BY EmptySeq
  <2>2. bridge \in [Calls -> BridgeRow] /\ pipe \in [Calls -> PipeRow]
    BY <1>1, <2>1 DEF BridgeRow, PipeRow
  <2>3. away \in [Aways -> AwayRow]
    BY <1>1, <1>2, <2>1 DEF AwayRow
  <2>4. sim \in [shell : BOOLEAN, total : 0..MaxOutput, seat : BOOLEAN, moves : Nat,
                 stray : BOOLEAN]
    <3>1. [shell : BOOLEAN, total : {0}, seat : {TRUE}, moves : {0}, stray : {FALSE}]
             \subseteq [shell : BOOLEAN, total : 0..MaxOutput, seat : BOOLEAN, moves : Nat,
                        stray : BOOLEAN]
      <4>1. {0} \subseteq 0..MaxOutput /\ {0} \subseteq Nat
            /\ {TRUE} \subseteq BOOLEAN /\ {FALSE} \subseteq BOOLEAN
        BY <1>2
      <4> QED BY <4>1
    <3> QED BY <1>1, <3>1
  <2> QED BY <1>1, <2>2, <2>3, <2>4 DEF HomeShape
<1>6. CallsInOrder
  <2>1. {c \in Calls : bridge[c].used} = 1..0 /\ 0 \in 0..MaxDials
    BY <1>2, <1>3
  <2> QED BY <1>4, <2>1 DEF CallsInOrder
<1>7. ASSUME NEW c \in Calls PROVE CallStands(c)
  BY <1>3, RangeEmpty DEF CallStands, FromStart
<1>8. ASSUME NEW d \in Aways PROVE DeviceStands(d)
  <2>1. Connected(d) /\ NothingYet(d) /\ GreetsFirst(d) /\ RepliesFit(d) /\ OwedIsComing(d)
    BY <1>4 DEF Connected, NothingYet, GreetsFirst, RepliesFit, OwedIsComing, Follows
  <2>2. PendStands(d)
    <3>1. Range(<<>>) = {} /\ 1..Len(<<>>) = {}
      BY RangeEmpty
    <3> QED BY <1>4, <3>1 DEF PendStands
  <2> QED BY <2>1, <2>2 DEF DeviceStands
<1>9. ~sim.shell => sim.total = 0
  BY <1>1
<1> QED BY <1>5, <1>6, <1>7, <1>8, <1>9 DEF HomeInv

LEMMA HomeInvUnmoved ==
  ASSUME HomeInv, UNCHANGED htVars
  PROVE  HomeInv'
<1>1. UNCHANGED <<sim, bridge, pipe, away, asks>>
  BY DEF htVars
<1>2. Grown /\ \A c : SameCall(c)
  BY <1>1 DEF Grown, SameCall
<1>3. \A c \in Calls : CallStands(c)'
  BY <1>2, CallUnmoved DEF HomeInv
<1>4. \A d \in Aways : DeviceStands(d)'
  BY <1>1, <1>2, DeviceUnmoved DEF HomeInv
<1>5. HomeShape' /\ CallsInOrder' /\ (~sim'.shell => sim'.total = 0)
  BY <1>1 DEF HomeInv, HomeShape, CallsInOrder
<1> QED BY <1>3, <1>4, <1>5 DEF HomeInv

(* The queues and the devices stand as described whatever is asked, carried, *)
(* served, lost and dialled again.                                           *)
THEOREM HomeInvAlways == HtSpec => []HomeInv
<1>1. HtInit => HomeInv
  BY HomeInvInit
<1>2. HomeInv /\ [HtNext]_htVars => HomeInv'
  <2> SUFFICES ASSUME HomeInv, [HtNext]_htVars PROVE HomeInv'
    OBVIOUS
  <2>1. CASE UNCHANGED htVars
    BY <2>1, HomeInvUnmoved
  <2>2. CASE Carry
    BY <2>2, BridgeReceiveKeeps, BridgeServeKeeps, AwayReceiveKeeps DEF Carry
  <2>3. CASE Output \/ DeskAttach \/ SeatMoves \/ HomeLost
    BY <2>3, OutputKeeps, DeskAttachKeeps, SeatMovesKeeps, HomeLostKeeps
  <2>4. ASSUME NEW d \in Aways,
               Dial(d) \/ AwayLost(d) \/ \E k \in {"spawn", "attach", "resize"} : Ask(d, k)
        PROVE  HomeInv'
    BY <2>4, DialKeeps, AwayLostKeeps, AskKeeps
  <2> QED BY <2>1, <2>2, <2>3, <2>4 DEF HtNext
<1> QED BY <1>1, <1>2, PTL DEF HtSpec

LEMMA LineInStep ==
  ASSUME HomeInv
  PROVE  RepliesInStep
<1>1. SUFFICES ASSUME ~sim.stray, NEW d \in Aways, away[d].conn # 0
               PROVE  Ids(away[d].pend) = Ids(Line(d))
  BY DEF RepliesInStep, Line
<1>2. HomeShape /\ InLine(away[d].pend, Line(d)) /\ away[d].conn \in Calls
  BY <1>1, DeviceRow DEF HomeInv, DeviceStands, RepliesFit
<1>3. PICK p \in Seq(Asked) : p = away[d].pend
  BY <1>2, DeviceRow
<1>4. PICK s \in Seq(AnyFrame) : s = Line(d)
  BY <1>2, LineIsFrames DEF Line
<1>5. DOMAIN p = DOMAIN s /\ \A i \in DOMAIN p : p[i].id = s[i].id
  BY <1>2, <1>3, <1>4 DEF InLine, Fits
<1>6. Ids(p) = Ids(s)
  BY <1>5 DEF Ids
<1> QED BY <1>3, <1>4, <1>6

(* Answers carry no number: the requests a device has pending are the        *)
(* answers, the queued requests and the requests on their way to and from    *)
(* its connection, in order, across drops and reconnections                  *)
(* (relay-client.ts matches by the head of the pending list).                *)
THEOREM RepliesInStepAlways == HtSpec => []RepliesInStep
  BY HomeInvAlways, LineInStep, PTL

LEMMA GapIsShown ==
  ASSUME HomeInv
  PROVE  GapReplayedIfCountTrue
<1>1. SUFFICES ASSUME ~sim.stray, NEW d \in Aways, Settled(d), ~away[d].failed, ~away[d].over,
                      NEW b \in Owed(d)
               PROVE  b \in away[d].shown
  BY DEF GapReplayedIfCountTrue
<1> DEFINE c == away[d].conn
<1>2. /\ c # 0 /\ away[d].listening /\ bridge[c].sub = "live" /\ bridge[c].queue = <<>>
      /\ pipe[c].up = <<>> /\ pipe[c].down = <<>>
  BY <1>1 DEF Settled
<1>3. Follows(d)
  BY <1>2 DEF Follows
<1>4. Coming(d, b, Nat)
  BY <1>1, <1>3 DEF HomeInv, DeviceStands, OwedIsComing
<1> QED BY <1>2, <1>4, RangeEmpty DEF Coming, Shows, TurnedDown, AsksIn

(* A device that listens again, with nothing on its way, has been shown all  *)
(* of what the scrollback still holds since it first subscribed, however     *)
(* often either end lost its connection: the gap request of the greeting, or *)
(* the attach that cleared the display, brought it.                          *)
THEOREM GapReplayedAlways == HtSpec => []GapReplayedIfCountTrue
  BY HomeInvAlways, GapIsShown, PTL
=============================================================================
