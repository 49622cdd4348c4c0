----------------------------- MODULE RelayLinks -----------------------------
(* The sockets of the home-machine relay: the registry that pairs the home   *)
(* Mac with the devices away from home, and the dialling, reconnecting and   *)
(* tearing down at both ends.  What the sockets carry is HomeTerminal's.     *)
EXTENDS Naturals, Sequences, FiniteSets, SequencesExt

CONSTANTS
    Travellers,     \* devices away from home
    HomeMac,        \* the home Mac
    MaxHomeSockets, \* bound: sockets the home Mac has at a time
    MaxAwaySockets, \* bound: sockets a device has at a time
    MaxMishaps      \* bound: faults, nudges and stops

ASSUME RelayAssumption ==
    HomeMac \notin Travellers /\ MaxMishaps \in Nat
    /\ MaxHomeSockets \in Nat \ {0} /\ MaxAwaySockets \in Nat \ {0}

VARIABLES
    ends,       \* per endpoint: switched on, its socket, up, retry timer, tokens awaited
    sockets,    \* per socket: the state at each end, what is under way
    registry,   \* the home socket, the clients it serves, the last home attached
    served,     \* the connections the home bridge keeps state for
    mishaps
rlVars == <<ends, sockets, registry, served, mishaps>>

Endpoints == Travellers \union {HomeMac}

(* A socket is named by the endpoint that dials it and a number.             *)
SocketsOf(x) == {x} \X (1..(IF x = HomeMac THEN MaxHomeSockets ELSE MaxAwaySockets))

Sockets == UNION {SocketsOf(x) : x \in Endpoints}

NoSocket == <<>>

(* A socket nobody uses.  A new one takes a number that no connection the    *)
(* bridge or a message still names has.                                      *)
Unused == [near |-> "closed", far |-> "gone", kill |-> FALSE, lost |-> FALSE,
           down |-> <<>>, up |-> <<>>]

FreeSockets(x) ==
    {s \in SocketsOf(x) : sockets[s] = Unused /\ s \notin served
        /\ \A t \in Sockets : s \notin Range(sockets[t].up)
                               \union {m.conn : m \in Range(sockets[t].down)}}

Mishap == mishaps < MaxMishaps /\ mishaps' = mishaps + 1

NoMishap == UNCHANGED mishaps

(* ---- an endpoint: the bridge on the home Mac, the client on a device ---- *)

SwitchedOff == [on |-> FALSE, ws |-> NoSocket, up |-> FALSE, timer |-> FALSE, asking |-> 0]

(* connect(): nothing while a socket is kept; else a token is asked for.     *)
Connects(e) == IF e.on /\ e.ws = NoSocket THEN [e EXCEPT !.asking = @ + 1] ELSE e

(* Mutant: a closed socket is not dialled again.                           *)
SchedulesNone(e) == [e EXCEPT !.timer = FALSE]

(* At most one retry timer.                                                  *)
Schedules(e) == [e EXCEPT !.timer = e.on]

Fired(e) == Connects([e EXCEPT !.timer = FALSE])

RetryFires(x) ==
    /\ ends[x].timer
    /\ ends' = [ends EXCEPT ![x] = Fired(@)]
    /\ UNCHANGED <<sockets, registry, served>> /\ NoMishap

(* Mutant: state of an old generation is kept.                             *)
ServedLeft(x, kept) == kept

(* Every connection's state lived against this generation of the socket.     *)
ServedAfter(x, kept) == IF x = HomeMac THEN {} ELSE kept

(* The token arrives, or none can be had.  The socket dialled replaces the   *)
(* one that a second connect() may have dialled meanwhile; what the bridge   *)
(* keeps for connections of that one is never used again, and is not kept    *)
(* here.                                                                     *)
TokenArrives(x) ==
    /\ ends[x].asking > 0
    /\ LET e == [ends[x] EXCEPT !.asking = @ - 1] IN
       \/ /\ ~e.on /\ ends' = [ends EXCEPT ![x] = e]
          /\ UNCHANGED <<sockets, served>> /\ NoMishap
       \/ /\ e.on /\ Mishap /\ ends' = [ends EXCEPT ![x] = Schedules(e)]
          /\ UNCHANGED <<sockets, served>>
       \/ /\ e.on /\ FreeSockets(x) # {} /\ NoMishap
          /\ LET s == CHOOSE t \in FreeSockets(x) : \A u \in FreeSockets(x) : t[2] <= u[2] IN
             /\ ends' = [ends EXCEPT ![x] = [e EXCEPT !.ws = s]]
             /\ served' = ServedAfter(x, served)
             /\ sockets' = [sockets EXCEPT ![s] =
                   [Unused EXCEPT !.near = "dialing", !.far = "none"]]
    /\ UNCHANGED registry

OpenEvent(s) ==
    LET x == s[1] IN
    /\ sockets[s].near = "dialing" /\ sockets[s].far # "none" /\ ~sockets[s].lost
    /\ sockets' = [sockets EXCEPT ![s].near = "open"]
    /\ ends' = [ends EXCEPT ![x].up = @ \/ ends[x].ws = s]
    /\ UNCHANGED <<registry, served>> /\ NoMishap

(* The socket is gone as its owner sees it.                                  *)
Hung(s) == [sockets EXCEPT ![s] = IF @.far = "gone" THEN Unused
                                  ELSE [@ EXCEPT !.near = "closed", !.down = <<>>]]

(* A close event, after what the relay sent before it closed.  Events of a   *)
(* socket that is no longer the endpoint's own are ignored.                  *)
CloseEvent(s) ==
    LET x == s[1]
        ours == ends[x].ws = s IN
    /\ sockets[s].near \in {"dialing", "open"}
    /\ sockets[s].lost \/ (sockets[s].kill /\ sockets[s].near = "open" /\ sockets[s].down = <<>>)
    /\ sockets' = Hung(s)
    /\ ends' = IF ours THEN [ends EXCEPT ![x] = Schedules([@ EXCEPT !.ws = NoSocket, !.up = FALSE])]
               ELSE ends
    /\ served' = IF ours THEN ServedAfter(x, served) ELSE served
    /\ UNCHANGED registry /\ NoMishap

(* The relay refuses the upgrade: 401, 403 or 409.                           *)
Refused(s) ==
    LET x == s[1] IN
    /\ sockets[s].near = "dialing" /\ sockets[s].far = "none" /\ Mishap
    /\ sockets' = [sockets EXCEPT ![s] = Unused]
    /\ ends' = IF ends[x].ws = s
               THEN [ends EXCEPT ![x] = Schedules([@ EXCEPT !.ws = NoSocket, !.up = FALSE])] ELSE ends
    /\ UNCHANGED <<registry, served>>

(* homeOnline turned true: skip the backoff and dial now.                    *)
Nudge(x) ==
    /\ x # HomeMac /\ ends[x].on /\ ~ends[x].up /\ Mishap
    /\ ends' = [ends EXCEPT ![x] = Fired(@)]
    /\ UNCHANGED <<sockets, registry, served>>

(* Switched off: the role changed, or the user signed out.                   *)
Stop(x) ==
    /\ ends[x].on /\ Mishap
    /\ ends' = [ends EXCEPT ![x] = [@ EXCEPT !.on = FALSE, !.timer = FALSE, !.ws = NoSocket, !.up = FALSE]]
    /\ sockets' = IF ends[x].ws = NoSocket THEN sockets ELSE Hung(ends[x].ws)
    /\ served' = ServedAfter(x, served)
    /\ UNCHANGED registry

(* The role says home.  The bridge is one object and is started again, with  *)
(* any token its last life still waits for.                                  *)
Start ==
    /\ ~ends[HomeMac].on
    /\ ends' = [ends EXCEPT ![HomeMac] = Connects([@ EXCEPT !.on = TRUE])]
    /\ UNCHANGED <<sockets, registry, served>> /\ NoMishap

(* ---- the home bridge ---- *)

(* An open or a close of a connection reaches the bridge.                    *)
Told(kept, m) == IF m.k = "open" THEN kept \union {m.conn} ELSE kept \ {m.conn}

BridgeHears(s) ==
    /\ s[1] = HomeMac /\ sockets[s].near = "open" /\ sockets[s].down # <<>>
    /\ ~sockets[s].lost
    /\ served' = IF ends[HomeMac].ws = s THEN Told(served, Head(sockets[s].down)) ELSE served
    /\ sockets' = [sockets EXCEPT ![s].down = Tail(@)]
    /\ UNCHANGED <<ends, registry>> /\ NoMishap

(* A connection whose framing is beyond repair is dropped, and the relay told. *)
BridgeDrops(c) ==
    LET s == ends[HomeMac].ws IN
    /\ c \in served /\ s # NoSocket /\ sockets[s].near = "open" /\ Mishap
    /\ served' = served \ {c}
    /\ sockets' = [sockets EXCEPT ![s].up = Append(@, c)]
    /\ UNCHANGED <<ends, registry>>

(* ---- the relay ---- *)

Killed(socks, set) == [s \in Sockets |-> IF s \in set THEN [socks[s] EXCEPT !.kill = TRUE] ELSE socks[s]]

(* Nothing is sent on a socket that is closing.                              *)
SentHome(socks, k, c) ==
    IF registry.home = NoSocket \/ socks[registry.home].kill \/ socks[registry.home].near = "closed"
    THEN socks
    ELSE [socks EXCEPT ![registry.home].down = Append(@, [k |-> k, conn |-> c])]

(* attachHome: the newest wins; the previous home and its clients are closed. *)
AttachHome(s) ==
    /\ registry' = [home |-> s, clients |-> {}, last |-> s]
    /\ sockets' = [Killed(sockets, ({registry.home} \ {NoSocket}) \union registry.clients)
                      EXCEPT ![s].far = "open"]

(* attachClient: without a home the socket is closed at once.                *)
AttachClient(s) ==
    IF registry.home = NoSocket
    THEN /\ sockets' = [sockets EXCEPT ![s].far = "open", ![s].kill = TRUE]
         /\ UNCHANGED registry
    ELSE /\ registry' = [registry EXCEPT !.clients = @ \union {s}]
         /\ sockets' = SentHome([sockets EXCEPT ![s].far = "open"], "open", s)

(* An upgrade request that is let through; its sender may have given up      *)
(* meanwhile.                                                                *)
Accept(s) ==
    /\ sockets[s].far = "none" /\ ~sockets[s].lost
    /\ IF s[1] = HomeMac THEN AttachHome(s) ELSE AttachClient(s)
    /\ UNCHANGED <<ends, served>> /\ NoMishap

(* A request abandoned on its way.                                           *)
Abandoned(s) ==
    /\ sockets[s].far = "none" /\ (sockets[s].near = "closed" \/ sockets[s].lost)
    /\ sockets' = [sockets EXCEPT ![s] = IF @.near = "closed" THEN Unused
                                         ELSE [@ EXCEPT !.far = "gone"]]
    /\ UNCHANGED <<ends, registry, served>> /\ NoMishap

(* Mutant: any home that closes detaches the current one.                  *)
DetachHomeAny(s) == registry.home # NoSocket

(* detachHome honours only the current home.                                 *)
DetachHome(s) == registry.home = s

LeftTo(socks, s) ==
    [socks EXCEPT ![s] = IF @.near = "closed" THEN Unused ELSE [@ EXCEPT !.far = "gone"]]

(* The relay sees the socket close.                                          *)
FarClose(s) ==
    LET gone == LeftTo(sockets, s) IN
    /\ sockets[s].far = "open" /\ (sockets[s].near = "closed" \/ sockets[s].lost)
    /\ CASE s[1] = HomeMac /\ DetachHome(s) ->
              /\ sockets' = Killed(gone, registry.clients)
              /\ registry' = [registry EXCEPT !.home = NoSocket, !.clients = {}]
         [] s \in registry.clients ->
              /\ registry' = [registry EXCEPT !.clients = @ \ {s}]
              /\ sockets' = SentHome(gone, "close", s)
         [] OTHER -> sockets' = gone /\ UNCHANGED registry
    /\ UNCHANGED <<ends, served>> /\ NoMishap

(* homeMessage: a close of a connection, looked up among the clients of the  *)
(* home that is current when it arrives.                                     *)
HomeMessage(s) ==
    /\ sockets[s].up # <<>> /\ sockets[s].far = "open" /\ ~sockets[s].lost
    /\ LET c == Head(sockets[s].up)
           known == registry.clients \intersect {c} IN
       /\ registry' = [registry EXCEPT !.clients = @ \ {c}]
       /\ sockets' = [Killed(sockets, known) EXCEPT ![s].up = Tail(@)]
    /\ UNCHANGED <<ends, served>> /\ NoMishap

(* The network drops a socket, or a missed heartbeat does; or the relay      *)
(* closes it for a full buffer or a revoked device.                          *)
Breaks(s) ==
    /\ sockets[s].near # "closed" /\ ~sockets[s].lost /\ Mishap
    /\ \/ sockets' = [sockets EXCEPT ![s].lost = TRUE, ![s].down = <<>>, ![s].up = <<>>]
       \/ sockets[s].far = "open" /\ ~sockets[s].kill /\ sockets' = Killed(sockets, {s})
    /\ UNCHANGED <<ends, registry, served>>

(* Some devices have made their client, which dials at once.  A client that  *)
(* stops is not used again.                                                  *)
RlInit ==
    /\ \E made \in SUBSET Travellers :
          ends = [x \in Endpoints |->
                     IF x \in made THEN Connects([SwitchedOff EXCEPT !.on = TRUE]) ELSE SwitchedOff]
    /\ sockets = [s \in Sockets |-> Unused]
    /\ registry = [home |-> NoSocket, clients |-> {}, last |-> NoSocket]
    /\ served = {} /\ mishaps = 0

Dials(x) == RetryFires(x) \/ TokenArrives(x)

(* What a socket has under way happens.                                      *)
Proceeds(s) ==
    \/ OpenEvent(s) \/ CloseEvent(s) \/ BridgeHears(s)
    \/ Accept(s) \/ Abandoned(s) \/ FarClose(s) \/ HomeMessage(s)

RlNext ==
    \/ \E x \in Endpoints : Dials(x) \/ Nudge(x) \/ Stop(x)
    \/ Start
    \/ \E s \in Sockets : Proceeds(s) \/ Refused(s) \/ BridgeDrops(s) \/ Breaks(s)

(* Timers fire, tokens arrive, and no socket stands still.                   *)
RlFairness ==
    /\ \A x \in Endpoints : WF_rlVars(Dials(x))
    /\ \A s \in Sockets : WF_rlVars(Proceeds(s))

RlSpec == RlInit /\ [][RlNext]_rlVars /\ RlFairness

(* ---- properties ---- *)

RlTypeOK ==
    /\ ends \in [Endpoints -> [on : BOOLEAN, ws : Sockets \union {NoSocket}, up : BOOLEAN,
                               timer : BOOLEAN, asking : 0..(1 + MaxMishaps)]]
    /\ \A s \in Sockets :
          /\ sockets[s].near \in {"dialing", "open", "closed"}
          /\ sockets[s].far \in {"none", "open", "gone"}
          /\ sockets[s].near = "closed" /\ sockets[s].far = "gone" => sockets[s] = Unused
    /\ registry.home \in Sockets \union {NoSocket} /\ registry.clients \subseteq Sockets
    /\ served \subseteq Sockets

(* The home the registry serves is the last one that attached, until the     *)
(* relay has seen that very socket close: the late close of a home that was  *)
(* replaced does not put its successor out.                                  *)
HomeIsNewest ==
    registry.home # registry.last => registry.last = NoSocket \/ sockets[registry.last].far # "open"

(* The bridge serves c once it has heard what is on its way: the last word   *)
(* on c is an open, or there is none and it serves c now.                    *)
WillServe(kept, down, c) ==
    \/ c \in kept /\ \A i \in DOMAIN down : down[i].conn # c
    \/ \E i \in DOMAIN down : /\ down[i].conn = c /\ down[i].k = "open"
                               /\ \A j \in DOMAIN down : j > i => down[j].conn # c

(* The bridge and the registry agree on who is connected.  While the home    *)
(* socket stands, the clients of the registry are those the bridge serves,   *)
(* or will when it has heard what is on its way; those the bridge dropped    *)
(* are out of both, but for the relay to hear of it.                         *)
ConnsAgree ==
    LET h == registry.home IN
    h # NoSocket /\ ends[HomeMac].ws = h /\ ~sockets[h].lost /\ ~sockets[h].kill =>
        \A c \in Sockets :
            c \in registry.clients \ Range(sockets[h].up) <=> WillServe(served, sockets[h].down, c)

Through(x) == ends[x].up /\ ends[x].ws \in registry.clients /\ ends[x].ws \in served

(* While the home Mac stays on, a device that is not switched off gets       *)
(* through to the home bridge, again and again, whatever was lost, replaced, *)
(* refused or turned away before.                                            *)
AwayGetsThrough ==
    <>[]ends[HomeMac].on => \A x \in Travellers : []<>(~ends[x].on \/ Through(x))
=============================================================================
