---------------------------- MODULE HomeTerminal ----------------------------
(* A terminal on the home Mac used from other devices: the shell kept by     *)
(* SimAgent, the bridge that serves relayed connections from it, and on each *)
(* device the relay client and the terminal service.  The relay between them *)
(* is a pair of queues per connection; its sockets are RelayLinks's.         *)
EXTENDS Naturals, Sequences, FiniteSets, SequencesExt

CONSTANTS
    Aways,          \* devices away from home
    Keep,           \* bytes of scrollback the shell retains
    MaxOutput,      \* bound: bytes the shell puts out
    MaxDials,       \* bound: connections made
    MaxAsks,        \* bound: ctl requests users make
    MaxSeatMoves    \* bound: times the computer's seat comes or goes

ASSUME HomeAssumption ==
    /\ Keep \in Nat \ {0} /\ MaxOutput \in Nat /\ MaxDials \in Nat
    /\ MaxAsks \in Nat /\ MaxSeatMoves \in Nat

VARIABLES
    sim,    \* the shell, whether the seat is this Mac's
    bridge, \* per connection: open, its subscription, the ctl requests queued
    pipe,   \* per connection: frames to the home Mac and back
    away,   \* per device: connection, listener, byte count, pending requests
    asks    \* requests made so far; each is known by its number
htVars == <<sim, bridge, pipe, away, asks>>

Calls == 1..MaxDials

(* No byte is owed to a display that was never subscribed.                   *)
NothingOwed == MaxOutput

Announce == [k |-> "announce", since |-> 0, id |-> 0]

Hangup == [k |-> "close", since |-> 0, id |-> 0]

CtlRequests == [k : {"attach", "spawn", "resize"}, since : Nat, id : Nat]

Frames == [k : {"data"}, bytes : Seq(1..MaxOutput), id : {0}]
          \union [k : {"attached", "spawned", "error"}, bytes : {<<>>}, id : Nat]

(* The frame each request waits for; a resize waits for none.                *)
Expected == [attach |-> "attached", spawn |-> "spawned"]

Awaitable(r) == r.k \notin {"resize", "announce", "close", "data"}

(* The requests and answers among the frames of a queue, in order.           *)
Awaited(seq) ==
    LET upTo[n \in 0..Len(seq)] ==
          IF n = 0 THEN <<>>
          ELSE IF Awaitable(seq[n]) THEN Append(upTo[n-1], seq[n])
          ELSE upTo[n-1]
    IN  upTo[Len(seq)]

Ids(seq) == [i \in DOMAIN seq |-> seq[i].id]

(* The last bytes the shell put out, from an offset on.                      *)
Scrollback(since) ==
    LET retainedFrom == IF sim.total > Keep THEN sim.total - Keep ELSE 0
        from == IF since > retainedFrom THEN since ELSE retainedFrom IN
    [i \in 1..(IF sim.total > from THEN sim.total - from ELSE 0) |-> from + i]

(* ---- the home Mac ---- *)

(* The relay still has a device on the connection.                           *)
Held(c) == \E d \in Aways : away[d].conn = c

(* Output reaches every listener of the shell.                               *)
Emit(bytes) ==
    [c \in Calls |->
        IF bridge[c].sub = "live" /\ Held(c)
        THEN [pipe[c] EXCEPT !.down = Append(@, [k |-> "data", bytes |-> bytes, id |-> 0])]
        ELSE pipe[c]]

Output ==
    /\ sim.shell /\ sim.total < MaxOutput
    /\ sim' = [sim EXCEPT !.total = @ + 1]
    /\ pipe' = Emit(<<sim.total + 1>>)
    /\ UNCHANGED <<bridge, away, asks>>

(* The home Mac's own window attaches: the replay, too, reaches every        *)
(* listener.                                                                 *)
DeskAttach ==
    /\ sim.shell /\ sim.seat /\ sim.total > 0 /\ asks < MaxAsks
    /\ asks' = asks + 1
    /\ pipe' = Emit(Scrollback(0))
    /\ UNCHANGED <<sim, bridge, away>>

SeatMoves ==
    /\ sim.moves < MaxSeatMoves
    /\ sim' = [sim EXCEPT !.seat = ~@, !.moves = @ + 1]
    /\ UNCHANGED <<bridge, pipe, away, asks>>

(* Tearing a connection down closes its subscription; requests still queued  *)
(* for it are not served.                                                    *)
Gone(b) == [b EXCEPT !.open = FALSE, !.sub = "none", !.queue = <<>>]

(* The first frame on a terminal's channel subscribes the connection; when   *)
(* there is nothing to subscribe to it is bound to a dud for good.           *)
BridgeSubscribed(b) ==
    [b EXCEPT !.sub = IF @ # "none" THEN @
                      ELSE IF sim.shell /\ sim.seat THEN "live" ELSE "dud"]

Queued(b, f) == [b EXCEPT !.queue = Append(@, f)]

BridgeReceive(c) ==
    /\ bridge[c].open /\ pipe[c].up # <<>>
    /\ LET f == Head(pipe[c].up) IN
       /\ bridge' = [bridge EXCEPT ![c] =
             CASE f.k = "announce" -> BridgeSubscribed(@)
               [] f.k = "close" -> Gone(@)
               [] OTHER -> Queued(@, f)]
       /\ away' = [d \in Aways |->
             IF f.k = "announce" /\ away[d].conn = c /\ away[d].from = NothingOwed
             THEN [away[d] EXCEPT !.from = sim.total] ELSE away[d]]
    /\ pipe' = [pipe EXCEPT ![c].up = Tail(@)]
    /\ UNCHANGED <<sim, asks>>

Answered(p, c, kind, r) ==
    IF Held(c) THEN [p EXCEPT ![c].down = Append(@, [k |-> kind, bytes |-> <<>>, id |-> r.id])]
    ELSE p

(* Mutant: requests wait while the seat is elsewhere.                      *)
ServableAtHome(c) == bridge[c].open /\ bridge[c].queue # <<>> /\ sim.seat

(* The next request is taken up whatever the ones before it came to.         *)
Servable(c) == bridge[c].open /\ bridge[c].queue # <<>>

(* One ctl request at a time per connection; what it makes the shell emit    *)
(* goes out before its answer.  While the seat is another Mac's every        *)
(* request is answered with an error, a resize too.                          *)
BridgeServe(c) ==
    /\ Servable(c)
    /\ LET r == Head(bridge[c].queue)
           sound == sim.seat /\ (r.k = "attach" => sim.shell) IN
       /\ pipe' = CASE ~sound -> Answered(pipe, c, "error", r)
                    [] sound /\ r.k = "spawn" -> Answered(pipe, c, "spawned", r)
                    [] sound /\ r.k = "attach" ->
                         Answered(Emit(Scrollback(r.since)), c, "attached", r)
                    [] sound /\ r.k = "resize" -> pipe
       /\ sim' = [sim EXCEPT !.shell = @ \/ (sound /\ r.k = "spawn"),
                             !.stray = @ \/ (~sound /\ r.k = "resize")]
    /\ bridge' = [bridge EXCEPT ![c].queue = Tail(@)]
    /\ UNCHANGED <<away, asks>>

(* ---- a device away from home ---- *)

Waits(a, r) ==
    [a EXCEPT !.pend = Append(@, r), !.waiting = r.id,
              !.count = IF r.k = "attach" THEN 0 ELSE @,
              !.shown = IF r.k = "attach" THEN {} ELSE @]

(* The user starts a shell, attaches to the one there is, or resizes it.     *)
(* Attaching clears the display and sets the count back.                     *)
Ask(d, k) ==
    LET r == [k |-> k, since |-> 0, id |-> asks + 1] IN
    /\ away[d].conn # 0 /\ away[d].waiting = 0 /\ asks < MaxAsks
    /\ sim.shell = (k # "spawn")
    /\ asks' = asks + 1
    /\ pipe' = [pipe EXCEPT ![away[d].conn].up = Append(@, r)]
    /\ away' = [away EXCEPT ![d] = IF k = "resize" THEN @ ELSE Waits(@, r)]
    /\ UNCHANGED <<sim, bridge>>

(* The terminal service opens the channel once its request is answered: the  *)
(* old listener goes, its count with it, and a new one is announced.         *)
ChannelOpened(a) ==
    [a EXCEPT !.listening = TRUE, !.count = 0, !.waiting = 0, !.failed = FALSE,
              !.over = FALSE]

Counted(a, bytes) ==
    IF a.listening
    THEN [a EXCEPT !.count = @ + Len(bytes), !.shown = @ \union Range(bytes)]
    ELSE a

(* A data frame is counted and shown while there is a listener.  An answer   *)
(* or an error goes to the request at the head of the pending ones.          *)
AwayReceive(d) ==
    LET c == away[d].conn
        a == away[d] IN
    /\ c # 0 /\ pipe[c].down # <<>>
    /\ LET f == Head(pipe[c].down)
           taken == f.k # "data" /\ a.pend # <<>> /\ f.k \in {Expected[Head(a.pend).k], "error"}
           asked == taken /\ Head(a.pend).id = a.waiting /\ a.waiting # 0
           rest == [a EXCEPT !.pend = IF taken THEN Tail(@) ELSE @] IN
       /\ away' = [away EXCEPT ![d] =
             CASE f.k = "data" -> Counted(a, f.bytes)
               [] asked /\ f.k # "error" -> ChannelOpened(rest)
               [] taken /\ f.k = "error" ->
                    [rest EXCEPT !.waiting = IF asked THEN 0 ELSE @, !.failed = TRUE]
               [] OTHER -> rest]
       /\ pipe' = [pipe EXCEPT
             ![c].down = Tail(@),
             ![c].up = IF asked /\ f.k # "error" THEN Append(@, Announce) ELSE @]
    /\ UNCHANGED <<sim, bridge, asks>>

(* Mutant: the gap is not asked for.                                       *)
GreetingBare(a) == IF a.listening THEN <<Announce>> ELSE <<>>

(* A new connection announces the listener that was kept, then asks for the  *)
(* gap from the bytes counted so far.                                        *)
Greeting(a) ==
    IF a.listening THEN <<Announce, [k |-> "attach", since |-> a.count, id |-> 0]>> ELSE <<>>

Dial(d) ==
    LET c == 1 + Cardinality({e \in Calls : bridge[e].used})
        a == away[d] IN
    /\ a.conn = 0 /\ c \in Calls
    /\ bridge' = [bridge EXCEPT ![c].open = TRUE, ![c].used = TRUE]
    /\ pipe' = [pipe EXCEPT ![c].up = Greeting(a)]
    /\ away' = [away EXCEPT ![d].conn = c, ![d].pend = @ \o Awaited(Greeting(a)),
                            ![d].failed = FALSE,
                            ![d].over = \E b \in (a.from + 1)..a.count : b \notin a.shown]
    /\ UNCHANGED <<sim, asks>>

(* Mutant: pending requests outlive the connection.                        *)
CutKeeping(a) == [a EXCEPT !.conn = 0, !.waiting = 0]

(* Pending requests fail with the connection; the listener and its count     *)
(* stay.                                                                     *)
Cut(a) == [a EXCEPT !.conn = 0, !.pend = <<>>, !.waiting = 0]

(* The device's socket closes; the relay tells the bridge after what it      *)
(* already passed on.                                                        *)
AwayLost(d) ==
    LET c == away[d].conn IN
    /\ c # 0
    /\ pipe' = [pipe EXCEPT ![c].down = <<>>, ![c].up = Append(@, Hangup)]
    /\ away' = [away EXCEPT ![d] = Cut(@)]
    /\ UNCHANGED <<sim, bridge, asks>>

(* The home Mac's socket closes: the bridge forgets every connection, and    *)
(* the relay closes every device's.                                          *)
HomeLost ==
    /\ \E c \in Calls : bridge[c].open
    /\ bridge' = [c \in Calls |-> Gone(bridge[c])]
    /\ pipe' = [c \in Calls |-> [up |-> <<>>, down |-> <<>>]]
    /\ away' = [d \in Aways |-> Cut(away[d])]
    /\ UNCHANGED <<sim, asks>>

HtInit ==
    /\ sim \in [shell : BOOLEAN, total : {0}, seat : {TRUE}, moves : {0}, stray : {FALSE}]
    /\ bridge = [c \in Calls |-> [used |-> FALSE, open |-> FALSE, sub |-> "none", queue |-> <<>>]]
    /\ pipe = [c \in Calls |-> [up |-> <<>>, down |-> <<>>]]
    /\ away = [d \in Aways |->
                  [conn |-> 0, listening |-> FALSE, count |-> 0, pend |-> <<>>, waiting |-> 0,
                   shown |-> {}, from |-> NothingOwed, failed |-> FALSE, over |-> FALSE]]
    /\ asks = 0

Carry ==
    \/ \E c \in Calls : BridgeReceive(c) \/ BridgeServe(c)
    \/ \E d \in Aways : AwayReceive(d)

HtNext ==
    \/ Carry \/ Output \/ DeskAttach \/ SeatMoves \/ HomeLost
    \/ \E d \in Aways :
          Dial(d) \/ AwayLost(d) \/ \E k \in {"spawn", "attach", "resize"} : Ask(d, k)

(* Frames in flight arrive and queued requests are served.                   *)
HtFairness == WF_htVars(Carry)

HtSpec == HtInit /\ [][HtNext]_htVars /\ HtFairness

(* ---- properties ---- *)

HtTypeOK ==
    /\ sim \in [shell : BOOLEAN, total : 0..MaxOutput, seat : BOOLEAN,
                moves : 0..MaxSeatMoves, stray : BOOLEAN]
    /\ bridge \in [Calls -> [used : BOOLEAN, open : BOOLEAN, sub : {"none", "live", "dud"},
                             queue : Seq(CtlRequests)]]
    /\ pipe \in [Calls -> [up : Seq(CtlRequests \union {Announce, Hangup}), down : Seq(Frames)]]
    /\ \A d \in Aways :
          /\ away[d].conn \in {0} \union {c \in Calls : bridge[c].used}
          /\ away[d].shown \subseteq 1..sim.total
          /\ away[d].waiting \in {0} \union {away[d].pend[i].id : i \in DOMAIN away[d].pend}
    /\ \A c \in Calls : ~bridge[c].open => bridge[c].sub = "none"

(* The ctl wire carries no ids: answers are matched to requests by their     *)
(* order.  What is pending on a device is, in order, what is answered and on *)
(* its way, then what the bridge has queued, then what is on its way there,  *)
(* across drops and reconnections; unless the bridge answered a request that *)
(* waits for no answer, which it does while the seat is elsewhere.           *)
RepliesInStep ==
    sim.stray \/ \A d \in Aways :
        LET c == away[d].conn IN
        c # 0 => Ids(away[d].pend) = Ids(Awaited(pipe[c].down) \o Awaited(bridge[c].queue)
                                         \o Awaited(pipe[c].up))

(* Nothing is on its way to or from a device that follows the shell.         *)
Settled(d) ==
    LET c == away[d].conn IN
    /\ c # 0 /\ away[d].listening /\ away[d].pend = <<>>
    /\ pipe[c] = [up |-> <<>>, down |-> <<>>] /\ bridge[c].queue = <<>>
    /\ bridge[c].sub = "live"

(* What the display owes its user: the output since it first subscribed.     *)
Owed(d) == {b \in 1..sim.total : b > away[d].from /\ b + Keep > sim.total}

(* A device that comes back has missed nothing of what the scrollback still  *)
(* holds, unless the bytes it counted ran ahead of the bytes it saw, or a    *)
(* stray answer was taken for the one to its own request.                    *)
GapReplayedIfCountTrue ==
    sim.stray \/ \A d \in Aways :
        Settled(d) /\ ~away[d].failed /\ ~away[d].over => Owed(d) \subseteq away[d].shown

(* A user who attached or started a shell gets an answer, or the connection  *)
(* ends, whatever the seat does meanwhile.                                   *)
AskIsAnswered == \A d \in Aways : away[d].waiting # 0 ~> away[d].waiting = 0
=============================================================================
