------------------------------ MODULE PtyStream ------------------------------
(* One terminal of the machine agent: the shell, which runs under tmux when  *)
(* the agent found tmux, the portable-pty session that reads it, and the     *)
(* desktops that list it, attach to it and are pumped its output.            *)
EXTENDS Naturals, Sequences, FiniteSets, FiniteSetsExt

CONSTANTS
    Conns,          \* the desktops followed; others list and attach too
    MaxLines,       \* lines the scrollback ring retains
    LagCapacity,    \* chunks the output broadcast retains
    ChunkSizes,     \* bytes one read may return
    Breaks,         \* the stream offsets that end a line
    MaxBytes,       \* bound: the offsets of one launch
    MaxReads,       \* bound: bytes read from the shell
    MaxCaptured,    \* bound: bytes of one launch put there by captures
    MaxLaunches,    \* bound: sessions opened on the shell
    MaxFaults       \* bound: lost links, failed launches, restarts

ASSUME PtyAssumption ==
    /\ MaxLines \in Nat \ {0} /\ LagCapacity \in Nat \ {0}
    /\ Breaks \subseteq Nat \ {0} /\ ChunkSizes \subseteq Nat \ {0}
    /\ MaxBytes \in Nat /\ MaxReads \in Nat /\ MaxCaptured \in Nat
    /\ MaxLaunches \in Nat \ {0} /\ MaxFaults \in Nat

VARIABLES
    agent,  \* the shell, the session table's entry for it, exits not yet told
    lane,   \* per launch: the ring, the reader thread and its broadcast
    conn,   \* per desktop: ctl link, terminal record, output pump
    faults
ptyVars == <<agent, lane, conn, faults>>

Launches == 1..MaxLaunches

AgentType ==
    [mux : BOOLEAN, shell : {"none", "live", "gone"}, open : BOOLEAN,
     gen : 0..MaxLaunches, pending : Nat, told : Nat, failed : Nat,
     unseen : BOOLEAN, crashed : BOOLEAN]

Chunk == [end : 1..MaxBytes, len : 1..MaxBytes]

NoChunk == [end |-> 0, len |-> 0]

LaneType ==
    [base : 0..MaxBytes, total : 0..MaxBytes, mute : SUBSET (1..MaxBytes),
     child : {"live", "exited"}, pc : {"read", "send", "over"},
     hand : Chunk \union {NoChunk}, sent : Seq(Chunk)]

ConnType ==
    [up : BOOLEAN, record : {"none", "running", "exited"},
     pump : {"none", "asked", "running", "resync", "ended"},
     gen : 0..MaxLaunches, at : Nat, delivered : 0..MaxBytes, stray : BOOLEAN,
     got : Seq(Launches \X (1..MaxBytes))]

NoPump(c) ==
    [c EXCEPT !.pump = "none", !.gen = 0, !.at = 0, !.delivered = 0,
              !.stray = FALSE, !.got = <<>>]

(* ---- the scrollback ring ---- *)

LineEnds(l) == {o \in Breaks : l.base < o /\ o <= l.total}

(* Lines over the cap leave at the front and move the base forward.          *)
Evicted(l) ==
    LET over == {o \in LineEnds(l) :
                    Cardinality({p \in LineEnds(l) : p > o}) >= MaxLines} IN
    [l EXCEPT !.base = Max({@} \union over)]

Push(l, n) == Evicted([l EXCEPT !.total = @ + n])

(* A capture of the screen takes the place of what is retained; the offsets  *)
(* go on from where they were.                                               *)
ReplaceRetained(l, n) ==
    Push([l EXCEPT !.base = l.total,
                   !.mute = @ \union ((l.total + 1)..(l.total + n))], n)

Span(g, from, to) == [i \in 1..(IF to > from THEN to - from ELSE 0) |-> <<g, from + i>>]

BytesSince(g, offset) ==
    LET l == lane[g] IN
    Span(g, Min({Max({offset, l.base}), l.total}), l.total)

(* ---- the reader thread ---- *)

LaneOf(n) ==
    Push([base |-> 0, total |-> 0, mute |-> 1..n, child |-> "live",
          pc |-> "read", hand |-> NoChunk, sent |-> <<>>], n)

(* Every byte read so far, whichever session read it.                        *)
LiveBytes == UNION {{g} \X ((1..lane[g].total) \ lane[g].mute) : g \in Launches}

(* The bytes enter the ring, and their end offset is fixed, under one lock.  *)
Read(g, n) ==
    /\ lane[g].pc = "read"
    /\ lane[g].total + n <= MaxBytes
    /\ n + Cardinality(LiveBytes) <= MaxReads
    /\ lane' = [lane EXCEPT ![g] =
                   [Push(@, n) EXCEPT !.pc = "send",
                                      !.hand = [end |-> lane[g].total + n, len |-> n]]]
    /\ UNCHANGED <<agent, conn, faults>>

(* The chunk, appended to scrollback.log whose contents the model leaves     *)
(* out, goes to every subscriber.                                            *)
Send(g) ==
    /\ lane[g].pc = "send"
    /\ lane' = [lane EXCEPT ![g].pc = "read", ![g].hand = NoChunk,
                            ![g].sent = Append(@, lane[g].hand)]
    /\ UNCHANGED <<agent, conn, faults>>

Eof(g) ==
    /\ lane[g].pc = "read" /\ lane[g].child = "exited"
    /\ lane' = [lane EXCEPT ![g].pc = "over"]
    /\ UNCHANGED <<agent, conn, faults>>

(* ---- the shell and the session table ---- *)

(* The session's child, a shell or a tmux client, has exited.                *)
Dead == agent.open /\ lane[agent.gen].child = "exited"

(* tmux still has the session.                                               *)
HasSession == agent.mux /\ agent.shell = "live"

(* The size of a capture of the screen.                                      *)
Captures == {1}

(* A session for the shell, its ring seeded with n captured bytes.           *)
LaunchClient(n) ==
    lane' = [g \in Launches |->
                IF g = agent.gen + 1 THEN LaneOf(n) ELSE lane[g]]

Launched == [agent EXCEPT !.open = TRUE, !.gen = @ + 1]

Fault == faults < MaxFaults /\ faults' = faults + 1

(* The desktop opens a new channel for the terminal, closing the one it had. *)
Opened(c) == [NoPump(conn[c]) EXCEPT !.pump = "asked"]

(* A desktop starts the terminal and opens its channel.                      *)
Spawn(c) ==
    /\ agent.shell = "none" /\ conn[c].up
    /\ agent' = [Launched EXCEPT !.shell = "live"]
    /\ LaunchClient(0)
    /\ conn' = [conn EXCEPT ![c] = [Opened(c) EXCEPT !.record = "running"]]
    /\ UNCHANGED faults

(* The shell ends, or a desktop closes the terminal and kills it.  Under     *)
(* tmux the client notices later.                                            *)
ShellExits ==
    /\ agent.shell = "live"
    /\ agent' = [agent EXCEPT !.shell = "gone", !.unseen = ~agent.open]
    /\ lane' = IF agent.open /\ ~agent.mux
               THEN [lane EXCEPT ![agent.gen].child = "exited"] ELSE lane

Exit == ShellExits /\ UNCHANGED <<conn, faults>>

Close(c) ==
    /\ conn[c].record # "none" /\ conn[c].up
    /\ ShellExits
    /\ conn' = [conn EXCEPT ![c] = [NoPump(@) EXCEPT !.record = "none"]]
    /\ UNCHANGED faults

(* A tmux client exits with its session, or is detached from it.             *)
ClientExits ==
    /\ agent.mux /\ agent.open /\ ~Dead
    /\ agent.shell = "gone" \/ agent.gen < MaxLaunches
    /\ lane' = [lane EXCEPT ![agent.gen].child = "exited"]
    /\ UNCHANGED <<agent, conn, faults>>

(* Mutant: a reaped exit is not kept for the exit pump.                    *)
ReapedForgetful == IF Dead THEN [agent EXCEPT !.open = FALSE] ELSE agent

(* The entry of a dead child leaves the table.  Its exit is kept for the     *)
(* exit pump unless tmux still has the shell.                                *)
Reaped ==
    IF Dead THEN [agent EXCEPT !.open = FALSE,
                               !.pending = @ + (IF HasSession THEN 0 ELSE 1)]
    ELSE agent

(* Mutant: exits that were told are kept.                                  *)
ToldAgain(a, n) == [a EXCEPT !.told = @ + a.pending + n]

(* The exit pump's tick hands every exit to the ctl connections.  A session  *)
(* whose client died is launched again; when that fails it is told as an     *)
(* exit.                                                                     *)
Told(a, n) == [a EXCEPT !.pending = 0, !.told = @ + a.pending + n]

Hear(n) ==
    conn' = [c \in Conns |->
                IF n > 0 /\ conn[c].up /\ conn[c].record = "running"
                THEN [conn[c] EXCEPT !.record = "exited"] ELSE conn[c]]

CollectNewExits ==
    /\ \E c \in Conns : conn[c].up
    /\ Dead \/ agent.pending > 0
    /\ \/ /\ Dead /\ HasSession
          /\ \/ /\ \E n \in Captures : LaunchClient(n)
                /\ agent' = Told(Launched, 0)
                /\ Hear(agent.pending)
                /\ UNCHANGED faults
             \/ /\ Fault
                /\ agent' = Told([agent EXCEPT !.open = FALSE, !.failed = @ + 1], 1)
                /\ Hear(1)
                /\ UNCHANGED lane
       \/ /\ ~(Dead /\ HasSession)
          /\ agent' = Told(Reaped, 0)
          /\ Hear(1)
          /\ UNCHANGED <<lane, faults>>

(* Discovery: the table after reaping, then what tmux or the disk still has. *)
AgentList == agent.shell # "none" /\ agent' = Reaped /\ UNCHANGED <<lane, faults>>

List(c) ==
    /\ conn[c].up /\ AgentList
    /\ conn' = [conn EXCEPT ![c].record =
                    IF agent'.open \/ HasSession THEN "running" ELSE "exited"]

(* Attach reaps, then resumes the session with a fresh capture, or launches  *)
(* one on a live tmux session, or finds only what is on disk.                *)
AgentAttach(restore) ==
    LET open == agent.open /\ ~Dead IN
    /\ agent.shell # "none"
    /\ \/ /\ open /\ restore = "running"
          /\ \/ UNCHANGED lane
             \/ /\ agent.mux
                /\ \E n \in Captures :
                       /\ lane[agent.gen].total + n <= MaxBytes
                       /\ Cardinality(lane[agent.gen].mute) + n <= MaxCaptured
                       /\ lane' = [lane EXCEPT ![agent.gen] = ReplaceRetained(@, n)]
          /\ UNCHANGED <<agent, faults>>
       \/ /\ ~open /\ HasSession /\ restore = "running"
          /\ agent.gen < MaxLaunches
          /\ \E n \in Captures : LaunchClient(n)
          /\ agent' = Launched
          /\ UNCHANGED faults
       \/ /\ ~open /\ HasSession /\ restore = "error"
          /\ Fault
          /\ agent' = Reaped
          /\ UNCHANGED lane
       \/ /\ ~open /\ ~HasSession /\ restore = "exited"
          /\ agent' = Reaped
          /\ UNCHANGED <<lane, faults>>

(* The desktop then opens a new channel, unless the attach failed.           *)
Attach(c) ==
    /\ conn[c].up /\ conn[c].record # "none"
    /\ \E restore \in {"running", "exited", "error"} :
          /\ AgentAttach(restore)
          /\ conn' = IF restore = "error" THEN conn
                     ELSE [conn EXCEPT ![c] = [Opened(c) EXCEPT !.record = restore]]

(* A desktop that is not followed lists or attaches.                         *)
Elsewhere ==
    /\ AgentList \/ \E restore \in {"running", "exited", "error"} : AgentAttach(restore)
    /\ UNCHANGED conn

(* ---- the output pump of a channel ---- *)

Subscribed(k, l) ==
    [k EXCEPT !.pump = "running", !.at = Len(l.sent), !.delivered = l.total]

(* Subscribe, then read the replay, both under the agent's lock.  Without a  *)
(* session the channel carries what is on disk and no more.                  *)
StartPump(c) ==
    /\ conn[c].pump = "asked"
    /\ conn' = [conn EXCEPT ![c] =
           IF agent.open
           THEN [Subscribed(@, lane[agent.gen]) EXCEPT
                    !.gen = agent.gen, !.got = BytesSince(agent.gen, 0)]
           ELSE [@ EXCEPT !.pump = "ended"]]
    /\ UNCHANGED <<agent, lane, faults>>

Lagging(c) == Len(lane[conn[c].gen].sent) - conn[c].at > LagCapacity

(* Mutant: nothing is skipped or trimmed.                                  *)
DeliveredAll(k, chunk) ==
    [k EXCEPT !.got = @ \o Span(k.gen, chunk.end - chunk.len, chunk.end),
              !.delivered = chunk.end]

(* Skip what was already written, trim what straddles it.                    *)
Delivered(k, chunk) ==
    IF chunk.end <= k.delivered THEN k
    ELSE [k EXCEPT !.got = @ \o Span(k.gen, Max({k.delivered, chunk.end - chunk.len}), chunk.end),
                   !.delivered = chunk.end]

PumpChunk(c) ==
    /\ conn[c].pump = "running" /\ ~Lagging(c)
    /\ conn[c].at < Len(lane[conn[c].gen].sent)
    /\ LET chunk == lane[conn[c].gen].sent[conn[c].at + 1] IN
       conn' = [conn EXCEPT ![c] = [Delivered(@, chunk) EXCEPT !.at = conn[c].at + 1]]
    /\ UNCHANGED <<agent, lane, faults>>

(* Mutant: a lagging receiver stays where it was.                          *)
PumpLaggedInPlace(c) ==
    /\ conn[c].pump = "running" /\ Lagging(c)
    /\ conn' = [conn EXCEPT ![c].pump = "resync"]
    /\ UNCHANGED <<agent, lane, faults>>

(* The broadcast dropped chunks this pump had not taken.                     *)
PumpLagged(c) ==
    /\ conn[c].pump = "running" /\ Lagging(c)
    /\ conn' = [conn EXCEPT ![c].at = Len(lane[conn[c].gen].sent) - LagCapacity,
                            ![c].pump = "resync"]
    /\ UNCHANGED <<agent, lane, faults>>

(* The gap is read from the ring of the session now in the table, which may  *)
(* be another launch than the one the pump follows.                          *)
Resynced(k) ==
    [k EXCEPT !.pump = "running",
              !.stray = k.stray \/ agent.gen # k.gen,
              !.got = k.got \o BytesSince(agent.gen, k.delivered),
              !.delivered = lane[agent.gen].total]

PumpResync(c) ==
    /\ conn[c].pump = "resync"
    /\ conn' = [conn EXCEPT ![c] =
                   IF agent.open THEN Resynced(conn[c]) ELSE [conn[c] EXCEPT !.pump = "ended"]]
    /\ UNCHANGED <<agent, lane, faults>>

(* Every sender is gone: the session's and the reader thread's.              *)
PumpClosed(c) ==
    /\ conn[c].pump = "running" /\ ~Lagging(c)
    /\ conn[c].at = Len(lane[conn[c].gen].sent)
    /\ lane[conn[c].gen].pc = "over"
    /\ ~(agent.open /\ agent.gen = conn[c].gen)
    /\ conn' = [conn EXCEPT ![c].pump = "ended"]
    /\ UNCHANGED <<agent, lane, faults>>

(* ---- links and restarts ---- *)

LinkLost(c) ==
    /\ conn[c].up /\ Fault
    /\ conn' = [conn EXCEPT ![c].up = FALSE]
    /\ UNCHANGED <<agent, lane>>

Reconnect(c) ==
    /\ ~conn[c].up
    /\ conn' = [conn EXCEPT ![c].up = TRUE]
    /\ UNCHANGED <<agent, lane, faults>>

ChannelLost(c) ==
    /\ conn[c].pump # "none" /\ Fault
    /\ conn' = [conn EXCEPT ![c] = NoPump(@)]
    /\ UNCHANGED <<agent, lane>>

(* The agent process restarts: the table, the rings, the exits not told and  *)
(* every connection are gone; tmux keeps its shell, a direct shell dies.     *)
AgentRestart ==
    /\ agent.shell # "none" /\ Fault
    /\ agent' = [agent EXCEPT !.open = FALSE, !.pending = 0, !.crashed = TRUE,
                              !.shell = IF agent.mux THEN @ ELSE "gone"]
    /\ lane' = [g \in Launches |-> [lane[g] EXCEPT !.child = "exited", !.pc = "over", !.hand = NoChunk]]
    /\ conn' = [c \in Conns |-> [NoPump(conn[c]) EXCEPT !.up = FALSE]]

PtyInit ==
    /\ agent \in [mux : BOOLEAN, shell : {"none"}, open : {FALSE}, gen : {0},
                  pending : {0}, told : {0}, failed : {0}, unseen : {FALSE},
                  crashed : {FALSE}]
    /\ lane = [g \in Launches |-> [LaneOf(0) EXCEPT !.child = "exited", !.pc = "over"]]
    /\ conn = [c \in Conns |->
                  [up |-> TRUE, record |-> "none", pump |-> "none", gen |-> 0, at |-> 0,
                   delivered |-> 0, stray |-> FALSE, got |-> <<>>]]
    /\ faults = 0

ReaderStep(g) == Send(g) \/ Eof(g)

PumpStep(c) ==
    StartPump(c) \/ PumpChunk(c) \/ PumpLagged(c) \/ PumpResync(c) \/ PumpClosed(c)

PtyNext ==
    \/ \E g \in Launches : (\E n \in ChunkSizes : Read(g, n)) \/ ReaderStep(g)
    \/ \E c \in Conns :
          \/ Spawn(c) \/ Close(c) \/ List(c) \/ Attach(c) \/ PumpStep(c)
          \/ LinkLost(c) \/ Reconnect(c) \/ ChannelLost(c)
    \/ Elsewhere \/ Exit \/ ClientExits \/ CollectNewExits \/ AgentRestart

(* The threads and tasks of the agent run, the exit pump ticks, desktops     *)
(* reconnect, and a tmux client whose session is gone exits.                 *)
PtyFairness ==
    /\ \A g \in Launches : WF_ptyVars(ReaderStep(g))
    /\ \A c \in Conns : WF_ptyVars(PumpStep(c)) /\ WF_ptyVars(Reconnect(c))
    /\ WF_ptyVars(CollectNewExits)
    /\ WF_ptyVars(agent.shell = "gone" /\ ClientExits)

PtySpec == PtyInit /\ [][PtyNext]_ptyVars /\ PtyFairness

(* ---- properties ---- *)

(* Types, and cursors that stay inside what they index: a ring's window, a   *)
(* receiver's place in the broadcast, a pump's offset in the stream.         *)
PtyTypeOK ==
    /\ agent \in AgentType
    /\ lane \in [Launches -> LaneType]
    /\ conn \in [Conns -> ConnType]
    /\ faults \in 0..MaxFaults
    /\ \A g \in Launches : lane[g].base <= lane[g].total
    /\ \A c \in Conns : conn[c].gen # 0 =>
          /\ conn[c].at <= Len(lane[conn[c].gen].sent)
          /\ conn[c].stray \/ conn[c].delivered <= lane[conn[c].gen].total

(* What PtyDelivery sees of a ring, and of a channel: nothing once the pump  *)
(* has strayed to another launch than the one it subscribed to.              *)
WindowOf(l) == [base |-> l.base, total |-> l.total, mute |-> l.mute]

FeedOf(k) ==
    IF k.gen = 0 \/ k.stray THEN [launch |-> 0, upto |-> 0, got |-> <<>>]
    ELSE [launch |-> k.gen, upto |-> k.delivered,
          got |-> [i \in DOMAIN k.got |-> k.got[i][2]]]

Delivery == INSTANCE PtyDelivery WITH
    Clients <- Conns,
    window <- [g \in Launches |-> WindowOf(lane[g])],
    feed <- [c \in Conns |-> FeedOf(conn[c])]

(* A channel is served in order, nothing twice, with no hole but what left   *)
(* the ring or was a capture of the screen: the pump of start_pty_pump       *)
(* implements the promise of PtyDelivery, for as long as it follows the      *)
(* launch it subscribed to.                                                  *)
ServedInOrder == Delivery!DeliverySpec

(* The exit of a shell is told at most once whichever of the exit pump,      *)
(* pty.list and pty.attach reaped it, and never while the shell lives, but   *)
(* for a relaunch that failed.                                               *)
ExitToldOnce ==
    agent.told + agent.pending <= agent.failed + (IF agent.shell = "gone" THEN 1 ELSE 0)

(* The exit of a shell is told in the end, unless it happened while no       *)
(* session watched it or the agent restarted.                                *)
ExitToldInTheEnd ==
    agent.shell = "gone" ~> (agent.told > 0 \/ agent.unseen \/ agent.crashed)

(* A subscribed pump does not fall asleep on output.                         *)
PumpCatchesUp ==
    \A c \in Conns :
        []<>(\/ conn[c].pump \in {"none", "ended"}
             \/ conn[c].pump = "running" /\ conn[c].at = Len(lane[conn[c].gen].sent))
=============================================================================
