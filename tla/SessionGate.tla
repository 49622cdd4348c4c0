---------------------------- MODULE SessionGate ----------------------------
(* One space of the desktop's sync service: the navigation gate that keeps *)
(* tabs from loading before their cookies are there, the queue that applies *)
(* incoming records, and the staging of later ones behind the Sync control *)
(* (SyncService, TabManager's gate, live-partition).                        *)
(*                                                                          *)
(* A version of a cookie is a number: its HLC. Peers write the versions in  *)
(* `hub'; what this device writes itself only ever supersedes them here,    *)
(* and how it reaches the hub is PublishLane's subject. A record is live or *)
(* staged by its origin: origins with rotating auth apply at once, while    *)
(* the user's override leaves them in sync.                                 *)
EXTENDS Naturals, Sequences, FiniteSets, SequencesExt, FiniteSetsExt

CONSTANTS Cookies,      \* cookies of the space
          Rotating,     \* the ones whose origin rotates its authentication
          MaxWrites,    \* bound on the versions written by peers
          MaxUpsets     \* bound on drops, refused writes, pushes and overrides

ASSUME GateAssumption == /\ Rotating \subseteq Cookies
                         /\ {MaxWrites, MaxUpsets} \subseteq Nat

VARIABLES space,   \* the SpaceSyncState, with the engine's records
          gate,    \* is the space in sessionReadySpaces?
          link,    \* the connection and the frames under way on it
          peers    \* what the hub holds, and the bounds used up

gateVars == <<space, gate, link, peers>>

NoVersions == [c \in Cookies |-> 0]
NewestOf(f, g) == [c \in Cookies |-> Max({f[c], g[c]})]
Only(f, S) == [c \in Cookies |-> IF c \in S THEN f[c] ELSE 0]
Only1(c, v) == [NoVersions EXCEPT ![c] = v]

Records(r) == [t |-> "records", recs |-> r]
HydrateDone == [t |-> "done", recs |-> NoVersions]

(* A work item of recordQueue: records of the first hydration, or live ones *)
(* to partition and then apply.                                            *)
Job == [kind : {"apply", "live", "liveApply"}, recs : [Cookies -> Nat], epoch : Nat]

(* A finishHydration under way waits for the items then queued, and seeds. *)
(* `due' is what this connection had delivered when it was called.         *)
Finish == [step : {"queue", "seed"}, wait : Nat, due : [Cookies -> Nat]]

(* The Sync control: a pull of the staged records, or a push of the local   *)
(* jar over them (`seen': the staged ones it has visited).                  *)
Sync == [step : {"idle", "pull", "push"}, recs : [Cookies -> Nat],
         local : SUBSET Cookies, seen : SUBSET Cookies]
Idle == [step |-> "idle", recs |-> NoVersions, local |-> {}, seen |-> {}]

GateTypeOK ==
  /\ space \in [recs : [Cookies -> Nat], jar : SUBSET Cookies, live : SUBSET Rotating, staged : [Cookies -> Nat],
                hydrating : BOOLEAN, once : BOOLEAN, err : BOOLEAN, retry : BOOLEAN, epoch : Nat,
                queue : Seq(Job), finishing : Seq(Finish), sync : Sync]
  /\ gate \in {"open", "closed"}
  /\ link \in [up : BOOLEAN, asked : BOOLEAN, frames : Seq([t : {"records", "done"}, recs : [Cookies -> Nat]]),
               got : [Cookies -> Nat], dropped : SUBSET Cookies]
  /\ peers \in [hub : [Cookies -> Nat], ver : Nat, writes : Nat, upsets : Nat]

NewSpace(browser) ==
  [recs |-> NoVersions, jar |-> browser, live |-> Rotating, staged |-> NoVersions, hydrating |-> TRUE, once |-> FALSE,
   err |-> FALSE, retry |-> FALSE, epoch |-> 0, queue |-> <<>>, finishing |-> <<>>, sync |-> Idle]
NoLink  == [up |-> FALSE, asked |-> FALSE, frames |-> <<>>, got |-> NoVersions, dropped |-> {}]
NoPeers == [hub |-> NoVersions, ver |-> 0, writes |-> 0, upsets |-> 0]

GateInit ==
  /\ \E browser \in {{}, Cookies} : space = NewSpace(browser)
  /\ gate = "closed"
  /\ link = NoLink
  /\ peers = NoPeers

(* finishHydration resumes in the same turn of the event loop as the queue *)
(* it waited for: no frame, timer or socket event comes between.           *)
Ready(f) == f.step = "queue" /\ f.wait = 0
Turn == \A i \in DOMAIN space.finishing : ~Ready(space.finishing[i])

Upset ==
  /\ peers.upsets < MaxUpsets
  /\ peers' = [peers EXCEPT !.upsets = @ + 1]

----------------------------------------------------------------------------
(* The hub and the socket.                                                 *)

PeerWrites(c) ==
  /\ peers.writes < MaxWrites
  /\ peers' = [peers EXCEPT !.ver = @ + 1, !.writes = @ + 1, !.hub[c] = peers.ver + 1]
  /\ link' = IF link.up THEN [link EXCEPT !.frames = Append(@, Records(Only1(c, peers.ver + 1)))] ELSE link
  /\ UNCHANGED <<space, gate>>

(* onStateChanged("connected"): only a space that never hydrated closes its *)
(* gate. The transport then asks for everything (sinceHlc null).           *)
Reconnected(s) ==
  [s EXCEPT !.hydrating = @ \/ ~s.once, !.err = @ /\ s.once]
Connect ==
  /\ ~link.up /\ Turn
  /\ link' = [up |-> TRUE, asked |-> TRUE, frames |-> <<>>, got |-> NoVersions, dropped |-> {}]
  /\ space' = Reconnected(space)
  /\ gate' = IF ~space.once /\ ~space.hydrating THEN "closed" ELSE gate
  /\ UNCHANGED peers

HubHydrates ==
  /\ link.up /\ link.asked
  /\ link' = [link EXCEPT !.asked = FALSE,
                !.frames = @ \o (IF peers.hub = NoVersions THEN <<>> ELSE <<Records(peers.hub)>>) \o <<HydrateDone>>]
  /\ UNCHANGED <<space, gate, peers>>

(* onStateChanged("offline"): a returning device may browse what it has.   *)
Offline ==
  /\ link' = [link EXCEPT !.up = FALSE, !.asked = FALSE, !.frames = <<>>]
  /\ space' = [space EXCEPT !.hydrating = @ /\ ~space.once]
  /\ gate' = IF space.hydrating /\ space.once THEN "open" ELSE gate

Disconnect ==
  /\ link.up /\ Turn /\ Upset
  /\ Offline

----------------------------------------------------------------------------
(* onRecords and onHydrated.                                               *)

(* After the first hydration a record goes to the live queue, unless the   *)
(* engine already holds it or something newer.                             *)
(* Mutant: one watermark for the whole space.                              *)
CandidatesWatermark(r) == {c \in Cookies : \A d \in Cookies : r[c] > space.recs[d]}
Candidates(r) == {c \in Cookies : r[c] > space.recs[c]}
TakeLive(r) ==
  LET new == Only(r, Candidates(r))
  IN  /\ space' = IF new = NoVersions THEN space
                  ELSE [space EXCEPT !.queue = Append(@, [kind |-> "live", recs |-> new, epoch |-> 0])]
      /\ UNCHANGED gate

(* Before it, the gate closes at once and opens when the newest frame has  *)
(* been applied.                                                           *)
TakeFirst(r) ==
  /\ space' = [space EXCEPT !.epoch = @ + 1,
                 !.queue = Append(@, [kind |-> "apply", recs |-> r, epoch |-> space.epoch + 1])]
  /\ gate' = "closed"

FinishHydration ==
  space' = IF ~space.hydrating THEN space
           ELSE [space EXCEPT !.finishing =
                   Append(@, [step |-> "queue", wait |-> Len(space.queue), due |-> link.got])]

Deliver ==
  /\ link.up /\ Turn /\ link.frames # <<>>
  /\ LET f == Head(link.frames) IN
       /\ link' = [link EXCEPT !.frames = Tail(@), !.got = NewestOf(@, f.recs)]
       /\ \/ f.t = "records" /\ space.once /\ TakeLive(f.recs)
          \/ f.t = "records" /\ ~space.once /\ TakeFirst(f.recs)
          \/ f.t = "done" /\ FinishHydration /\ UNCHANGED gate
  /\ UNCHANGED peers

----------------------------------------------------------------------------
(* recordQueue: its head runs to the end before the next one starts.       *)

Applied(s, r) == [s EXCEPT !.recs = NewestOf(@, r), !.jar = @ \union {c \in Cookies : r[c] > s.recs[c]}]
OneLess(f) == [f EXCEPT !.wait = IF @ > 0 THEN @ - 1 ELSE 0]
Popped(s) == [s EXCEPT !.queue = Tail(@), !.finishing = [i \in DOMAIN @ |-> OneLess(@[i])]]
(* Mutant: any frame of the hydration opens the gate.                      *)
GateAfterAny(job) == IF ~space.hydrating THEN "open" ELSE gate
GateAfter(job) == IF ~space.hydrating /\ space.epoch = job.epoch THEN "open" ELSE gate

Refused(r) ==
  /\ Upset
  /\ link' = [link EXCEPT !.dropped = @ \union {c \in Cookies : r[c] > space.recs[c]}]

RunApply ==
  /\ Turn /\ space.queue # <<>>
  /\ LET job == Head(space.queue) IN
       /\ job.kind = "apply"
       /\ gate' = GateAfter(job)
       /\ \/ space' = Popped(Applied(space, job.recs)) /\ UNCHANGED <<link, peers>>
          \/ space' = [Popped(space) EXCEPT !.err = TRUE] /\ Refused(job.recs)

(* Staging keeps the newest version of a cookie; the rotating ones follow. *)
Staged(r) == NewestOf(space.staged, Only(r, Cookies \ space.live))
RunLive ==
  /\ Turn /\ space.queue # <<>>
  /\ LET job == Head(space.queue)
         now == Only(job.recs, space.live)
     IN  /\ job.kind = "live"
         /\ space' = IF now = NoVersions THEN [Popped(space) EXCEPT !.staged = Staged(job.recs)]
                     ELSE [space EXCEPT !.staged = Staged(job.recs),
                             !.queue[1] = [@ EXCEPT !.kind = "liveApply", !.recs = now]]
  /\ UNCHANGED <<gate, link, peers>>

(* A staged copy that the applied record supersedes is forgotten.          *)
Unstaged(staged, r) == [c \in Cookies |-> IF staged[c] <= r[c] THEN 0 ELSE staged[c]]
RunLiveApply ==
  /\ Turn /\ space.queue # <<>>
  /\ LET job == Head(space.queue) IN
       /\ job.kind = "liveApply"
       /\ \/ space' = [Popped(Applied(space, job.recs)) EXCEPT !.staged = Unstaged(@, job.recs)]
             /\ UNCHANGED <<link, peers>>
          \/ space' = Popped(space) /\ Refused(job.recs)
  /\ UNCHANGED gate

----------------------------------------------------------------------------
(* finishHydration, after its queue: a refused write keeps the gate closed *)
(* and schedules a new dial; otherwise the browser's own cookies are seeded *)
(* into the engine, and the gate opens.                                    *)

Without(s, i) == [s EXCEPT !.finishing = RemoveAt(@, i)]

(* Mutant: the partial hydrate is not looked for.                          *)
FinishQueueBlind(i) ==
  /\ Ready(space.finishing[i])
  /\ space' = IF ~space.hydrating THEN Without(space, i)
              ELSE [space EXCEPT !.finishing[i].step = "seed", !.hydrating = FALSE]
  /\ UNCHANGED <<gate, link, peers>>
FinishQueue(i) ==
  /\ Ready(space.finishing[i])
  /\ space' = IF ~space.hydrating THEN Without(space, i)
              ELSE IF space.err THEN [Without(space, i) EXCEPT !.retry = TRUE]
              ELSE [space EXCEPT !.finishing[i].step = "seed", !.hydrating = FALSE]
  /\ UNCHANGED <<gate, link, peers>>

(* seedExistingCookies: what the browser has and the engine has no record  *)
(* of is written by a version of our own.                                  *)
Fresh == {c \in space.jar : space.recs[c] = 0}
Seeded(s) == [s EXCEPT !.recs = [c \in Cookies |-> IF c \in Fresh THEN peers.ver + 1 ELSE @[c]]]
CountSeeds == peers' = [peers EXCEPT !.ver = IF Fresh = {} THEN @ ELSE @ + 1]

FinishSeed(i) ==
  /\ Turn /\ space.finishing[i].step = "seed"
  /\ space' = [Without(Seeded(space), i) EXCEPT !.once = TRUE]
  /\ CountSeeds
  /\ gate' = "open"
  /\ UNCHANGED link

(* Mutant: the timer fires and does not redial.                            *)
RetryTimerIdle ==
  /\ Turn /\ space.retry
  /\ space' = [space EXCEPT !.retry = FALSE]
  /\ UNCHANGED <<gate, link, peers>>
RetryTimer ==
  /\ Turn /\ space.retry
  /\ IF ~space.once /\ space.hydrating
     THEN /\ link' = [link EXCEPT !.up = FALSE, !.asked = FALSE, !.frames = <<>>]
          /\ space' = [space EXCEPT !.retry = FALSE]
     ELSE space' = [space EXCEPT !.retry = FALSE] /\ UNCHANGED link
  /\ UNCHANGED <<gate, peers>>

(* setOriginOverride: "never" for a rotating origin, or back to "sync",    *)
(* which seeds what the browser already has.                               *)
NeverSync(c) ==
  /\ Turn /\ c \in space.live /\ Upset
  /\ space' = [space EXCEPT !.live = @ \ {c}]
  /\ UNCHANGED <<gate, link>>

SyncAgain(c) ==
  /\ Turn /\ c \in Rotating \ space.live
  /\ IF space.hydrating THEN space' = [space EXCEPT !.live = @ \union {c}] /\ UNCHANGED peers
     ELSE space' = [Seeded(space) EXCEPT !.live = @ \union {c}] /\ CountSeeds
  /\ UNCHANGED <<gate, link>>

----------------------------------------------------------------------------
(* The Sync control.                                                       *)

(* applyPendingSessions: the staged records are read, applied, and then all *)
(* staged records are cleared, also one that was staged in between.        *)
PullStart ==
  /\ Turn /\ space.sync = Idle /\ space.staged # NoVersions
  /\ space' = [space EXCEPT !.sync = [Idle EXCEPT !.step = "pull", !.recs = space.staged]]
  /\ gate' = "closed"
  /\ UNCHANGED <<link, peers>>

Cleared(kept) == {c \in Cookies : space.staged[c] > Max({kept[c], space.recs[c]})}
PullEnd ==
  /\ Turn /\ space.sync.step = "pull"
  /\ gate' = "open"
  /\ \/ /\ space' = [Applied(space, space.sync.recs) EXCEPT !.staged = NoVersions, !.sync = Idle]
        /\ link' = [link EXCEPT !.dropped = @ \union Cleared(space.sync.recs)]
        /\ UNCHANGED peers
     \/ /\ Upset
        /\ space' = [space EXCEPT !.sync = Idle]
        /\ UNCHANGED link

(* pushLocalSessionState: the jar is read; each staged record whose cookie *)
(* the jar lacks is deleted by a version of our own; then the staged ones  *)
(* are cleared and the jar's cookies written over whatever was there.      *)
PushStart ==
  /\ Turn /\ space.sync = Idle /\ Upset
  /\ space' = [space EXCEPT !.sync = [Idle EXCEPT !.step = "push", !.local = space.jar]]
  /\ UNCHANGED <<gate, link>>

PushVisit(c) ==
  /\ Turn /\ space.sync.step = "push" /\ space.staged[c] > 0 /\ c \notin space.sync.seen
  /\ IF c \in space.sync.local
     THEN space' = [space EXCEPT !.sync.seen = @ \union {c}] /\ UNCHANGED peers
     ELSE /\ peers' = [peers EXCEPT !.ver = @ + 1]
          /\ space' = [space EXCEPT !.sync.seen = @ \union {c}, !.recs[c] = peers.ver + 1]
  /\ UNCHANGED <<gate, link>>

PushEnd ==
  /\ Turn /\ space.sync.step = "push"
  /\ \A c \in Cookies : space.staged[c] > 0 => c \in space.sync.seen
  /\ peers' = [peers EXCEPT !.ver = @ + 1]
  /\ LET wrote == [c \in Cookies |-> IF c \in space.jar THEN peers.ver + 1 ELSE space.recs[c]] IN
       /\ space' = [space EXCEPT !.recs = wrote, !.staged = NoVersions, !.sync = Idle]
       /\ link' = [link EXCEPT !.dropped = @ \union Cleared(wrote)]
  /\ UNCHANGED gate

----------------------------------------------------------------------------
QueueStep == RunApply \/ RunLive \/ RunLiveApply
FinishStep == \E i \in DOMAIN space.finishing : FinishQueue(i) \/ FinishSeed(i)
PushStep == \/ \E c \in Cookies : PushVisit(c)
            \/ PushEnd

GateNext ==
  \/ \E c \in Cookies : PeerWrites(c)
  \/ Connect \/ HubHydrates \/ Disconnect \/ Deliver \/ RetryTimer
  \/ QueueStep \/ FinishStep
  \/ \E c \in Rotating : NeverSync(c) \/ SyncAgain(c)
  \/ PullStart \/ PullEnd \/ PushStart \/ PushStep

(* The event loop keeps turning, the transport redials, the hub answers:   *)
(* only drops, refusals and the user's clicks are at nobody's promise.     *)
GateFairness ==
  /\ WF_gateVars(Connect) /\ WF_gateVars(HubHydrates) /\ WF_gateVars(Deliver)
  /\ WF_gateVars(QueueStep) /\ WF_gateVars(FinishStep) /\ WF_gateVars(RetryTimer)
  /\ WF_gateVars(PullEnd)

GateSpec == GateInit /\ [][GateNext]_gateVars /\ GateFairness

----------------------------------------------------------------------------
Queued(c) == {space.queue[i].recs[c] : i \in DOMAIN space.queue}
InHand(c) == Queued(c) \union {space.recs[c], space.staged[c], space.sync.recs[c]}

(* A record delivered on this connection is applied, staged, or queued for *)
(* one of the two, unless the cookie store refused it or the clearing at   *)
(* the end of a Pull or Push swept it away: a staged copy never loses to an *)
(* older one, and a live rotation removes no newer copy.                   *)
ReceivedIsKept ==
  \A c \in Cookies : link.got[c] > Max(InHand(c)) => c \in link.dropped

(* Before the first hydration is through, tabs load only when no record    *)
(* that has arrived still waits to be written: the newest frame opens the  *)
(* gate, an older one never does.                                          *)
GateMeansApplied ==
  gate = "open" /\ ~space.once =>
    /\ ~space.hydrating
    /\ \A i \in DOMAIN space.queue : space.queue[i].kind # "apply"

(* finishHydration declares a space hydrated only when everything the hub  *)
(* had sent before its hydrate.done has reached the cookie store, however  *)
(* many connections, refused writes and overlapping hydrations there were. *)
OnceMeansComplete ==
  [][\A i \in DOMAIN space.finishing :
       (~space.once /\ space'.once /\ space'.finishing = RemoveAt(space.finishing, i)
          /\ space.finishing[i].step = "seed") =>
         \A c \in Cookies : space.finishing[i].due[c] <= space'.recs[c]]_gateVars

(* A space whose gate is closed opens it again: a refused write, a drop or *)
(* an overlapping hydration never shuts the tabs out for good.             *)
GateReopens == (gate = "closed") ~> (gate = "open")

============================================================================
