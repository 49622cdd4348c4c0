--------------------------- MODULE WorkspaceSync ---------------------------
(* The workspace of an account on its devices (WorkspaceSyncService over   *)
(* WorkspaceStore) and on the hub: metadata that always converges, the      *)
(* canonical tab graph that changes by explicit Push and Merge only, and    *)
(* one restore point per device that its peers may Pull or Merge.           *)
(*                                                                          *)
(* One register stands for a tab's presence, URL and order, which every     *)
(* operation here moves together. An HLC is <<number, device>>; the drift   *)
(* bound is HlcClocks' subject. Sealing shows as a write that may fail.     *)
EXTENDS Naturals, Sequences, FiniteSets, FiniteSetsExt

CONSTANTS Devices,        \* numbers, for the order of HLCs
          Fresh,          \* the ones that have never been linked
          Tabs, Globals,  \* keys of the attachment, and of the metadata
          Docs,           \* live values of a register
          MaxEdits, MaxSyncs, MaxDrops, MaxRestarts, MaxSealFailures,  \* bounds,
          MaxEvents       \* and one on all of these together

ASSUME WsAssumption == /\ Devices \subseteq Nat \ {0} /\ Fresh \subseteq Devices
                       /\ IsFiniteSet(Devices) /\ IsFiniteSet(Tabs \union Globals)
                       /\ Tabs \intersect Globals = {} /\ Docs \intersect {"absent", "gone"} = {}
                       /\ {MaxEdits, MaxSyncs, MaxDrops, MaxRestarts, MaxSealFailures, MaxEvents} \subseteq Nat

VARIABLES ws,      \* each device: its store and its sync service
          hubws,   \* the hub's documents and restore points
          wire,    \* each device's socket, and what it has published on it
          spent    \* how much of each bound is used up

wsVars == <<ws, hubws, wire, spent>>

Keys == Tabs \union Globals
NoHlc == <<0, 0>>
Later(h, k) == h[1] > k[1] \/ (h[1] = k[1] /\ h[2] > k[2])
NoReg == [doc |-> "absent", hlc |-> NoHlc]
Live(r) == r.doc \notin {"absent", "gone"}
NoRegs == [k \in Keys |-> NoReg]
NoTabs == [t \in Tabs |-> NoReg]
NoSnap == [regs |-> NoTabs, hlc |-> NoHlc]
NoSnaps == [d \in Devices |-> NoSnap]

Reg == [doc : Docs \union {"absent", "gone"}, hlc : Nat \X (Devices \union {0})]
Snap == [regs : [Tabs -> Reg], hlc : Nat \X (Devices \union {0})]
Bundle == [regs : [Keys -> Reg], snaps : [Devices -> Snap]]

AttachmentRegisters(regs) == [t \in Tabs |-> regs[t]]
(* attachmentFingerprint: what is visible, without the HLCs.               *)
Content(tabs) == [t \in Tabs |-> IF Live(tabs[t]) THEN tabs[t].doc ELSE "gone"]

(* What workspaceQueue runs one after the other, with the hub's frames      *)
(* still under way behind it. A task that waits for the session fence keeps *)
(* what it has computed.                                                    *)
Task == [t : {"docs"}, docs : Bundle] \union [t : {"hydrated", "bootFence"}]
        \union [t : {"sync"}, mode : {"pull", "push", "merge"}, from : Devices \union {0}]
        \union [t : {"syncFence"}, mode : {"push", "merge"}, target : [Tabs -> Reg], keys : SUBSET Tabs]

WsTypeOK ==
  /\ ws \in [Devices -> [store : [Keys -> Reg], clock : Nat, dirty : SUBSET Keys, snapDirty : BOOLEAN,
                         timer : BOOLEAN, ready : BOOLEAN, seen : BOOLEAN, remote : [Tabs -> Reg],
                         snaps : [Devices -> Snap], inherit : BOOLEAN, initialized : BOOLEAN, queue : Seq(Task)]]
  /\ hubws \in Bundle
  /\ wire \in [Devices -> [up : BOOLEAN, out : Seq(Bundle)]]
  /\ spent \in [edits : Nat, syncs : Nat, drops : Nat, restarts : Nat, seals : Nat]

Down == [up |-> FALSE, out |-> <<>>]
(* A linked device starts connected and hydrated, in an empty account.     *)
WsInit ==
  /\ ws = [d \in Devices |-> [store |-> NoRegs, clock |-> 0, dirty |-> {}, snapDirty |-> FALSE, timer |-> FALSE,
                              ready |-> d \notin Fresh, seen |-> FALSE, remote |-> NoTabs, snaps |-> NoSnaps,
                              inherit |-> d \in Fresh, initialized |-> d \notin Fresh, queue |-> <<>>]]
  /\ hubws = [regs |-> NoRegs, snaps |-> NoSnaps]
  /\ wire = [d \in Devices |-> IF d \in Fresh THEN Down ELSE [up |-> TRUE, out |-> <<>>]]
  /\ spent = [edits |-> 0, syncs |-> 0, drops |-> 0, restarts |-> 0, seals |-> 0]

Spend(f) ==
  /\ spent.edits + spent.syncs + spent.drops + spent.restarts + spent.seals < MaxEvents
  /\ spent' = [spent EXCEPT ![f] = @ + 1]

----------------------------------------------------------------------------
(* The store.                                                              *)

(* Registers stamped in one batch share a number: stamps are compared per  *)
(* key only.                                                               *)
Stamp(s, d) == <<s.clock + 1, d>>

(* onDocsChanged: an edit of a tab makes the restore point stale, an edit  *)
(* of the metadata is to be published.                                     *)
Notified(s, keys) ==
  [s EXCEPT !.snapDirty = @ \/ keys \cap Tabs # {}, !.dirty = @ \union (keys \cap Globals),
            !.timer = @ \/ keys # {}]

RecordDoc(s, d, k, doc) ==
  Notified([s EXCEPT !.store[k] = [doc |-> doc, hlc |-> Stamp(s, d)], !.clock = @ + 1], {k})

ReplaceAttachmentRegisters(s, tabs) ==
  [s EXCEPT !.store = [k \in Keys |-> IF k \in Tabs THEN tabs[k] ELSE @[k]]]

PublishAttachmentRegisters(s, d, keys) ==
  LET changed == {k \in keys : s.store[k] # NoReg} IN
  Notified([s EXCEPT !.clock = @ + 1,
                     !.store = [k \in Keys |-> IF k \in changed THEN [@[k] EXCEPT !.hlc = Stamp(s, d)] ELSE @[k]]],
           changed)

(* The user opens, navigates or closes a tab, or changes a setting.        *)
Edit(d, k, doc) ==
  /\ spent.edits < MaxEdits /\ Spend("edits")
  /\ ws[d].store[k].doc # doc
  /\ doc = "gone" => Live(ws[d].store[k])
  /\ ws' = [ws EXCEPT ![d] = RecordDoc(@, d, k, doc)]
  /\ UNCHANGED <<hubws, wire>>

----------------------------------------------------------------------------
(* Publishing.                                                             *)

(* flush: the dirty registers as they are now, and the restore point once  *)
(* the remote state is known. Nothing leaves an offline transport.         *)
TakesSnap(s) == s.ready /\ s.snapDirty
FlushedBundle(s, d) ==
  [regs |-> [k \in Keys |-> IF k \in s.dirty THEN s.store[k] ELSE NoReg],
   snaps |-> [NoSnaps EXCEPT ![d] = IF TakesSnap(s) THEN [regs |-> AttachmentRegisters(s.store), hlc |-> Stamp(s, d)]
                                    ELSE NoSnap]]
Flushed(s) ==
  [s EXCEPT !.dirty = {}, !.snapDirty = @ /\ ~TakesSnap(s), !.clock = IF TakesSnap(s) THEN @ + 1 ELSE @]
Outgoing(s, d) ==
  IF wire[d].up /\ FlushedBundle(s, d) # [regs |-> NoRegs, snaps |-> NoSnaps]
  THEN [wire EXCEPT ![d].out = Append(@, FlushedBundle(s, d))]
  ELSE wire
(* A failed seal puts everything back and tries again later.               *)
(* Mutant: a failed seal is never tried again.                             *)
SealFailedIdle(s) == s
SealFailed(s) == [s EXCEPT !.timer = TRUE]

PublishTimer(d) ==
  /\ ws[d].timer
  /\ LET s == [ws[d] EXCEPT !.timer = FALSE] IN
       \/ /\ ws' = [ws EXCEPT ![d] = Flushed(s)]
          /\ wire' = Outgoing(s, d)
          /\ UNCHANGED spent
       \/ /\ spent.seals < MaxSealFailures /\ Spend("seals")
          /\ ws' = [ws EXCEPT ![d] = SealFailed(s)]
          /\ UNCHANGED wire
  /\ UNCHANGED hubws

----------------------------------------------------------------------------
(* workspaceQueue: remote documents, hydration, and the user's syncs.      *)

Busy(d, t) == ws[d].queue # <<>> /\ Head(ws[d].queue).t = t
Done(s) == [s EXCEPT !.queue = Tail(@)]
HeadBecomes(s, task) == [s EXCEPT !.queue = <<task>> \o Tail(@)]

(* decideMerge: an unknown key applies, a later HLC wins.                  *)
Wins(r, current) == r # NoReg /\ (current = NoReg \/ Later(r.hlc, current.hlc))
Merged(local, incoming) == [k \in DOMAIN local |-> IF Wins(incoming[k], local[k]) THEN incoming[k] ELSE local[k]]
NewerSnaps(mine, incoming) ==
  [d \in Devices |-> IF Later(incoming[d].hlc, mine[d].hlc) THEN incoming[d] ELSE mine[d]]
Numbers(docs) == {docs.regs[k].hlc[1] : k \in Keys} \union {docs.snaps[d].hlc[1] : d \in Devices}

(* handleRemoteDocs: tabs go to the remembered canonical graph, metadata   *)
(* of other devices into the store, under its own HLC and unannounced.     *)
HandleRemoteDocs(s, d, docs) ==
  LET foreign == [k \in Keys |-> IF k \in Globals /\ docs.regs[k].hlc[2] # d THEN docs.regs[k] ELSE NoReg]
  IN  [s EXCEPT !.clock = Max({@} \union Numbers(docs)),
                !.seen = @ \/ \E t \in Tabs : docs.regs[t] # NoReg,
                !.remote = Merged(@, AttachmentRegisters(docs.regs)),
                !.snaps = NewerSnaps(@, docs.snaps),
                !.store = Merged(@, foreign)]
RunDocs(d) ==
  /\ Busy(d, "docs")
  /\ ws' = [ws EXCEPT ![d] = Done(HandleRemoteDocs(@, d, Head(@.queue).docs))]
  /\ UNCHANGED <<hubws, wire, spent>>

(* initialRemoteSnapshot: the canonical graph, or else the newest restore  *)
(* point of another device.                                                *)
Others(s, d) == {e \in Devices \ {d} : s.snaps[e] # NoSnap}
Source(s, d) ==
  IF s.seen THEN {s.remote}
  ELSE {s.snaps[e].regs : e \in {e \in Others(s, d) : \A f \in Others(s, d) : ~Later(s.snaps[f].hlc, s.snaps[e].hlc)}}
Inherited(s, d) ==
  IF s.inherit /\ Source(s, d) # {} THEN ReplaceAttachmentRegisters(s, CHOOSE r \in Source(s, d) : TRUE) ELSE s

(* The end of handleHydrated: the whole metadata and the restore point are *)
(* to be published again.                                                  *)
(* Mutant: only the restore point is published again.                      *)
HydratedSnapOnly(s) ==
  Done([s EXCEPT !.inherit = FALSE, !.initialized = TRUE, !.snapDirty = TRUE, !.timer = TRUE])
Hydrated(s) ==
  Done([s EXCEPT !.inherit = FALSE, !.initialized = TRUE, !.snapDirty = TRUE, !.timer = TRUE,
                 !.dirty = @ \union {k \in Globals : s.store[k] # NoReg}])

RunHydrated(d) ==
  /\ Busy(d, "hydrated")
  /\ LET s == Inherited([ws[d] EXCEPT !.ready = TRUE], d)
         boot == s.inherit /\ ~s.seen /\ \E t \in Tabs : s.store[t] # NoReg
     IN  ws' = [ws EXCEPT ![d] = IF boot THEN HeadBecomes(s, [t |-> "bootFence"]) ELSE Hydrated(s)]
  /\ UNCHANGED <<hubws, wire, spent>>

(* bootstrapCanonical, once the fence has answered.                        *)
BootFence(d, opened) ==
  /\ Busy(d, "bootFence") /\ (opened => wire[d].up)
  /\ LET s == ws[d]
         keys == {t \in Tabs : s.store[t] # NoReg}
         stamped == PublishAttachmentRegisters(s, d, keys)
         ready == [stamped EXCEPT !.remote = AttachmentRegisters(stamped.store), !.seen = TRUE, !.dirty = @ \union keys]
     IN  IF opened
         THEN ws' = [ws EXCEPT ![d] = Hydrated(Flushed(ready))] /\ wire' = Outgoing(ready, d)
         ELSE ws' = [ws EXCEPT ![d] = Hydrated(s)] /\ UNCHANGED wire
  /\ UNCHANGED <<hubws, spent>>

(* synchronize, offered once the remote state is known, is queued behind *)
(* what has arrived. `from' is 0 for the      *)
(* canonical graph, or the device whose restore point is taken.            *)
AskSync(d, mode, from) ==
  /\ spent.syncs < MaxSyncs /\ Spend("syncs")
  /\ ws[d].ready /\ from # d /\ (mode = "push" => from = 0)
  /\ ws' = [ws EXCEPT ![d].queue = Append(@, [t |-> "sync", mode |-> mode, from |-> from])]
  /\ UNCHANGED <<hubws, wire>>

(* mergeAttachmentRegisters: the remote graph and the tabs only we have.   *)
LocalOnly(local, remote) == {t \in Tabs : Live(local[t]) /\ ~Live(remote[t])}
Target(mode, local, remote) ==
  CASE mode = "pull" -> remote
    [] mode = "push" -> [t \in Tabs |-> IF local[t] = NoReg /\ remote[t] # NoReg
                                        THEN [remote[t] EXCEPT !.doc = "gone"] ELSE local[t]]
    [] mode = "merge" -> [t \in Tabs |-> IF t \in LocalOnly(local, remote) THEN local[t] ELSE remote[t]]
PublishKeys(mode, local, remote) ==
  CASE mode = "pull" -> {}
    [] mode = "push" -> {t \in Tabs : local[t] # NoReg \/ remote[t] # NoReg}
    [] mode = "merge" -> LocalOnly(local, remote)

(* The local graph is replaced by the target; the remembered canonical one *)
(* follows before the published registers get their new stamps.            *)
Installed(s, mode, target) == [ReplaceAttachmentRegisters(s, target) EXCEPT !.remote = IF mode = "pull" THEN @ ELSE target]
(* Mutant: the tabs a sync installs do not reach the restore point.        *)
FinishedSilently(s) == Done(s)
Finished(s) == Done([s EXCEPT !.snapDirty = TRUE, !.timer = TRUE])

RunSync(d) ==
  /\ Busy(d, "sync")
  /\ LET s == ws[d]
         op == Head(s.queue)
         local == AttachmentRegisters(s.store)
         remote == IF op.from = 0 THEN s.remote ELSE s.snaps[op.from].regs
         target == Target(op.mode, local, remote)
         keys == PublishKeys(op.mode, local, remote)
     IN  ws' = [ws EXCEPT ![d] =
           CASE ~s.ready \/ (op.from # 0 /\ s.snaps[op.from] = NoSnap) -> Done(s)
             [] s.ready /\ op.from = 0 /\ keys # {} ->
                  HeadBecomes(s, [t |-> "syncFence", mode |-> op.mode, target |-> target, keys |-> keys])
             [] s.ready /\ op.from = 0 /\ keys = {} -> Finished(Installed(s, op.mode, target))
             [] OTHER -> Finished(ReplaceAttachmentRegisters(s, target))]
  /\ UNCHANGED <<hubws, wire, spent>>

SyncFence(d, opened) ==
  /\ Busy(d, "syncFence") /\ (opened => wire[d].up)
  /\ LET op == Head(ws[d].queue)
         stamped == PublishAttachmentRegisters(Installed(ws[d], op.mode, op.target), d, op.keys)
         s == [stamped EXCEPT !.dirty = @ \union op.keys]
     IN  \/ ~opened /\ ws' = [ws EXCEPT ![d] = Done(@)] /\ UNCHANGED <<wire, spent>>
         \/ opened /\ ws' = [ws EXCEPT ![d] = Finished(Flushed(s))] /\ wire' = Outgoing(s, d) /\ UNCHANGED spent
         \/ /\ opened /\ spent.seals < MaxSealFailures /\ Spend("seals")
            /\ ws' = [ws EXCEPT ![d] = Done(SealFailed(s))] /\ UNCHANGED wire
  /\ UNCHANGED hubws

----------------------------------------------------------------------------
(* The hub and the sockets.                                                *)

(* handleWorkspacePublish: strictly later documents win, and go to the     *)
(* other sockets.                                                          *)
Winners(docs) ==
  [regs |-> [k \in Keys |-> IF Wins(docs.regs[k], hubws.regs[k]) THEN docs.regs[k] ELSE NoReg],
   snaps |-> [d \in Devices |-> IF Later(docs.snaps[d].hlc, hubws.snaps[d].hlc) THEN docs.snaps[d] ELSE NoSnap]]
Nothing == [regs |-> NoRegs, snaps |-> NoSnaps]

HubPublish(d) ==
  /\ wire[d].out # <<>>
  /\ LET won == Winners(Head(wire[d].out)) IN
       /\ hubws' = [regs |-> Merged(hubws.regs, won.regs), snaps |-> NewerSnaps(hubws.snaps, won.snaps)]
       /\ ws' = [e \in Devices |->
                   IF e # d /\ wire[e].up /\ won # Nothing
                   THEN [ws[e] EXCEPT !.queue = Append(@, [t |-> "docs", docs |-> won])] ELSE ws[e]]
  /\ wire' = [wire EXCEPT ![d].out = Tail(@)]
  /\ UNCHANGED spent

(* A new socket says hello, asks for everything (sinceHlc null), and gets  *)
(* the documents and workspace.hydrate.done.                               *)
WsConnect(d) ==
  /\ ~wire[d].up
  /\ wire' = [wire EXCEPT ![d].up = TRUE]
  /\ ws' = [ws EXCEPT ![d].queue = @ \o (IF hubws = Nothing THEN <<>> ELSE <<[t |-> "docs", docs |-> hubws]>>)
                                     \o <<[t |-> "hydrated"]>>]
  /\ UNCHANGED <<hubws, spent>>

(* The socket takes the frames still under way with it: all but the first  *)
(* n in the queue; what the user asked for stays, in its order.            *)
Stays(q, n) == {i \in DOMAIN q : i <= n \/ q[i].t \notin {"docs", "hydrated"}}
InOrder(S) == {f \in [1..Cardinality(S) -> S] : \A i, j \in DOMAIN f : i < j => f[i] < f[j]}
WsDrop(d) ==
  /\ wire[d].up /\ spent.drops < MaxDrops /\ Spend("drops")
  /\ wire' = [wire EXCEPT ![d] = Down]
  /\ \E n \in 0..Len(ws[d].queue) : \E f \in InOrder(Stays(ws[d].queue, n)) :
       ws' = [ws EXCEPT ![d].queue = [i \in DOMAIN f |-> @[f[i]]]]
  /\ UNCHANGED hubws

(* The store and its marker are on disk; everything else starts over.      *)
(* Mutant: the one-time marker is not read back.                           *)
RebornFresh(s) ==
  [s EXCEPT !.dirty = {}, !.snapDirty = FALSE, !.timer = FALSE, !.ready = FALSE, !.seen = FALSE,
            !.remote = NoTabs, !.snaps = NoSnaps, !.inherit = TRUE, !.queue = <<>>]
Reborn(s) ==
  [s EXCEPT !.dirty = {}, !.snapDirty = FALSE, !.timer = FALSE, !.ready = FALSE, !.seen = FALSE,
            !.remote = NoTabs, !.snaps = NoSnaps, !.inherit = ~s.initialized, !.queue = <<>>]
Relaunch(d) ==
  /\ spent.restarts < MaxRestarts /\ Spend("restarts")
  /\ ws' = [ws EXCEPT ![d] = Reborn(@)]
  /\ wire' = [wire EXCEPT ![d] = Down]
  /\ UNCHANGED hubws

----------------------------------------------------------------------------
Runs(d) == RunDocs(d) \/ RunHydrated(d) \/ RunSync(d)
           \/ \E opened \in BOOLEAN : BootFence(d, opened) \/ SyncFence(d, opened)
User(d) == \/ \E k \in Keys, doc \in Docs \union {"gone"} : Edit(d, k, doc)
           \/ \E mode \in {"pull", "push", "merge"}, from \in Devices \union {0} : AskSync(d, mode, from)

WsNext == \E d \in Devices :
  \/ User(d) \/ PublishTimer(d) \/ Runs(d)
  \/ HubPublish(d) \/ WsConnect(d) \/ WsDrop(d) \/ Relaunch(d)

(* Timers fire, queues run, the transport redials and the hub answers.     *)
WsFairness == \A d \in Devices :
  /\ WF_wsVars(PublishTimer(d)) /\ WF_wsVars(Runs(d)) /\ WF_wsVars(HubPublish(d))
  /\ WF_wsVars(WsConnect(d))

WsSpec == WsInit /\ [][WsNext]_wsVars /\ WsFairness

----------------------------------------------------------------------------
Quiet(d) == /\ wire[d].up /\ wire[d].out = <<>>
            /\ ws[d].ready /\ ws[d].queue = <<>> /\ ~ws[d].timer /\ ws[d].dirty = {} /\ ~ws[d].snapDirty
AllQuiet == \A d \in Devices : Quiet(d)

(* Once everything has been handled, every device and the hub hold the same *)
(* metadata: a publish lost with its socket or with the process is made up *)
(* for by the republication after the next hydration.                      *)
GlobalsAgree ==
  AllQuiet => \A d \in Devices, k \in Globals : ws[d].store[k] = hubws.regs[k]

(* Once everything has been handled, each peer could pull exactly the tabs *)
(* a device has open now: no edit, pull, inheritance, drop or restart      *)
(* leaves an old restore point behind.                                     *)
RestorePointCurrent ==
  AllQuiet => \A d, e \in Devices : d # e => Content(ws[e].snaps[d].regs) = Content(ws[d].store)

(* On a device that has been through its first hydration, the tabs change  *)
(* by the user's hand alone: no frame, reconnect or restart touches them.  *)
LocalTabsAreOurs ==
  [][\A d \in Devices :
       ws[d].initialized /\ Content(ws'[d].store) # Content(ws[d].store) =>
         spent'.edits > spent.edits \/ Busy(d, "sync") \/ Busy(d, "syncFence")]_wsVars

(* Without new edits the account comes to rest: nothing is published for   *)
(* ever between devices that echo each other.                              *)
WsSettles == <>[]AllQuiet
============================================================================
