----------------------------- MODULE SyncEngine -----------------------------
(***************************************************************************)
(* Conflict resolution of packages/sync-engine/src/engine.ts for ONE       *)
(* cookie (the engine keeps five maps keyed by record id; a cell is their  *)
(* slice for one of them).  All operators are pure.                        *)
(*                                                                         *)
(* A version token is makeVersionToken(recordId, hlc): within one cookie   *)
(* the timestamp itself.  Sealing, signing and the cookie's value are left *)
(* out: a wire is known by its timestamp.                                  *)
(***************************************************************************)
EXTENDS Hlc, FiniteSets

CONSTANTS MaxAncestryEdges,     \* MAX_ANCESTRY_EDGES
          MaxAncestryWalk       \* MAX_ANCESTRY_WALK

ASSUME AncestryAssumption == /\ MaxAncestryEdges \in Nat \ {0}
                             /\ MaxAncestryWalk  \in Nat \ {0}

WriteCauses    == {"WRITE", "OVERWRITE"}
DeletionCauses == {"EXPLICIT_DELETE", "EXPIRED", "EVICTED"}
Causes         == WriteCauses \union DeletionCauses

(* "No timestamp": the null causal parent, an absent fence.                *)
NoHlc == [phys |-> -1, logi |-> 0, dev |-> 0]

(* past is not on the wire: it records which explicit deletions the writer *)
(* knew of, so that the properties can speak of causal history.            *)
WireType == [hlc : HlcType, parent : HlcType \union {NoHlc}, cause : Causes,
             past : SUBSET HlcType]
NoWire   == [hlc |-> NoHlc, parent |-> NoHlc, cause |-> "WRITE", past |-> {}]

EdgeType == [token : HlcType, parent : HlcType \union {NoHlc}]

CellType == [rec    : WireType \union {NoWire},     \* records
             fence  : HlcType \union {NoHlc},       \* fences
             tomb   : WireType \union {NoWire},     \* latestTombstones
             edges  : SUBSET EdgeType,              \* ancestry
             parked : WireType \union {NoWire},     \* parked
             at     : Nat]                          \* tombstonedAtMs

EmptyCell == [rec |-> NoWire, fence |-> NoHlc, tomb |-> NoWire,
              edges |-> {}, parked |-> NoWire, at |-> 0]

IsDeletion(w) == w.cause \in DeletionCauses
Live(w)       == w # NoWire /\ ~IsDeletion(w)

(* The later of two wires, NoWire counting as earlier than any.            *)
Later(a, b) == IF Before(a.hlc, b.hlc) THEN b ELSE a

----------------------------------------------------------------------------

(* causeForChange: what a Chromium change event means, "none" for null.    *)
CauseForChange(chromium, removed) ==
    IF ~removed
      THEN IF chromium = "overwrite" THEN "OVERWRITE" ELSE "WRITE"
    ELSE IF chromium = "overwrite" THEN "none"
    ELSE IF chromium \in {"expired", "expired-overwrite"} THEN "EXPIRED"
    ELSE IF chromium = "evicted" THEN "EVICTED"
    ELSE "EXPLICIT_DELETE"

(* noteAncestry: learn the edge of a version once, evict the oldest edge   *)
(* when there are too many.                                                *)
NoteAncestry(edges, w) ==
    LET all == edges \union {[token |-> w.hlc, parent |-> w.parent]}
    IN  IF \E e \in edges : e.token = w.hlc THEN edges
        ELSE IF Cardinality(all) <= MaxAncestryEdges THEN all
        ELSE {e \in all : \E f \in all : Before(f.token, e.token)}

(* noteFence: the newest explicit deletion seen.                           *)
NoteFence(fence, w) ==
    IF w.cause = "EXPLICIT_DELETE" /\ Before(fence, w.hlc) THEN w.hlc ELSE fence

(* noteTombstone: the newest deletion of any cause seen.                   *)
NoteTombstone(tomb, w) == IF IsDeletion(w) THEN Later(tomb, w) ELSE tomb

(* What every record teaches, whatever becomes of it.                      *)
Learn(c, w) == [c EXCEPT !.edges = NoteAncestry(@, w),
                         !.fence = NoteFence(@, w),
                         !.tomb  = NoteTombstone(@, w)]

(* park: the newest blocked write is kept.                                 *)
Park(c, w) == [c EXCEPT !.parked = Later(@, w)]

(* store, with the wall time of an accepted deletion.                      *)
Store(c, w, now) == [c EXCEPT !.rec = w,
                              !.at  = IF IsDeletion(w) THEN now ELSE 0]

----------------------------------------------------------------------------
(* The descent walk stops at the fence, at a null parent, below the        *)
(* fence's timestamp, and where an edge is missing.                        *)
WalkStops(edges, fence, t) ==
    \/ t = NoHlc \/ t = fence \/ Before(t, fence)
    \/ \A e \in edges : e.token # t

ParentIn(edges, t) == (CHOOSE e \in edges : e.token = t).parent

(* descent(...) = "descends".  The callers tell "predates" and "unknown"   *)
(* from "descends", never from each other.                                 *)
Descends(edges, start, fence) ==
    LET walk[k \in 0..(MaxAncestryWalk - 1)] ==
          IF k = 0 THEN start
          ELSE IF WalkStops(edges, fence, walk[k-1]) THEN walk[k-1]
          ELSE ParentIn(edges, walk[k-1])
    IN  fence # NoHlc /\ \E k \in 0..(MaxAncestryWalk - 1) : walk[k] = fence

(* Last-writer-wins against the current record.                            *)
LastWriterWins(c, w) ==
    IF c.rec = NoWire THEN "applied"
    ELSE IF w.hlc = c.rec.hlc THEN "duplicate"
    ELSE IF Before(c.rec.hlc, w.hlc) THEN "applied" ELSE "stale"

(* A write later than the newest explicit deletion and not proved to       *)
(* descend from it.                                                        *)
Blocked(c, w) == /\ w.cause \in WriteCauses
                 /\ c.fence # NoHlc
                 /\ Before(c.fence, w.hlc)
                 /\ ~Descends(c.edges, w.parent, c.fence)

(* An explicit deletion that arrives after a live write with a later       *)
(* timestamp still wins, unless it is superseded by a newer explicit       *)
(* deletion or that write descends from it.                                *)
LateDeletionWins(c, w) == /\ w.cause = "EXPLICIT_DELETE"
                          /\ Before(w.hlc, c.rec.hlc)
                          /\ ~IsDeletion(c.rec)
                          /\ c.fence = w.hlc
                          /\ ~Descends(c.edges, c.rec.hlc, w.hlc)

(* Mutant: plain last-writer-wins, the resurrection guard forgotten.       *)
ResolveLww(c, w) == LastWriterWins(c, w)

(* Mutant: a late explicit deletion is judged by its timestamp alone.      *)
ResolveNoLateDeletion(c, w) ==
    IF Blocked(c, w) THEN "blocked" ELSE LastWriterWins(c, w)

(* resolve *)
Resolve(c, w) ==
    IF Blocked(c, w) THEN "blocked"
    ELSE IF c.rec # NoWire /\ LateDeletionWins(c, w) THEN "applied"
    ELSE LastWriterWins(c, w)

(* The record an accepted one is stored as: tombstones are normalised to   *)
(* the newest deletion seen.                                               *)
Winner(c, w) == IF IsDeletion(w) THEN c.tomb ELSE w

(* Is the parked write no longer blocked?  (retryParked)                   *)
Unparks(c) == c.parked # NoWire /\ ~Blocked(c, c.parked)

(* gcTombstones on this cookie.                                            *)
Collectable(c, now, retention) ==
    c.rec # NoWire /\ IsDeletion(c.rec) /\ c.at < now - retention
============================================================================
