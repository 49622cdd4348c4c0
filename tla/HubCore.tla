------------------------------ MODULE HubCore ------------------------------
(***************************************************************************)
(* The decisions of services/sessionhub/src/hub-core.ts about one cookie   *)
(* of one origin, as pure operators.  The hub never opens a record: it     *)
(* reads its timestamp alone, so a stored version is a timestamp here.     *)
(***************************************************************************)
EXTENDS Hlc, FiniteSets, Sequences

CONSTANTS MaxRecordHistory,     \* MAX_RECORD_HISTORY
          MaxMutations,         \* MAX_MUTATIONS_PER_ORIGIN_PER_MINUTE
          RateWindow            \* RATE_WINDOW_MS

ASSUME HubAssumption == /\ MaxRecordHistory \in Nat \ {0}
                        /\ MaxMutations \in Nat \ {0}
                        /\ RateWindow \in Nat

(* Nothing stored yet; older than every timestamp.                         *)
NoVersion == [phys |-> -1, logi |-> 0, dev |-> 0]
NoLease   == [holder |-> 0, until |-> 0]

VersionType == HlcType \union {NoVersion}

(* rec:, hist: and wm: of the cookie.                                      *)
StoreType  == [rec : VersionType, hist : SUBSET HlcType, wm : VersionType]
EmptyStore == [rec |-> NoVersion, hist |-> {}, wm |-> NoVersion]

LaterOf(a, b) == IF Before(a, b) THEN b ELSE a

(* The newest version of a set, NoVersion if there is none.                *)
Newest(S) == IF S = {} THEN NoVersion
             ELSE CHOOSE h \in S : \A g \in S : AtMost(g, h)

(* appendHistory: keep the newest MaxRecordHistory versions.               *)
AppendHistory(hist, h) ==
    LET all == hist \union {h}
    IN  {g \in all : Cardinality({f \in all : Before(g, f)}) < MaxRecordHistory}

(* The store after accepting version h: record, history and watermark.     *)
AcceptVersion(store, h) ==
    [rec  |-> h,
     hist |-> AppendHistory(store.hist, h),
     wm   |-> LaterOf(store.wm, h)]

(* Does a live lease of another device stand against d?                    *)
ForeignLease(lease, d, now) ==
    lease # NoLease /\ lease.holder # d /\ lease.until > now

(* The rate window after dropping what is a whole window old.              *)
PruneWindow(window, now) == SelectSeq(window, LAMBDA t : t > now - RateWindow)

(* What becomes of one published record.  A rate-limited one is reported   *)
(* to the client as "stale", with an error frame beside it.                *)
PublishVerdict(store, lease, window, declared, d, h, now) ==
    IF ~declared THEN "malformed"
    ELSE IF ForeignLease(lease, d, now) THEN "lease_required"
    ELSE IF ~Before(store.rec, h) THEN "stale"
    ELSE IF Len(PruneWindow(window, now)) >= MaxMutations THEN "rate_limited"
    ELSE "accepted"

(* When a lease granted now runs out.                                      *)
LeaseUntil(now, ttl) == now + ttl

(* handleLeaseAcquire: is the lease granted?  force must name a candidate  *)
(* newer than the stored record.                                           *)
LeaseGranted(store, lease, d, force, candidate, now) ==
    ForeignLease(lease, d, now) => force /\ Before(store.rec, candidate)

(* Mutant: the record is left as it was.                                   *)
RollBackKeepsRecord(store, to) ==
    [store EXCEPT !.hist = {h \in @ : AtMost(h, to)}]

(* handleRollback: versions later than `to` go, the newest kept one is     *)
(* the record again.  The watermark stays.                                 *)
RollBack(store, to) ==
    LET kept == {h \in store.hist : AtMost(h, to)}
    IN  IF AtMost(store.rec, to) THEN store
        ELSE [store EXCEPT !.rec = Newest(kept), !.hist = kept]
============================================================================
