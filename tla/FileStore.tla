----------------------------- MODULE FileStore -----------------------------
(* The cloud files of one account: the rows of files and chunks, the bytes in *)
(* the object store, and the requests of the control plane that work on them. *)
(* A manifest and a deletion are one transaction each under the account lock; *)
(* what they do to the object store comes after the commit.  A completion     *)
(* asks the object store first, and then runs a transaction without the lock. *)
EXTENDS Naturals, FiniteSets

CONSTANTS
    Paths, Chunks,
    Handlers,       \* bound: requests under way at once
    Quota,          \* chunks the account may store
    MaxFileRequests \* bound: manifests, deletions and completions

ASSUME FileStoreAssumption ==
    IsFiniteSet(Paths) /\ Quota \in Nat /\ MaxFileRequests \in Nat

VARIABLES
    file,     \* per path: the file's row and the chunks its manifest names
    chunk,    \* per chunk: the row of the chunks table; none without references
    bucket,   \* per chunk: what the object store has under its hash
    granted,  \* chunks a presigned PUT is out for
    handler,  \* the requests under way
    asked,    \* how many there have been
    raced     \* a manifest or an upload came between another request's look
              \* at a chunk or a file and what it did about it
fileVars == <<file, chunk, bucket, granted, handler, asked, raced>>

NoFile == [born |-> 0, names |-> {}, complete |-> FALSE]

NoRow == [refs |-> 0, stored |-> FALSE]

NoRequest == [pc |-> "idle", path |-> "none", born |-> 0, todo |-> {}, bad |-> {},
            confirmed |-> {}, missing |-> FALSE]

FileTypeOK ==
    /\ \A p \in Paths : /\ file[p].born \in Nat /\ file[p].names \subseteq Chunks
                        /\ file[p].complete \in BOOLEAN
    /\ chunk \in [Chunks -> [refs : Nat, stored : BOOLEAN]]
    /\ bucket \in [Chunks -> {"absent", "short", "whole"}]
    /\ granted \subseteq Chunks
    /\ \A r \in Handlers :
          /\ handler[r].pc \in {"idle", "recheck", "sweep", "rows", "head", "reject", "mark"}
          /\ handler[r].todo \union handler[r].bad \union handler[r].confirmed \subseteq Chunks
          /\ handler[r].missing \in BOOLEAN
    /\ asked \in 0..MaxFileRequests /\ raced \in BOOLEAN

Known == {h \in Chunks : chunk[h].refs > 0}

Unstored(S) == {h \in S \intersect Known : ~chunk[h].stored}

Becomes(r, h) == handler' = [handler EXCEPT ![r] = h]

Request(r) == handler[r].pc = "idle" /\ asked < MaxFileRequests /\ asked' = asked + 1

(* ---- references ---- *)

(* Mutant: a chunk a sibling names is given up with the file.                *)
ReleaseHashesWhole(rows, S) == [h \in Chunks |-> IF h \in S THEN NoRow ELSE rows[h]]

(* One claim less; the row goes with its last claim.                         *)
ReleaseHashes(rows, S) ==
    [h \in Chunks |->
        IF h \notin S THEN rows[h]
        ELSE IF rows[h].refs > 1 THEN [rows[h] EXCEPT !.refs = @ - 1] ELSE NoRow]

AttachChunks(rows, S) ==
    [h \in Chunks |-> IF h \in S THEN [rows[h] EXCEPT !.refs = @ + 1] ELSE rows[h]]

Orphans(S) == {h \in S : chunk[h].refs > 0 /\ chunk'[h].refs = 0}

(* A transaction waits for the rows an open completion has written.          *)
RowLocks(r) ==
    UNION {IF handler[q].pc = "mark" THEN handler[q].confirmed ELSE {}
              : q \in Handlers \ {r}}

(* ---- POST /files/manifest ---- *)

(* Mutant: a new version of a complete file stays complete.                  *)
WrittenComplete(p, S) ==
    [file EXCEPT ![p] = [born |-> IF @.born = 0 THEN asked + 1 ELSE @.born,
                         names |-> S, complete |-> @.complete]]

(* A new version of a file is a promise until it is confirmed.               *)
Written(p, S) ==
    [file EXCEPT ![p] = [born |-> IF @.born = 0 THEN asked + 1 ELSE @.born,
                         names |-> S, complete |-> FALSE]]

(* What a request under way has decided about and not yet done: objects to   *)
(* delete, and objects it found in the store.                                *)
Deciding(q) ==
    CASE handler[q].pc = "sweep" -> handler[q].todo
      [] handler[q].pc \in {"head", "reject"} -> handler[q].confirmed
      [] OTHER -> {}

(* The commit of q would call a file complete that it saw with other chunks. *)
Completing(q, p) ==
    handler[q].pc = "mark" /\ handler[q].path = p /\ handler[q].born = file[p].born

PostManifest(r, p, S) ==
    LET released == file[p].names IN
    /\ Request(r)
    /\ (S \union released) \intersect RowLocks(r) = {}
    /\ Cardinality(Known \union S) <= Quota
    /\ file' = Written(p, S)
    /\ chunk' = ReleaseHashes(AttachChunks(chunk, S), released)
    /\ raced' = (raced \/ \E q \in Handlers \ {r} :
                    (S \ Known) \intersect Deciding(q) # {} \/ Completing(q, p))
    /\ Becomes(r, IF Orphans(released) = {} THEN NoRequest
                  ELSE [NoRequest EXCEPT !.pc = "recheck", !.todo = Orphans(released)])
    /\ UNCHANGED <<bucket, granted>>

(* ---- DELETE /files/:id ---- *)

DeleteFile(r, p) ==
    LET released == file[p].names IN
    /\ Request(r) /\ file[p].born > 0
    /\ released \intersect RowLocks(r) = {}
    /\ file' = [file EXCEPT ![p] = NoFile]
    /\ chunk' = ReleaseHashes(chunk, released)
    /\ Becomes(r, IF Orphans(released) = {} THEN NoRequest
                  ELSE [NoRequest EXCEPT !.pc = "recheck", !.todo = Orphans(released)])
    /\ UNCHANGED <<bucket, granted, raced>>

(* ---- deleteOrphanObjects, after the commit of either ---- *)

Recheck(r) ==
    /\ handler[r].pc = "recheck"
    /\ Becomes(r, [handler[r] EXCEPT !.pc = "sweep", !.todo = @ \ Known])
    /\ UNCHANGED <<file, chunk, bucket, granted, asked, raced>>

Sweep(r) ==
    /\ handler[r].pc = "sweep"
    /\ \/ \E h \in handler[r].todo :
             /\ bucket' = [bucket EXCEPT ![h] = "absent"]
             /\ Becomes(r, [handler[r] EXCEPT !.todo = @ \ {h}])
       \/ /\ handler[r].todo = {}
          /\ Becomes(r, NoRequest) /\ UNCHANGED bucket
    /\ UNCHANGED <<file, chunk, granted, asked, raced>>

(* ---- POST /files/complete ---- *)

PostComplete(r, p) ==
    /\ Request(r) /\ file[p].born > 0
    /\ Becomes(r, [NoRequest EXCEPT !.pc = "rows", !.path = p, !.born = file[p].born,
                                  !.todo = file[p].names])
    /\ UNCHANGED <<file, chunk, bucket, granted, raced>>

CompleteRows(r) ==
    /\ handler[r].pc = "rows"
    /\ Becomes(r, [handler[r] EXCEPT !.pc = "head", !.todo = Unstored(@)])
    /\ UNCHANGED <<file, chunk, bucket, granted, asked, raced>>

(* One HEAD; an object of the wrong size is deleted next.                    *)
HeadObject(r, h) ==
    LET seen == [handler[r] EXCEPT !.todo = @ \ {h}] IN
    /\ handler[r].pc = "head" /\ h \in handler[r].todo
    /\ Becomes(r,
         CASE bucket[h] = "whole" -> [seen EXCEPT !.confirmed = @ \union {h}]
           [] bucket[h] = "absent" -> [seen EXCEPT !.missing = TRUE]
           [] bucket[h] = "short" -> [seen EXCEPT !.missing = TRUE, !.pc = "reject",
                                                  !.bad = {h}])
    /\ UNCHANGED <<file, chunk, bucket, granted, asked, raced>>

Reject(r) ==
    /\ handler[r].pc = "reject"
    /\ bucket' = [h \in Chunks |-> IF h \in handler[r].bad THEN "absent" ELSE bucket[h]]
    /\ Becomes(r, [handler[r] EXCEPT !.pc = "head", !.bad = {}])
    /\ UNCHANGED <<file, chunk, granted, asked, raced>>

Marked(S) == [h \in Chunks |-> IF h \in S THEN [chunk[h] EXCEPT !.stored = TRUE] ELSE chunk[h]]

(* The file is still there and names nothing that is not stored.             *)
MayComplete(r) ==
    /\ ~handler[r].missing
    /\ file[handler[r].path].born = handler[r].born
    /\ Unstored(file[handler[r].path].names) \subseteq handler[r].confirmed

(* The transaction writes storedAt and reads the chunks of the file again.   *)
(* What it wrote is committed also when the file cannot be completed.        *)
CompleteCheck(r) ==
    LET marks == Unstored(handler[r].confirmed) IN
    /\ handler[r].pc = "head" /\ handler[r].todo = {}
    /\ marks \intersect RowLocks(r) = {}
    /\ \/ /\ MayComplete(r)
          /\ Becomes(r, [handler[r] EXCEPT !.pc = "mark", !.confirmed = marks])
          /\ UNCHANGED chunk
       \/ /\ ~MayComplete(r)
          /\ chunk' = Marked(marks)
          /\ Becomes(r, NoRequest)
    /\ UNCHANGED <<file, bucket, granted, asked, raced>>

CompleteCommit(r) ==
    /\ handler[r].pc = "mark"
    /\ chunk' = Marked(handler[r].confirmed)
    /\ file' = [p \in Paths |->
                  IF p = handler[r].path /\ file[p].born = handler[r].born
                    THEN [file[p] EXCEPT !.complete = TRUE] ELSE file[p]]
    /\ Becomes(r, NoRequest)
    /\ UNCHANGED <<bucket, granted, asked, raced>>

(* The database gives the transaction up, as the victim of a deadlock with a *)
(* manifest that holds the file's row and waits for a chunk's.               *)
CompleteAborts(r) ==
    /\ handler[r].pc = "mark" /\ Becomes(r, NoRequest)
    /\ UNCHANGED <<file, chunk, bucket, granted, asked, raced>>

(* ---- the object store ---- *)

(* A presigned PUT, for a declared chunk that is missing, below the quota.   *)
UploadUrl(h) ==
    /\ h \in Unstored(Chunks) /\ Cardinality(Known) < Quota
    /\ granted' = granted \union {h}
    /\ UNCHANGED <<file, chunk, bucket, handler, asked, raced>>

(* A client uses its URL, at whatever time.  The store refuses a body over   *)
(* the declared size; one that ended early may be left where nothing was.    *)
Put(h, o) ==
    /\ h \in granted /\ (o = "short" => bucket[h] = "absent")
    /\ bucket' = [bucket EXCEPT ![h] = o]
    /\ granted' = granted \ {h}
    /\ raced' = (raced \/ \E q \in Handlers : h \in handler[q].bad)
    /\ UNCHANGED <<file, chunk, handler, asked>>

(* The process stops: what its requests had not done is not done.            *)
ControlRestart ==
    /\ \E r \in Handlers : handler[r].pc # "idle"
    /\ handler' = [r \in Handlers |-> NoRequest]
    /\ UNCHANGED <<file, chunk, bucket, granted, asked, raced>>

FileInit ==
    /\ file = [p \in Paths |-> NoFile]
    /\ chunk = [h \in Chunks |-> NoRow]
    /\ bucket = [h \in Chunks |-> "absent"]
    /\ granted = {}
    /\ handler = [r \in Handlers |-> NoRequest]
    /\ asked = 0 /\ raced = FALSE

FileNext ==
    \/ \E r \in Handlers :
          \/ \E p \in Paths :
                \/ \E S \in SUBSET Chunks : PostManifest(r, p, S)
                \/ DeleteFile(r, p) \/ PostComplete(r, p)
          \/ \E h \in Chunks : HeadObject(r, h)
          \/ Recheck(r) \/ Sweep(r) \/ CompleteRows(r) \/ Reject(r)
          \/ CompleteCheck(r) \/ CompleteCommit(r) \/ CompleteAborts(r)
    \/ \E h \in Chunks : UploadUrl(h) \/ \E o \in {"whole", "short"} : Put(h, o)
    \/ ControlRestart

FileSpec == FileInit /\ [][FileNext]_fileVars

(* ---- properties ---- *)

(* A chunk has a row, with one reference per file, exactly while files name  *)
(* it: whatever replaces and deletions share it, none frees what a sibling   *)
(* still needs, and none keeps what nobody does.                             *)
RefsMatchFiles ==
    \A h \in Chunks : chunk[h].refs = Cardinality({p \in Paths : h \in file[p].names})

(* The receipt is true: a file marked complete has every chunk it names in   *)
(* the object store, through overlapping uploads, replaces, deletions and    *)
(* completions, short uploads and restarts, unless a manifest brought a      *)
(* chunk back, or replaced a file, or an upload came, between another        *)
(* request's look and its act.                                               *)
CompleteIsReadable ==
    raced \/ \A p \in Paths : file[p].complete =>
                 \A h \in file[p].names : chunk[h].stored /\ bucket[h] = "whole"
============================================================================
