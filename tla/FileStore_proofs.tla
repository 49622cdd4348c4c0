-------------------------- MODULE FileStore_proofs --------------------------
(* The cloud files for any number of paths, chunks and requests under way:   *)
(* references match the files that name a chunk, and the receipt of a file   *)
(* is true.  The second needs to know what every request under way has       *)
(* looked at: what it found in the object store is still there while the     *)
(* chunk has a row, what it is about to delete has no row, what it rejects   *)
(* is not whole, and what it is about to complete is covered by what it      *)
(* found.  A history flag, raced, marks the behaviours in which a manifest   *)
(* or an upload came between such a look and the act.                        *)
(*                                                                           *)
(* And the fetches into those files, at the end of the module: once the user *)
(* has cancelled one in time, its file is never complete.                    *)
EXTENDS FileStore, FileTransfer, FiniteSetTheorems, TLAPS

FileRow == [born : Nat, names : SUBSET Chunks, complete : BOOLEAN]
ChunkRow == [refs : Nat, stored : BOOLEAN]
RequestState == [pc : {"idle", "recheck", "sweep", "rows", "head", "reject", "mark"},
                 path : Paths \union {"none"}, born : Nat, todo : SUBSET Chunks,
                 bad : SUBSET Chunks, confirmed : SUBSET Chunks, missing : BOOLEAN]

FileShape ==
    /\ file \in [Paths -> FileRow]
    /\ chunk \in [Chunks -> ChunkRow]
    /\ bucket \in [Chunks -> {"absent", "short", "whole"}]
    /\ handler \in [Handlers -> RequestState]
    /\ asked \in Nat /\ raced \in BOOLEAN

(* A row without references is no row.                                       *)
RowsAreClaimed == \A h \in Chunks : chunk[h].refs = 0 => chunk[h] = NoRow

(* Files are told apart by the request that made them, and a completion      *)
(* looks at one that was there.                                              *)
BornBefore ==
    /\ \A p \in Paths : file[p].born <= asked
    /\ \A r \in Handlers : handler[r].born <= asked
    /\ \A r \in Handlers : handler[r].pc \in {"rows", "head", "reject", "mark"}
          => handler[r].path \in Paths /\ handler[r].born > 0

(* What a request keeps belongs to the part of it that uses it; the rows an  *)
(* open completion has written are there.                                    *)
HandsInOrder ==
    \A r \in Handlers :
       /\ handler[r].pc \notin {"head", "reject", "mark"} => handler[r].confirmed = {}
       /\ handler[r].pc # "reject" => handler[r].bad = {}
       /\ handler[r].pc = "mark" => handler[r].confirmed \subseteq Known

StoredIsWhole == \A h \in Known : chunk[h].stored => bucket[h] = "whole"

ConfirmedIsWhole ==
    \A r \in Handlers : \A h \in handler[r].confirmed \intersect Known : bucket[h] = "whole"

SweptIsUnknown ==
    \A r \in Handlers : handler[r].pc = "sweep" => handler[r].todo \intersect Known = {}

BadIsNotWhole == \A r \in Handlers : \A h \in handler[r].bad : bucket[h] # "whole"

CompleteIsStored ==
    \A p \in Paths : file[p].complete => \A h \in file[p].names : chunk[h].stored

CommitIsCovered ==
    \A r \in Handlers :
       handler[r].pc = "mark" /\ file[handler[r].path].born = handler[r].born
          => Unstored(file[handler[r].path].names) \subseteq handler[r].confirmed

Looks == /\ StoredIsWhole /\ ConfirmedIsWhole /\ SweptIsUnknown /\ BadIsNotWhole
         /\ CompleteIsStored /\ CommitIsCovered

FInv == /\ FileShape /\ RefsMatchFiles /\ RowsAreClaimed /\ BornBefore /\ HandsInOrder
        /\ raced \/ Looks

LEMMA InitFInv == FileInit => FInv
<1> SUFFICES ASSUME FileInit PROVE FInv
  OBVIOUS
<1>1. FileShape
  BY DEF FileInit, FileShape, FileRow, ChunkRow, RequestState, NoFile, NoRow, NoRequest
<1>2. RefsMatchFiles
  <2>1. \A h \in Chunks : {p \in Paths : h \in file[p].names} = {}
    BY DEF FileInit, NoFile
  <2> QED BY <2>1, FS_EmptySet DEF FileInit, RefsMatchFiles, NoRow
<1>3. RowsAreClaimed /\ BornBefore /\ HandsInOrder
  BY DEF FileInit, RowsAreClaimed, BornBefore, HandsInOrder, NoFile, NoRow, NoRequest
<1>4. Looks
  BY DEF FileInit, Looks, StoredIsWhole, ConfirmedIsWhole, SweptIsUnknown, BadIsNotWhole,
         CompleteIsStored, CommitIsCovered, Known, NoFile, NoRow, NoRequest
<1> QED BY <1>1, <1>2, <1>3, <1>4 DEF FInv

----------------------------------------------------------------------------
(* A set of claims gains or loses one.                                       *)
LEMMA ClaimsCounted ==
  ASSUME NEW C, NEW p, IsFiniteSet(C)
  PROVE  /\ Cardinality(C) \in Nat /\ (p \in C => Cardinality(C) > 0)
         /\ p \in C => Cardinality(C \union {p}) = Cardinality(C)
         /\ p \notin C => Cardinality(C \union {p}) = Cardinality(C) + 1
         /\ p \in C => Cardinality(C \ {p}) = Cardinality(C) - 1
         /\ p \notin C => Cardinality(C \ {p}) = Cardinality(C)
<1>1. Cardinality(C) \in Nat
  BY FS_CardinalityType
<1>2. p \in C => Cardinality(C) # 0
  BY FS_EmptySet
<1>3. Cardinality(C \union {p}) = IF p \in C THEN Cardinality(C) ELSE Cardinality(C) + 1
  BY FS_AddElement
<1>4. Cardinality(C \ {p}) = IF p \in C THEN Cardinality(C) - 1 ELSE Cardinality(C)
  BY FS_RemoveElement
<1> QED BY <1>1, <1>2, <1>3, <1>4

(* The row of a chunk when S is attached and then T released.                *)
LEMMA RowRewritten ==
  ASSUME NEW rows, NEW S, NEW T, NEW h \in Chunks, NEW n \in Nat, NEW st \in BOOLEAN,
         rows[h] = [refs |-> n, stored |-> st], h \in T => n > 0
  PROVE  LET new == ReleaseHashes(AttachChunks(rows, S), T)[h] IN
         /\ h \in S /\ h \in T => new = [refs |-> n, stored |-> st]
         /\ h \in S /\ h \notin T => new = [refs |-> n + 1, stored |-> st]
         /\ h \notin S /\ h \in T /\ n > 1 => new = [refs |-> n - 1, stored |-> st]
         /\ h \notin S /\ h \in T /\ n = 1 => new = NoRow
         /\ h \notin S /\ h \notin T => new = [refs |-> n, stored |-> st]
<1> DEFINE mid == AttachChunks(rows, S)[h]
           new == ReleaseHashes(AttachChunks(rows, S), T)[h]
<1>1. mid = IF h \in S THEN [rows[h] EXCEPT !.refs = @ + 1] ELSE rows[h]
  BY DEF AttachChunks
<1>2. mid = [refs |-> IF h \in S THEN n + 1 ELSE n, stored |-> st]
  BY <1>1
<1>3. new = IF h \notin T THEN mid
            ELSE IF mid.refs > 1 THEN [mid EXCEPT !.refs = @ - 1] ELSE NoRow
  BY DEF ReleaseHashes
<1> HIDE DEF mid, new
<1>4. CASE h \in S
  <2>1. mid = [refs |-> n + 1, stored |-> st]
    BY <1>2, <1>4
  <2>2. mid.refs = n + 1
    BY <2>1
  <2>3. CASE h \in T
    <3>1. new = [mid EXCEPT !.refs = @ - 1]
      BY <1>3, <2>2, <2>3
    <3>2. new = [refs |-> (n + 1) - 1, stored |-> st]
      BY <3>1, <2>1
    <3>3. (n + 1) - 1 = n
      OBVIOUS
    <3>4. new = [refs |-> n, stored |-> st]
      BY <3>2, <3>3, Zenon
    <3> QED BY <3>4, <1>4, <2>3, Zenon DEF new
  <2>4. CASE h \notin T
    <3>1. new = [refs |-> n + 1, stored |-> st]
      BY <1>3, <2>1, <2>4, Zenon
    <3> QED BY <3>1, <1>4, <2>4, Zenon DEF new
  <2> QED BY <2>3, <2>4
<1>5. CASE h \notin S
  <2>1. mid = [refs |-> n, stored |-> st]
    BY <1>2, <1>5
  <2>2. mid.refs = n
    BY <2>1
  <2>3. CASE h \notin T
    <3>1. new = [refs |-> n, stored |-> st]
      BY <1>3, <2>1, <2>3, Zenon
    <3> QED BY <3>1, <1>5, <2>3, Zenon DEF new
  <2>4. CASE h \in T /\ n > 1
    <3>1. new = [mid EXCEPT !.refs = @ - 1]
      BY <1>3, <2>2, <2>4
    <3>2. new = [refs |-> n - 1, stored |-> st]
      BY <3>1, <2>1
    <3>3. n # 1
      BY <2>4
    <3> QED BY <3>2, <3>3, <1>5, <2>4, Zenon DEF new
  <2>5. CASE h \in T /\ n = 1
    <3>1. new = NoRow /\ ~(n > 1)
      BY <1>3, <2>2, <2>5
    <3> QED BY <3>1, <1>5, <2>5, Zenon DEF new
  <2> QED BY <2>3, <2>4, <2>5
<1> QED BY <1>4, <1>5

(* A file is given chunks S instead of those it had: claims and rows move    *)
(* together, and a row that stays keeps its mark.                            *)
LEMMA RewriteRows ==
  ASSUME FileShape, RefsMatchFiles, RowsAreClaimed,
         NEW p \in Paths, NEW S \in SUBSET Chunks, NEW b \in Nat,
         file' = [file EXCEPT ![p] = [born |-> b, names |-> S, complete |-> FALSE]],
         chunk' = ReleaseHashes(AttachChunks(chunk, S), file[p].names)
  PROVE  /\ file' \in [Paths -> FileRow] /\ chunk' \in [Chunks -> ChunkRow]
         /\ RefsMatchFiles' /\ RowsAreClaimed'
         /\ \A h \in Chunks : chunk'[h].refs > 0 => chunk'[h].stored = chunk[h].stored
         /\ \A h \in Chunks \ file[p].names : chunk'[h].refs >= chunk[h].refs
         /\ \A h \in Chunks \ S : chunk'[h].refs <= chunk[h].refs
<1> DEFINE claims(h) == {q \in Paths : h \in file[q].names}
           claimsAfter(h) == {q \in Paths : h \in file'[q].names}
           had == file[p].names
<1>1. file' \in [Paths -> FileRow] /\ file'[p].names = S
      /\ \A q \in Paths : q # p => file'[q] = file[q]
  BY DEF FileShape, FileRow
<1>2. ASSUME NEW h \in Chunks
      PROVE  /\ chunk'[h] \in ChunkRow
             /\ chunk'[h].refs = Cardinality(claimsAfter(h))
             /\ chunk'[h].refs = 0 => chunk'[h] = NoRow
             /\ chunk'[h].refs > 0 => chunk'[h].stored = chunk[h].stored
             /\ h \notin had => chunk'[h].refs >= chunk[h].refs
             /\ h \notin S => chunk'[h].refs <= chunk[h].refs
  <2>1. /\ claimsAfter(h) = IF h \in S THEN claims(h) \union {p} ELSE claims(h) \ {p}
        /\ p \in claims(h) <=> h \in had
    BY <1>1
  <2>2. IsFiniteSet(claims(h)) /\ chunk[h].refs = Cardinality(claims(h))
    <3>1. claims(h) \in SUBSET Paths
      OBVIOUS
    <3> QED BY <3>1, FS_Subset, FileStoreAssumption DEF RefsMatchFiles
  <2>3. PICK n \in Nat, st \in BOOLEAN : chunk[h] = [refs |-> n, stored |-> st]
    BY DEF FileShape, ChunkRow
  <2>4. chunk[h].refs = n /\ chunk[h].stored = st /\ n = Cardinality(claims(h))
    BY <2>2, <2>3
  <2>5. n = 0 => ~st
    BY <2>3 DEF RowsAreClaimed, NoRow
  <2> DEFINE m == Cardinality(claimsAfter(h))
             row == chunk'[h]
  <2>6. /\ h \in had => n > 0
        /\ h \in S /\ h \in had => m = n
        /\ h \in S /\ h \notin had => m = n + 1
        /\ h \notin S /\ h \in had => m = n - 1
        /\ h \notin S /\ h \notin had => m = n
    <3> HIDE DEF claims, claimsAfter, had
    <3> QED BY <2>1, <2>2, <2>4, ClaimsCounted
  <2>7. /\ h \in S /\ h \in had => row = [refs |-> n, stored |-> st]
        /\ h \in S /\ h \notin had => row = [refs |-> n + 1, stored |-> st]
        /\ h \notin S /\ h \in had /\ n > 1 => row = [refs |-> n - 1, stored |-> st]
        /\ h \notin S /\ h \in had /\ n = 1 => row = NoRow
        /\ h \notin S /\ h \notin had => row = [refs |-> n, stored |-> st]
    BY <2>3, <2>6, RowRewritten
  <2> HIDE DEF claims, claimsAfter, had, m, row
  <2>8. NoRow = [refs |-> 0, stored |-> FALSE]
    BY DEF NoRow
  <2>9. PICK k \in Nat, mark \in BOOLEAN :
           /\ row = [refs |-> k, stored |-> mark] /\ k = m
           /\ k > 0 => mark = st
           /\ k = 0 => mark = FALSE
    <3>1. CASE h \in S /\ h \in had
      BY <3>1, <2>6, <2>7
    <3>2. CASE h \in S /\ h \notin had
      BY <3>2, <2>6, <2>7
    <3>3. CASE h \notin S /\ h \in had /\ n > 1
      BY <3>3, <2>6, <2>7
    <3>4. CASE h \notin S /\ h \in had /\ n = 1
      <4>1. row = [refs |-> 0, stored |-> FALSE]
        BY <3>4, <2>7, <2>8, Zenon
      <4>2. m = 0
        BY <3>4, <2>6
      <4> WITNESS 0 \in Nat, FALSE \in BOOLEAN
      <4>3. ~(0 > 0)
        OBVIOUS
      <4> QED BY <4>1, <4>2, <4>3, Zenon
    <3>5. CASE h \notin S /\ h \notin had
      BY <3>5, <2>5, <2>6, <2>7
    <3>6. h \in had => n > 1 \/ n = 1
      BY <2>6
    <3> QED BY <3>1, <3>2, <3>3, <3>4, <3>5, <3>6, Zenon
  <2>10. /\ row \in ChunkRow /\ row.refs = m
         /\ row.refs = 0 => row = NoRow
         /\ row.refs > 0 => row.stored = st
    BY <2>9, <2>8 DEF ChunkRow
  <2>11. /\ h \notin had => row.refs >= n
         /\ h \notin S => row.refs <= n
    BY <2>6, <2>10
  <2> QED BY <2>4, <2>10, <2>11 DEF m, row
<1>3. chunk' \in [Chunks -> ChunkRow]
  BY <1>2 DEF ReleaseHashes
<1>4. RefsMatchFiles' /\ RowsAreClaimed'
  BY <1>2 DEF RefsMatchFiles, RowsAreClaimed
<1> QED BY <1>1, <1>2, <1>3, <1>4

(* A chunk that a file names has a row.                                      *)
LEMMA NamedHasRow ==
  ASSUME NEW f, NEW c,
         \A h \in Chunks : c[h].refs = Cardinality({p \in Paths : h \in f[p].names})
  PROVE  \A p \in Paths : \A h \in Chunks : h \in f[p].names => c[h].refs > 0
<1> SUFFICES ASSUME NEW p \in Paths, NEW h \in Chunks, h \in f[p].names
             PROVE  c[h].refs > 0
  OBVIOUS
<1> DEFINE C == {q \in Paths : h \in f[q].names}
<1>1. IsFiniteSet(C) /\ p \in C
  <2>1. C \in SUBSET Paths
    OBVIOUS
  <2> QED BY <2>1, FS_Subset, FileStoreAssumption
<1>2. c[h].refs = Cardinality(C)
  OBVIOUS
<1> HIDE DEF C
<1> QED BY <1>1, <1>2, ClaimsCounted

(* Rewritten p is what a manifest and a deletion have in common: chunks S    *)
(* instead of those the file had, under the row locks of the others, and a   *)
(* birth b that no open completion has seen, unless the race is noted.       *)
Rewritten(r, p, S, b) ==
    /\ handler[r].pc = "idle"
    /\ (S \union file[p].names) \intersect RowLocks(r) = {}
    /\ file' = [file EXCEPT ![p] = [born |-> b, names |-> S, complete |-> FALSE]]
    /\ chunk' = ReleaseHashes(AttachChunks(chunk, S), file[p].names)
    /\ b \in {0, file[p].born, asked + 1}
    /\ raced' \/ \A q \in Handlers \ {r} :
                    /\ (S \ Known) \intersect Deciding(q) = {}
                    /\ Completing(q, p) => b # file[p].born
    /\ raced' \in BOOLEAN /\ (raced => raced')
    /\ \E X \in SUBSET Chunks :
          \/ handler' = [handler EXCEPT ![r] = NoRequest]
          \/ handler' = [handler EXCEPT ![r] = [NoRequest EXCEPT !.pc = "recheck", !.todo = X]]
    /\ asked' = asked + 1 /\ UNCHANGED bucket

LEMMA RewrittenKeepsFInv ==
  ASSUME FInv, NEW r \in Handlers, NEW p \in Paths, NEW S \in SUBSET Chunks, NEW b \in Nat,
         Rewritten(r, p, S, b)
  PROVE  FInv'
<1> USE DEF FInv
<1>1. /\ file' \in [Paths -> FileRow] /\ chunk' \in [Chunks -> ChunkRow]
      /\ RefsMatchFiles' /\ RowsAreClaimed'
      /\ \A h \in Chunks : chunk'[h].refs > 0 => chunk'[h].stored = chunk[h].stored
      /\ \A h \in Chunks \ file[p].names : chunk'[h].refs >= chunk[h].refs
      /\ \A h \in Chunks \ S : chunk'[h].refs <= chunk[h].refs
  BY RewriteRows DEF Rewritten
<1>2. /\ \A h \in Chunks : chunk[h].refs \in Nat /\ chunk'[h].refs \in Nat
      /\ \A q \in Paths : \A h \in file[q].names : h \in Chunks /\ chunk[h].refs > 0
      /\ \A q \in Paths : \A h \in file'[q].names : h \in Chunks /\ chunk'[h].refs > 0
  <2>1. \A q \in Paths : file[q].names \subseteq Chunks /\ file'[q].names \subseteq Chunks
    BY <1>1 DEF FileShape, FileRow
  <2>2. \A q \in Paths : \A h \in Chunks : h \in file[q].names => chunk[h].refs > 0
    BY NamedHasRow DEF RefsMatchFiles
  <2>3. \A q \in Paths : \A h \in Chunks : h \in file'[q].names => chunk'[h].refs > 0
    BY <1>1, NamedHasRow DEF RefsMatchFiles
  <2>4. \A h \in Chunks : chunk[h].refs \in Nat /\ chunk'[h].refs \in Nat
    BY <1>1 DEF FileShape, ChunkRow
  <2> QED BY <2>1, <2>2, <2>3, <2>4
<1>3. /\ handler' \in [Handlers -> RequestState]
      /\ \A q \in Handlers \ {r} : handler'[q] = handler[q]
      /\ handler'[r].pc \in {"idle", "recheck"} /\ handler'[r].born = 0
      /\ handler'[r].confirmed = {} /\ handler'[r].bad = {}
  <2>1. PICK new \in RequestState :
           /\ new.pc \in {"idle", "recheck"} /\ new.born = 0
           /\ new.confirmed = {} /\ new.bad = {}
           /\ handler' = [handler EXCEPT ![r] = new]
    BY DEF Rewritten, NoRequest, RequestState
  <2> QED BY <2>1 DEF FileShape
<1>4. FileShape'
  BY <1>1, <1>3 DEF FileShape, Rewritten
<1>5. /\ \A q \in Paths \ {p} : file'[q] = file[q]
      /\ file'[p].born = b /\ ~file'[p].complete /\ file'[p].names = S
  BY DEF FileShape, Rewritten
<1>6. bucket' = bucket /\ asked' = asked + 1 /\ asked \in Nat
  BY DEF FileShape, Rewritten
<1>7. BornBefore'
  <2>1. /\ \A q \in Paths : file[q].born \in Nat
        /\ \A q \in Handlers : handler[q].born \in Nat
    BY DEF FileShape, FileRow, RequestState
  <2>2. b <= asked + 1
    BY <2>1, <1>6 DEF Rewritten, BornBefore
  <2>3. \A q \in Paths : file'[q].born <= asked'
    BY <2>1, <2>2, <1>5, <1>6 DEF BornBefore
  <2>4. \A q \in Handlers : handler'[q].born <= asked'
    BY <2>1, <1>3, <1>6 DEF BornBefore
  <2>5. \A q \in Handlers : handler'[q].pc \in {"rows", "head", "reject", "mark"}
          => handler'[q].path \in Paths /\ handler'[q].born > 0
    BY <1>3 DEF BornBefore
  <2> QED BY <2>3, <2>4, <2>5 DEF BornBefore
<1>8. ASSUME NEW q \in Handlers \ {r}, handler[q].pc = "mark", NEW h \in handler[q].confirmed
      PROVE  h \in Chunks /\ chunk[h].refs > 0 /\ chunk'[h].refs > 0
  <2>1. h \in Chunks /\ chunk[h].refs > 0
    BY <1>8 DEF HandsInOrder, Known
  <2>2. h \in RowLocks(r)
    BY <1>8 DEF RowLocks
  <2>3. h \notin file[p].names
    BY <2>2 DEF Rewritten
  <2> QED BY <2>1, <2>3, <1>1, <1>2
<1>9. HandsInOrder'
  <2>1. \A q \in Handlers : handler'[q].pc = "mark" => handler'[q].confirmed \subseteq Known'
    BY <1>3, <1>8 DEF Known
  <2> QED BY <2>1, <1>3 DEF HandsInOrder
<1>10. ASSUME ~raced' PROVE Looks'
  <2>1. Looks /\ \A q \in Handlers \ {r} :
                    /\ (S \ Known) \intersect Deciding(q) = {}
                    /\ Completing(q, p) => b # file[p].born
    BY <1>10 DEF Rewritten
  <2>2. ASSUME NEW h \in Chunks, chunk'[h].refs > 0, chunk[h].refs = 0
        PROVE  h \in S \ Known
    BY <2>2, <1>1, <1>2 DEF Known
  <2>3. StoredIsWhole'
    <3> SUFFICES ASSUME NEW h \in Chunks, chunk'[h].refs > 0, chunk'[h].stored
                 PROVE  bucket[h] = "whole"
      BY <1>6 DEF StoredIsWhole, Known
    <3>1. chunk[h].stored
      BY <1>1
    <3>2. chunk[h].refs # 0
      BY <3>1 DEF RowsAreClaimed, NoRow
    <3> QED BY <3>1, <3>2, <2>1, <1>2 DEF Looks, StoredIsWhole, Known
  <2>4. ConfirmedIsWhole'
    <3> SUFFICES ASSUME NEW q \in Handlers, NEW h \in handler'[q].confirmed,
                        h \in Chunks, chunk'[h].refs > 0
                 PROVE  bucket[h] = "whole"
      BY <1>6 DEF ConfirmedIsWhole, Known
    <3>1. q # r /\ h \in handler[q].confirmed
      BY <1>3
    <3>2. CASE chunk[h].refs > 0
      BY <3>1, <3>2, <2>1 DEF Looks, ConfirmedIsWhole, Known
    <3>3. CASE chunk[h].refs = 0
      <4>1. h \notin Deciding(q)
        BY <2>1, <2>2, <3>1, <3>3
      <4>2. handler[q].pc = "mark"
        BY <4>1, <3>1 DEF HandsInOrder, Deciding
      <4> QED BY <4>2, <3>1, <3>3, <1>8
    <3> QED BY <3>2, <3>3, <1>2
  <2>5. SweptIsUnknown'
    <3> SUFFICES ASSUME NEW q \in Handlers, handler'[q].pc = "sweep", NEW h \in handler'[q].todo,
                        h \in Chunks, chunk'[h].refs > 0
                 PROVE  FALSE
      BY DEF SweptIsUnknown, Known
    <3>1. q # r /\ h \in handler[q].todo /\ handler[q].pc = "sweep"
      BY <1>3
    <3>2. h \notin Known /\ h \in Deciding(q)
      BY <3>1, <2>1 DEF Looks, SweptIsUnknown, Deciding
    <3>3. chunk[h].refs = 0
      BY <3>2, <1>2 DEF Known
    <3> QED BY <3>1, <3>2, <3>3, <2>1, <2>2
  <2>6. BadIsNotWhole'
    BY <1>3, <1>6, <2>1 DEF Looks, BadIsNotWhole
  <2>7. CompleteIsStored'
    BY <1>1, <1>2, <1>5, <2>1 DEF Looks, CompleteIsStored
  <2>8. CommitIsCovered'
    <3> SUFFICES ASSUME NEW q \in Handlers, handler'[q].pc = "mark",
                        file'[handler'[q].path].born = handler'[q].born,
                        NEW h \in file'[handler'[q].path].names, h \in Chunks,
                        chunk'[h].refs > 0, ~chunk'[h].stored
                 PROVE  h \in handler'[q].confirmed
      BY DEF CommitIsCovered, Unstored, Known
    <3>1. q # r /\ handler'[q] = handler[q] /\ handler[q].pc = "mark"
      BY <1>3
    <3>2. handler[q].path \in Paths /\ handler[q].born > 0 /\ handler[q].born \in Nat
          /\ handler[q].born <= asked
      BY <3>1 DEF BornBefore, FileShape, RequestState
    <3>3. CASE handler[q].path = p
      <4>1. b = handler[q].born
        BY <3>1, <3>3, <1>5
      <4>2. b = file[p].born
        BY <4>1, <3>2, <1>6 DEF Rewritten
      <4>3. Completing(q, p)
        BY <4>1, <4>2, <3>1, <3>3 DEF Completing
      <4> QED BY <4>2, <4>3, <3>1, <2>1
    <3>4. CASE handler[q].path # p
      <4>1. file'[handler[q].path] = file[handler[q].path]
        BY <3>2, <3>4, <1>5
      <4>2. h \in file[handler[q].path].names /\ chunk[h].refs > 0 /\ ~chunk[h].stored
        BY <4>1, <3>1, <3>2, <1>1, <1>2
      <4>3. file[handler[q].path].born = handler[q].born
        BY <4>1, <3>1
      <4> QED BY <4>2, <4>3, <3>1, <2>1 DEF Looks, CommitIsCovered, Unstored, Known
    <3> QED BY <3>3, <3>4
  <2> QED BY <2>3, <2>4, <2>5, <2>6, <2>7, <2>8 DEF Looks
<1>11. raced' \in BOOLEAN
  BY DEF Rewritten
<1> QED BY <1>1, <1>4, <1>7, <1>9, <1>10, <1>11

(* A deletion attaches nothing.                                              *)
LEMMA AttachNone == FileShape => AttachChunks(chunk, {}) = chunk
<1>1. ASSUME FileShape PROVE AttachChunks(chunk, {}) = chunk
  BY <1>1 DEF FileShape, AttachChunks
<1> QED BY <1>1

LEMMA OrphansAreChunks ==
  ASSUME FileShape, NEW p \in Paths
  PROVE  Orphans(file[p].names) \in SUBSET Chunks
<1>1. file[p].names \subseteq Chunks
  BY DEF FileShape, FileRow
<1> QED BY <1>1 DEF Orphans

LEMMA PostManifestKeeps ==
  ASSUME FInv, NEW r \in Handlers, NEW p \in Paths, NEW S \in SUBSET Chunks,
         PostManifest(r, p, S)
  PROVE  FInv'
<1> DEFINE b == IF file[p].born = 0 THEN asked + 1 ELSE file[p].born
<1>1. FileShape /\ BornBefore /\ file[p].born \in Nat /\ asked \in Nat /\ raced \in BOOLEAN
      /\ p \in DOMAIN file
  BY DEF FInv, FileShape, FileRow
<1>2. b \in Nat /\ b \in {0, file[p].born, asked + 1}
  BY <1>1
<1>3. file' = [file EXCEPT ![p] = [born |-> b, names |-> S, complete |-> FALSE]]
  BY <1>1 DEF PostManifest, Written
<1>4. \E X \in SUBSET Chunks :
          \/ handler' = [handler EXCEPT ![r] = NoRequest]
          \/ handler' = [handler EXCEPT ![r] = [NoRequest EXCEPT !.pc = "recheck", !.todo = X]]
  BY <1>1, OrphansAreChunks DEF PostManifest, Becomes
<1>5. /\ handler[r].pc = "idle" /\ asked' = asked + 1 /\ UNCHANGED bucket
      /\ (S \union file[p].names) \intersect RowLocks(r) = {}
      /\ chunk' = ReleaseHashes(AttachChunks(chunk, S), file[p].names)
      /\ raced' = (raced \/ \E q \in Handlers \ {r} :
                    (S \ Known) \intersect Deciding(q) # {} \/ Completing(q, p))
  BY DEF PostManifest, Request
<1>6. /\ raced' \/ \A q \in Handlers \ {r} :
                    /\ (S \ Known) \intersect Deciding(q) = {}
                    /\ Completing(q, p) => b # file[p].born
      /\ raced' \in BOOLEAN /\ (raced => raced')
  <2> HIDE DEF b
  <2> QED BY <1>1, <1>5, Zenon
<1>7. Rewritten(r, p, S, b)
  BY <1>2, <1>3, <1>4, <1>5, <1>6, Zenon DEF Rewritten
<1> QED BY <1>2, <1>7, RewrittenKeepsFInv

LEMMA DeleteFileKeeps ==
  ASSUME FInv, NEW r \in Handlers, NEW p \in Paths, DeleteFile(r, p)
  PROVE  FInv'
<1>1. FileShape /\ BornBefore /\ file[p].born \in Nat /\ raced \in BOOLEAN
  BY DEF FInv, FileShape, FileRow
<1>2. file' = [file EXCEPT ![p] = [born |-> 0, names |-> {}, complete |-> FALSE]]
  BY DEF DeleteFile, NoFile
<1>3. \E X \in SUBSET Chunks :
          \/ handler' = [handler EXCEPT ![r] = NoRequest]
          \/ handler' = [handler EXCEPT ![r] = [NoRequest EXCEPT !.pc = "recheck", !.todo = X]]
  BY <1>1, OrphansAreChunks DEF DeleteFile, Becomes
<1>4. /\ handler[r].pc = "idle" /\ asked' = asked + 1 /\ UNCHANGED <<bucket, raced>>
      /\ ({} \union file[p].names) \intersect RowLocks(r) = {}
      /\ chunk' = ReleaseHashes(AttachChunks(chunk, {}), file[p].names)
      /\ file[p].born > 0
  BY <1>1, AttachNone DEF DeleteFile, Request
<1>5. \A q \in Handlers \ {r} : /\ ({} \ Known) \intersect Deciding(q) = {}
                                /\ Completing(q, p) => 0 # file[p].born
  BY <1>1, <1>4
<1>6. Rewritten(r, p, {}, 0)
  BY <1>1, <1>2, <1>3, <1>4, <1>5, Zenon DEF Rewritten
<1> QED BY <1>6, RewrittenKeepsFInv

----------------------------------------------------------------------------
(* What the invariant says of one request, as a predicate of its record: the *)
(* steps that move nothing but the request have only this to show.           *)
InOrder(q) ==
    /\ q \in RequestState
    /\ q.pc \in {"rows", "head", "reject", "mark"} => q.path \in Paths /\ q.born > 0
    /\ q.pc \notin {"head", "reject", "mark"} => q.confirmed = {}
    /\ q.pc # "reject" => q.bad = {}
    /\ q.pc = "mark" => q.confirmed \subseteq Known

LooksTrue(q) ==
    /\ \A h \in q.confirmed \intersect Known : bucket[h] = "whole"
    /\ q.pc = "sweep" => q.todo \intersect Known = {}
    /\ \A h \in q.bad : bucket[h] # "whole"
    /\ q.pc = "mark" /\ file[q.path].born = q.born
          => Unstored(file[q.path].names) \subseteq q.confirmed

LEMMA RequestStep ==
  ASSUME FInv, NEW r \in Handlers, NEW new, InOrder(new), new.born <= asked',
         raced \/ LooksTrue(new), handler' = [handler EXCEPT ![r] = new],
         asked' \in {asked, asked + 1}, UNCHANGED <<file, chunk, bucket, raced>>
  PROVE  FInv'
<1>1. FileShape /\ RefsMatchFiles /\ RowsAreClaimed /\ BornBefore /\ HandsInOrder
      /\ (raced \/ Looks)
  BY DEF FInv
<1>2. /\ handler' \in [Handlers -> RequestState] /\ handler'[r] = new
      /\ \A q \in Handlers \ {r} : handler'[q] = handler[q]
  BY <1>1 DEF FileShape, InOrder
<1>3. FileShape' /\ RefsMatchFiles' /\ RowsAreClaimed'
  BY <1>1, <1>2 DEF FileShape, RefsMatchFiles, RowsAreClaimed
<1>4. BornBefore'
  <2>1. /\ asked \in Nat /\ asked' \in Nat /\ asked <= asked'
        /\ \A q \in Handlers : handler[q].born \in Nat
        /\ \A p \in Paths : file[p].born \in Nat
    BY <1>1 DEF FileShape, FileRow, RequestState
  <2>2. \A q \in Handlers : handler'[q].born <= asked'
    BY <2>1, <1>1, <1>2 DEF BornBefore
  <2>3. \A p \in Paths : file'[p].born <= asked'
    BY <2>1, <1>1 DEF BornBefore
  <2> QED BY <2>2, <2>3, <1>1, <1>2 DEF BornBefore, InOrder
<1>5. HandsInOrder'
  BY <1>1, <1>2 DEF HandsInOrder, InOrder, Known
<1>6. ASSUME Looks, LooksTrue(new) PROVE Looks'
  <2>1. StoredIsWhole' /\ CompleteIsStored'
    BY <1>6 DEF Looks, StoredIsWhole, CompleteIsStored, Known
  <2>2. ConfirmedIsWhole' /\ SweptIsUnknown' /\ BadIsNotWhole'
    BY <1>6, <1>2 DEF Looks, LooksTrue, ConfirmedIsWhole, SweptIsUnknown, BadIsNotWhole, Known
  <2>3. CommitIsCovered'
    BY <1>6, <1>2 DEF Looks, LooksTrue, CommitIsCovered, Unstored, Known
  <2> QED BY <2>1, <2>2, <2>3 DEF Looks
<1> QED BY <1>1, <1>3, <1>4, <1>5, <1>6 DEF FInv

LEMMA NoRequestSound == InOrder(NoRequest) /\ LooksTrue(NoRequest) /\ NoRequest.born = 0
  BY DEF InOrder, LooksTrue, NoRequest, RequestState

(* What the invariant says of the request r.                                 *)
LEMMA RequestSound ==
  ASSUME FInv, NEW r \in Handlers
  PROVE  /\ InOrder(handler[r]) /\ (raced \/ LooksTrue(handler[r]))
         /\ handler[r].born \in Nat /\ handler[r].born <= asked /\ asked \in Nat
<1>1. handler[r] \in RequestState /\ asked \in Nat
  BY DEF FInv, FileShape
<1>2. InOrder(handler[r]) /\ handler[r].born <= asked
  BY <1>1 DEF FInv, BornBefore, HandsInOrder, InOrder
<1>3. raced \/ LooksTrue(handler[r])
  BY DEF FInv, Looks, LooksTrue, ConfirmedIsWhole, SweptIsUnknown, BadIsNotWhole, CommitIsCovered
<1> QED BY <1>1, <1>2, <1>3 DEF RequestState

LEMMA RecheckKeeps == ASSUME FInv, NEW r \in Handlers, Recheck(r) PROVE FInv'
<1> DEFINE new == [handler[r] EXCEPT !.pc = "sweep", !.todo = @ \ Known]
<1>1. InOrder(handler[r]) /\ handler[r].born <= asked /\ handler[r].pc = "recheck"
  BY RequestSound DEF Recheck
<1>2. /\ new \in RequestState /\ new.pc = "sweep" /\ new.todo = handler[r].todo \ Known
      /\ new.confirmed = handler[r].confirmed /\ new.bad = handler[r].bad
      /\ new.born = handler[r].born
  BY <1>1 DEF InOrder, RequestState
<1>3. handler' = [handler EXCEPT ![r] = new] /\ UNCHANGED <<file, chunk, bucket, asked, raced>>
  BY DEF Recheck, Becomes
<1> HIDE DEF new
<1>4. InOrder(new) /\ LooksTrue(new)
  BY <1>1, <1>2 DEF InOrder, LooksTrue
<1> QED BY <1>1, <1>2, <1>3, <1>4, RequestStep

LEMMA PostCompleteKeeps ==
  ASSUME FInv, NEW r \in Handlers, NEW p \in Paths, PostComplete(r, p) PROVE FInv'
<1> DEFINE new == [NoRequest EXCEPT !.pc = "rows", !.path = p, !.born = file[p].born,
                                    !.todo = file[p].names]
<1>1. file[p] \in FileRow /\ file[p].born <= asked /\ asked \in Nat /\ file[p].born > 0
  BY DEF FInv, FileShape, BornBefore, PostComplete
<1>2. /\ new \in RequestState /\ new.pc = "rows" /\ new.path = p
      /\ new.confirmed = {} /\ new.bad = {} /\ new.born = file[p].born
  BY <1>1 DEF NoRequest, RequestState, FileRow
<1>3. /\ handler' = [handler EXCEPT ![r] = new] /\ UNCHANGED <<file, chunk, bucket, raced>>
      /\ asked' = asked + 1
  BY DEF PostComplete, Becomes, Request
<1> HIDE DEF new
<1>4. InOrder(new) /\ LooksTrue(new)
  BY <1>1, <1>2 DEF InOrder, LooksTrue
<1>5. new.born <= asked'
  BY <1>1, <1>2, <1>3 DEF FileRow
<1> QED BY <1>3, <1>4, <1>5, RequestStep

LEMMA CompleteRowsKeeps == ASSUME FInv, NEW r \in Handlers, CompleteRows(r) PROVE FInv'
<1> DEFINE new == [handler[r] EXCEPT !.pc = "head", !.todo = Unstored(@)]
<1>1. InOrder(handler[r]) /\ handler[r].born <= asked /\ handler[r].pc = "rows"
  BY RequestSound DEF CompleteRows
<1>2. Unstored(handler[r].todo) \subseteq Chunks
  BY DEF Unstored, Known
<1>3. /\ new \in RequestState /\ new.pc = "head" /\ new.path = handler[r].path
      /\ new.confirmed = handler[r].confirmed /\ new.bad = handler[r].bad
      /\ new.born = handler[r].born
  BY <1>1, <1>2 DEF InOrder, RequestState
<1>4. handler' = [handler EXCEPT ![r] = new] /\ UNCHANGED <<file, chunk, bucket, asked, raced>>
  BY DEF CompleteRows, Becomes
<1> HIDE DEF new
<1>5. InOrder(new) /\ LooksTrue(new)
  BY <1>1, <1>3 DEF InOrder, LooksTrue
<1> QED BY <1>1, <1>3, <1>4, <1>5, RequestStep

LEMMA HeadObjectKeeps ==
  ASSUME FInv, NEW r \in Handlers, NEW h \in Chunks, HeadObject(r, h) PROVE FInv'
<1> DEFINE seen == [handler[r] EXCEPT !.todo = @ \ {h}]
<1>1. /\ InOrder(handler[r]) /\ handler[r].born <= asked /\ handler[r].pc = "head"
      /\ raced \/ LooksTrue(handler[r])
  BY RequestSound DEF HeadObject
<1>2. /\ seen \in RequestState /\ seen.pc = "head" /\ seen.path = handler[r].path
      /\ seen.confirmed = handler[r].confirmed /\ seen.bad = handler[r].bad
      /\ seen.born = handler[r].born
  BY <1>1 DEF InOrder, RequestState
<1>3. UNCHANGED <<file, chunk, bucket, asked, raced>> /\ bucket[h] \in {"absent", "short", "whole"}
  BY DEF HeadObject, FInv, FileShape
<1>4. handler' = [handler EXCEPT ![r] =
         CASE bucket[h] = "whole" -> [seen EXCEPT !.confirmed = @ \union {h}]
           [] bucket[h] = "absent" -> [seen EXCEPT !.missing = TRUE]
           [] bucket[h] = "short" -> [seen EXCEPT !.missing = TRUE, !.pc = "reject",
                                                  !.bad = {h}]]
  BY DEF HeadObject, Becomes
<1> HIDE DEF seen
<1>5. CASE bucket[h] = "whole"
  <2> DEFINE new == [seen EXCEPT !.confirmed = @ \union {h}]
  <2>1. handler' = [handler EXCEPT ![r] = new]
    BY <1>4, <1>5
  <2>2. /\ new \in RequestState /\ new.pc = "head" /\ new.path = seen.path /\ new.bad = seen.bad
        /\ new.confirmed = seen.confirmed \union {h} /\ new.born = seen.born
    BY <1>2 DEF RequestState
  <2> HIDE DEF new
  <2>3. InOrder(new) /\ (raced \/ LooksTrue(new))
    BY <1>1, <1>2, <1>5, <2>2 DEF InOrder, LooksTrue
  <2> QED BY <1>1, <1>2, <1>3, <2>1, <2>2, <2>3, RequestStep
<1>6. CASE bucket[h] = "absent"
  <2> DEFINE new == [seen EXCEPT !.missing = TRUE]
  <2>1. handler' = [handler EXCEPT ![r] = new]
    BY <1>4, <1>6
  <2>2. /\ new \in RequestState /\ new.pc = "head" /\ new.path = seen.path /\ new.bad = seen.bad
        /\ new.confirmed = seen.confirmed /\ new.born = seen.born
    BY <1>2 DEF RequestState
  <2> HIDE DEF new
  <2>3. InOrder(new) /\ (raced \/ LooksTrue(new))
    BY <1>1, <1>2, <2>2 DEF InOrder, LooksTrue
  <2> QED BY <1>1, <1>2, <1>3, <2>1, <2>2, <2>3, RequestStep
<1>7. CASE bucket[h] = "short"
  <2> DEFINE new == [seen EXCEPT !.missing = TRUE, !.pc = "reject", !.bad = {h}]
  <2>1. handler' = [handler EXCEPT ![r] = new]
    BY <1>4, <1>7
  <2>2. /\ new \in RequestState /\ new.pc = "reject" /\ new.path = seen.path /\ new.bad = {h}
        /\ new.confirmed = seen.confirmed /\ new.born = seen.born
    BY <1>2 DEF RequestState
  <2> HIDE DEF new
  <2>3. InOrder(new) /\ (raced \/ LooksTrue(new))
    BY <1>1, <1>2, <1>7, <2>2 DEF InOrder, LooksTrue
  <2> QED BY <1>1, <1>2, <1>3, <2>1, <2>2, <2>3, RequestStep
<1> QED BY <1>3, <1>5, <1>6, <1>7

LEMMA CompleteAbortsKeeps == ASSUME FInv, NEW r \in Handlers, CompleteAborts(r) PROVE FInv'
<1>1. /\ handler' = [handler EXCEPT ![r] = NoRequest]
      /\ UNCHANGED <<file, chunk, bucket, asked, raced>>
  BY DEF CompleteAborts, Becomes
<1>2. NoRequest.born <= asked'
  BY <1>1, NoRequestSound DEF FInv, FileShape
<1> QED BY <1>1, <1>2, NoRequestSound, RequestStep

----------------------------------------------------------------------------
(* Objects leave the store: those nobody counts on.                          *)
LEMMA ObjectsLeave ==
  ASSUME FInv, NEW r \in Handlers, NEW new, InOrder(new), new.born <= asked,
         raced \/ LooksTrue(new), new.pc \in {"idle", "sweep", "head"}, new.bad = {},
         NEW X \in SUBSET Chunks,
         raced \/ \A h \in X : h \notin Known \/ bucket[h] # "whole",
         bucket' = [h \in Chunks |-> IF h \in X THEN "absent" ELSE bucket[h]],
         handler' = [handler EXCEPT ![r] = new], UNCHANGED <<file, chunk, asked, raced>>
  PROVE  FInv'
<1>1. FileShape /\ RefsMatchFiles /\ RowsAreClaimed /\ BornBefore /\ HandsInOrder
      /\ (raced \/ Looks)
  BY DEF FInv
<1>2. /\ handler' \in [Handlers -> RequestState] /\ handler'[r] = new
      /\ \A q \in Handlers \ {r} : handler'[q] = handler[q]
      /\ bucket' \in [Chunks -> {"absent", "short", "whole"}]
      /\ \A h \in Chunks : bucket'[h] = IF h \in X THEN "absent" ELSE bucket[h]
  BY <1>1 DEF FileShape, InOrder
<1>3. FileShape' /\ RefsMatchFiles' /\ RowsAreClaimed'
  BY <1>1, <1>2 DEF FileShape, RefsMatchFiles, RowsAreClaimed
<1>4. BornBefore' /\ HandsInOrder'
  BY <1>1, <1>2 DEF BornBefore, InOrder, HandsInOrder, Known
<1>5. ASSUME Looks, LooksTrue(new), ~raced PROVE Looks'
  <2>1. /\ \A q \in Handlers : handler[q].bad \subseteq Chunks
        /\ \A h \in Known : h \in Chunks /\ (bucket[h] = "whole" => bucket'[h] = "whole")
    BY <1>1, <1>2, <1>5 DEF FileShape, RequestState, Known
  <2>2. StoredIsWhole' /\ CompleteIsStored'
    BY <1>5, <2>1 DEF Looks, StoredIsWhole, CompleteIsStored, Known
  <2>3. ConfirmedIsWhole' /\ SweptIsUnknown'
    BY <1>5, <1>2, <2>1 DEF Looks, LooksTrue, ConfirmedIsWhole, SweptIsUnknown, Known
  <2>4. BadIsNotWhole'
    BY <1>5, <1>2, <2>1 DEF Looks, BadIsNotWhole
  <2>5. CommitIsCovered'
    BY <1>5, <1>2 DEF Looks, CommitIsCovered, Unstored, Known
  <2> QED BY <2>2, <2>3, <2>4, <2>5 DEF Looks
<1> QED BY <1>1, <1>3, <1>4, <1>5 DEF FInv

LEMMA SweepKeeps == ASSUME FInv, NEW r \in Handlers, Sweep(r) PROVE FInv'
<1>1. /\ InOrder(handler[r]) /\ handler[r].born <= asked /\ handler[r].pc = "sweep"
      /\ raced \/ LooksTrue(handler[r])
  BY RequestSound DEF Sweep
<1>2. UNCHANGED <<file, chunk, asked, raced>>
  BY DEF Sweep
<1>3. ASSUME NEW h \in handler[r].todo, bucket' = [bucket EXCEPT ![h] = "absent"],
             Becomes(r, [handler[r] EXCEPT !.todo = @ \ {h}])
      PROVE  FInv'
  <2> DEFINE new == [handler[r] EXCEPT !.todo = @ \ {h}]
  <2>1. /\ new \in RequestState /\ new.pc = "sweep" /\ new.todo = handler[r].todo \ {h}
        /\ new.confirmed = handler[r].confirmed /\ new.bad = handler[r].bad
        /\ new.born = handler[r].born
    BY <1>1 DEF InOrder, RequestState
  <2>2. handler' = [handler EXCEPT ![r] = new]
    BY <1>3 DEF Becomes
  <2>3. h \in Chunks
    BY <1>1 DEF InOrder, RequestState
  <2>4. bucket' = [k \in Chunks |-> IF k \in {h} THEN "absent" ELSE bucket[k]]
    BY <1>3, <2>3 DEF FInv, FileShape
  <2> HIDE DEF new
  <2>5. InOrder(new) /\ (raced \/ LooksTrue(new)) /\ new.bad = {}
    BY <1>1, <2>1 DEF InOrder, LooksTrue
  <2>6. raced \/ h \notin Known
    BY <1>1 DEF LooksTrue
  <2> QED BY <1>1, <1>2, <2>1, <2>2, <2>3, <2>4, <2>5, <2>6, ObjectsLeave
<1>4. ASSUME Becomes(r, NoRequest), UNCHANGED bucket
      PROVE  FInv'
  <2>1. NoRequest.born <= asked'
    BY <1>2, NoRequestSound DEF FInv, FileShape
  <2> QED BY <1>2, <1>4, <2>1, NoRequestSound, RequestStep DEF Becomes
<1> QED BY <1>3, <1>4, Zenon DEF Sweep

LEMMA RejectKeeps == ASSUME FInv, NEW r \in Handlers, Reject(r) PROVE FInv'
<1> DEFINE new == [handler[r] EXCEPT !.pc = "head", !.bad = {}]
<1>1. /\ InOrder(handler[r]) /\ handler[r].born <= asked /\ handler[r].pc = "reject"
      /\ raced \/ LooksTrue(handler[r])
  BY RequestSound DEF Reject
<1>2. /\ new \in RequestState /\ new.pc = "head" /\ new.path = handler[r].path /\ new.bad = {}
      /\ new.confirmed = handler[r].confirmed /\ new.born = handler[r].born
  BY <1>1 DEF InOrder, RequestState
<1>3. /\ handler' = [handler EXCEPT ![r] = new] /\ UNCHANGED <<file, chunk, asked, raced>>
      /\ bucket' = [h \in Chunks |-> IF h \in handler[r].bad THEN "absent" ELSE bucket[h]]
      /\ handler[r].bad \in SUBSET Chunks
  BY <1>1 DEF Reject, Becomes, InOrder, RequestState
<1> HIDE DEF new
<1>4. InOrder(new) /\ (raced \/ LooksTrue(new))
  BY <1>1, <1>2 DEF InOrder, LooksTrue
<1>5. raced \/ \A h \in handler[r].bad : h \notin Known \/ bucket[h] # "whole"
  BY <1>1 DEF LooksTrue
<1> QED BY <1>1, <1>2, <1>3, <1>4, <1>5, ObjectsLeave

----------------------------------------------------------------------------
(* Rows are marked as stored and the files P completed, by a transaction     *)
(* that found the objects of the rows M, and all that P still missed in M.   *)
LEMMA RowsMarked ==
  ASSUME FInv, NEW r \in Handlers, NEW M \in SUBSET Known, NEW P \in SUBSET Paths,
         raced \/ \A h \in M : bucket[h] = "whole",
         raced \/ \A p \in P : Unstored(file[p].names) \subseteq M,
         chunk' = Marked(M),
         file' = [p \in Paths |-> IF p \in P THEN [file[p] EXCEPT !.complete = TRUE]
                                  ELSE file[p]],
         handler' = [handler EXCEPT ![r] = NoRequest], UNCHANGED <<bucket, asked, raced>>
  PROVE  FInv'
<1>1. FileShape /\ RefsMatchFiles /\ RowsAreClaimed /\ BornBefore /\ HandsInOrder
      /\ (raced \/ Looks)
  BY DEF FInv
<1>2. /\ chunk' \in [Chunks -> ChunkRow]
      /\ \A h \in Chunks : /\ chunk'[h].refs = chunk[h].refs
                           /\ chunk'[h].stored = (h \in M \/ chunk[h].stored)
                           /\ h \notin M => chunk'[h] = chunk[h]
  <2>1. ASSUME NEW h \in Chunks
        PROVE  /\ chunk'[h] \in ChunkRow /\ chunk'[h].refs = chunk[h].refs
               /\ chunk'[h].stored = (h \in M \/ chunk[h].stored)
               /\ h \notin M => chunk'[h] = chunk[h]
    <3>1. chunk[h] \in ChunkRow
      BY <1>1 DEF FileShape
    <3>2. chunk'[h] = IF h \in M THEN [chunk[h] EXCEPT !.stored = TRUE] ELSE chunk[h]
      BY DEF Marked
    <3>3. CASE h \in M
      <4>1. /\ chunk'[h] \in ChunkRow /\ chunk'[h].refs = chunk[h].refs
            /\ chunk'[h].stored = TRUE
        BY <3>1, <3>2, <3>3 DEF ChunkRow
      <4> QED BY <3>3, <4>1, Zenon
    <3>4. CASE h \notin M
      <4>1. chunk'[h] = chunk[h] /\ chunk[h].stored \in BOOLEAN
        BY <3>1, <3>2, <3>4 DEF ChunkRow
      <4> QED BY <3>1, <3>4, <4>1, Zenon
    <3> QED BY <3>3, <3>4
  <2>2. chunk' = [h \in Chunks |-> chunk'[h]]
    BY DEF Marked
  <2> QED BY <2>1, <2>2
<1>3. /\ file' \in [Paths -> FileRow]
      /\ \A p \in Paths : /\ file'[p].born = file[p].born /\ file'[p].names = file[p].names
                          /\ file'[p].complete => p \in P \/ file[p].complete
  <2>1. ASSUME NEW p \in Paths
        PROVE  /\ file'[p] \in FileRow
               /\ file'[p].born = file[p].born /\ file'[p].names = file[p].names
               /\ file'[p].complete => p \in P \/ file[p].complete
    <3>1. file[p] \in FileRow
      BY <1>1 DEF FileShape
    <3>2. CASE p \in P
      BY <3>1, <3>2 DEF FileRow
    <3>3. CASE p \notin P
      BY <3>1, <3>3
    <3> QED BY <3>2, <3>3
  <2>2. file' = [p \in Paths |-> file'[p]]
    OBVIOUS
  <2> QED BY <2>1, <2>2
<1>4. /\ handler' \in [Handlers -> RequestState] /\ handler'[r] = NoRequest
      /\ \A q \in Handlers \ {r} : handler'[q] = handler[q]
  BY <1>1, NoRequestSound DEF FileShape, InOrder
<1>5. NoRequest.pc = "idle" /\ NoRequest.confirmed = {} /\ NoRequest.bad = {} /\ NoRequest.born = 0
  BY DEF NoRequest
<1>6. Known' = Known /\ UNCHANGED <<bucket, asked, raced>> /\ Known \subseteq Chunks
  BY <1>2 DEF Known
<1>7. FileShape'
  BY <1>1, <1>2, <1>3, <1>4, <1>6 DEF FileShape
<1>8. RefsMatchFiles'
  <2>1. \A h \in Chunks : {p \in Paths : h \in file'[p].names} = {p \in Paths : h \in file[p].names}
    BY <1>3
  <2> QED BY <2>1, <1>1, <1>2 DEF RefsMatchFiles
<1>9. RowsAreClaimed'
  BY <1>1, <1>2 DEF RowsAreClaimed, Known
<1>10. BornBefore'
  BY <1>1, <1>3, <1>4, <1>5, <1>6 DEF BornBefore, FileShape
<1>11. HandsInOrder'
  BY <1>1, <1>4, <1>5, <1>6 DEF HandsInOrder
<1>12. ASSUME ~raced PROVE Looks'
  <2>1. /\ Looks /\ \A h \in M : bucket[h] = "whole"
        /\ \A p \in P : Unstored(file[p].names) \subseteq M
    BY <1>1, <1>12
  <2>2. \A p \in Paths : \A h \in file[p].names : h \in Chunks /\ chunk[h].refs > 0
    <3>1. \A p \in Paths : file[p].names \subseteq Chunks
      BY <1>1 DEF FileShape, FileRow
    <3>2. \A p \in Paths : \A h \in Chunks : h \in file[p].names => chunk[h].refs > 0
      BY <1>1, NamedHasRow DEF RefsMatchFiles
    <3> QED BY <3>1, <3>2
  <2>3. StoredIsWhole'
    BY <2>1, <1>2, <1>6 DEF Looks, StoredIsWhole
  <2>4. ConfirmedIsWhole' /\ SweptIsUnknown' /\ BadIsNotWhole'
    BY <2>1, <1>4, <1>5, <1>6 DEF Looks, ConfirmedIsWhole, SweptIsUnknown, BadIsNotWhole
  <2>5. CompleteIsStored'
    <3> SUFFICES ASSUME NEW p \in Paths, file'[p].complete, NEW h \in file'[p].names
                 PROVE  chunk'[h].stored
      BY DEF CompleteIsStored
    <3>1. h \in file[p].names /\ h \in Chunks /\ h \in Known
      BY <1>3, <2>2 DEF Known
    <3>2. CASE p \in P
      BY <3>1, <3>2, <2>1, <1>2 DEF Unstored
    <3>3. CASE p \notin P
      BY <3>1, <3>3, <2>1, <1>2, <1>3 DEF Looks, CompleteIsStored
    <3> QED BY <3>2, <3>3
  <2>6. CommitIsCovered'
    <3> SUFFICES ASSUME NEW q \in Handlers, handler'[q].pc = "mark",
                        file'[handler'[q].path].born = handler'[q].born,
                        NEW h \in file'[handler'[q].path].names, h \in Known',
                        ~chunk'[h].stored
                 PROVE  h \in handler'[q].confirmed
      BY DEF CommitIsCovered, Unstored
    <3>1. q # r /\ handler'[q] = handler[q] /\ handler[q].path \in Paths
      BY <1>1, <1>4, <1>5 DEF BornBefore
    <3>2. h \in Unstored(file[handler[q].path].names)
      BY <3>1, <1>2, <1>3, <1>6, ZenonT(60) DEF Unstored, Known
    <3> QED BY <3>1, <3>2, <2>1, <1>3 DEF Looks, CommitIsCovered
  <2> QED BY <2>3, <2>4, <2>5, <2>6 DEF Looks
<1> QED BY <1>1, <1>6, <1>7, <1>8, <1>9, <1>10, <1>11, <1>12 DEF FInv, FileShape

LEMMA CompleteCheckKeeps == ASSUME FInv, NEW r \in Handlers, CompleteCheck(r) PROVE FInv'
<1> DEFINE marks == Unstored(handler[r].confirmed)
<1>1. /\ InOrder(handler[r]) /\ handler[r].born <= asked /\ handler[r].pc = "head"
      /\ raced \/ LooksTrue(handler[r])
  BY RequestSound DEF CompleteCheck
<1>2. UNCHANGED <<file, bucket, asked, raced>>
  BY DEF CompleteCheck
<1>3. /\ marks \in SUBSET Known /\ marks \in SUBSET Chunks /\ marks \subseteq handler[r].confirmed
      /\ raced \/ \A h \in marks : bucket[h] = "whole"
  BY <1>1 DEF Unstored, Known, LooksTrue
<1>4. ASSUME MayComplete(r), UNCHANGED chunk,
             Becomes(r, [handler[r] EXCEPT !.pc = "mark", !.confirmed = marks])
      PROVE  FInv'
  <2> DEFINE new == [handler[r] EXCEPT !.pc = "mark", !.confirmed = marks]
  <2> HIDE DEF marks
  <2>1. /\ new \in RequestState /\ new.pc = "mark" /\ new.path = handler[r].path
        /\ new.confirmed = marks /\ new.bad = handler[r].bad /\ new.born = handler[r].born
    BY <1>1, <1>3 DEF InOrder, RequestState
  <2>2. handler' = [handler EXCEPT ![r] = new]
    BY <1>4 DEF Becomes
  <2> HIDE DEF new
  <2>3. InOrder(new)
    BY <1>1, <1>3, <2>1 DEF InOrder
  <2>4. Unstored(file[handler[r].path].names) \subseteq marks
    BY <1>4 DEF MayComplete, Unstored, marks
  <2>5. raced \/ LooksTrue(new)
    BY <1>1, <1>3, <2>1, <2>4 DEF InOrder, LooksTrue
  <2> QED BY <1>1, <1>2, <1>4, <2>1, <2>2, <2>3, <2>5, RequestStep
<1>5. ASSUME chunk' = Marked(marks), Becomes(r, NoRequest)
      PROVE  FInv'
  <2>1. file' = [p \in Paths |-> IF p \in {} THEN [file[p] EXCEPT !.complete = TRUE] ELSE file[p]]
    BY <1>2 DEF FInv, FileShape
  <2>2. handler' = [handler EXCEPT ![r] = NoRequest]
    BY <1>5 DEF Becomes
  <2>3. {} \in SUBSET Paths /\ \A p \in {} : Unstored(file[p].names) \subseteq marks
    OBVIOUS
  <2> HIDE DEF marks
  <2> QED BY <1>2, <1>3, <1>5, <2>1, <2>2, <2>3, RowsMarked
<1> QED BY <1>4, <1>5, Zenon DEF CompleteCheck

LEMMA CompleteCommitKeeps == ASSUME FInv, NEW r \in Handlers, CompleteCommit(r) PROVE FInv'
<1> DEFINE M == handler[r].confirmed
           P == {p \in Paths : p = handler[r].path /\ file[p].born = handler[r].born}
<1>1. /\ InOrder(handler[r]) /\ handler[r].pc = "mark"
      /\ raced \/ LooksTrue(handler[r])
  BY RequestSound DEF CompleteCommit
<1>2. /\ M \in SUBSET Known /\ P \in SUBSET Paths
      /\ raced \/ \A h \in M : bucket[h] = "whole"
      /\ raced \/ \A p \in P : Unstored(file[p].names) \subseteq M
  BY <1>1 DEF InOrder, LooksTrue
<1>3. /\ chunk' = Marked(M) /\ handler' = [handler EXCEPT ![r] = NoRequest]
      /\ UNCHANGED <<bucket, asked, raced>>
  BY DEF CompleteCommit, Becomes
<1>4. file' = [p \in Paths |-> IF p \in P THEN [file[p] EXCEPT !.complete = TRUE] ELSE file[p]]
  BY DEF CompleteCommit
<1> HIDE DEF M, P
<1> QED BY <1>2, <1>3, <1>4, RowsMarked

LEMMA PutKeeps ==
  ASSUME FInv, NEW h \in Chunks, NEW o \in {"whole", "short"}, Put(h, o) PROVE FInv'
<1>1. FileShape /\ RefsMatchFiles /\ RowsAreClaimed /\ BornBefore /\ HandsInOrder
      /\ (raced \/ Looks)
  BY DEF FInv
<1>2. /\ UNCHANGED <<file, chunk, handler, asked>> /\ (o = "short" => bucket[h] = "absent")
      /\ raced' = (raced \/ \E q \in Handlers : h \in handler[q].bad)
  BY DEF Put
<1>3. /\ bucket' \in [Chunks -> {"absent", "short", "whole"}]
      /\ bucket'[h] = o /\ \A k \in Chunks \ {h} : bucket'[k] = bucket[k]
  BY <1>1 DEF Put, FileShape
<1>4. raced' \in BOOLEAN
  BY <1>1, <1>2, Zenon DEF FileShape
<1>5. FileShape' /\ RefsMatchFiles' /\ RowsAreClaimed' /\ BornBefore' /\ HandsInOrder'
  BY <1>1, <1>2, <1>3, <1>4
     DEF FileShape, RefsMatchFiles, RowsAreClaimed, BornBefore, HandsInOrder, Known
<1>6. ASSUME ~raced' PROVE Looks'
  <2>1. Looks /\ \A q \in Handlers : h \notin handler[q].bad
    BY <1>1, <1>2, <1>6, Zenon
  <2>2. Known' = Known /\ Known \subseteq Chunks /\ \A q \in Handlers : handler[q].bad \subseteq Chunks
    BY <1>1, <1>2 DEF Known, FileShape, RequestState
  <2>3. \A k \in Chunks : bucket[k] = "whole" => bucket'[k] = "whole"
    BY <1>2, <1>3
  <2>4. StoredIsWhole' /\ ConfirmedIsWhole' /\ SweptIsUnknown'
    BY <1>2, <2>1, <2>2, <2>3 DEF Looks, StoredIsWhole, ConfirmedIsWhole, SweptIsUnknown
  <2>5. BadIsNotWhole'
    BY <1>2, <1>3, <2>1, <2>2 DEF Looks, BadIsNotWhole
  <2>6. CompleteIsStored' /\ CommitIsCovered'
    BY <1>2, <2>1, <2>2 DEF Looks, CompleteIsStored, CommitIsCovered, Unstored
  <2> QED BY <2>4, <2>5, <2>6 DEF Looks
<1> QED BY <1>5, <1>6 DEF FInv

LEMMA ControlRestartKeeps == ASSUME FInv, ControlRestart PROVE FInv'
<1>1. FileShape /\ RefsMatchFiles /\ RowsAreClaimed /\ BornBefore /\ HandsInOrder
      /\ (raced \/ Looks)
  BY DEF FInv
<1>2. UNCHANGED <<file, chunk, bucket, asked, raced>> /\ \A r \in Handlers : handler'[r] = NoRequest
  BY DEF ControlRestart
<1>3. /\ NoRequest.pc = "idle" /\ NoRequest.confirmed = {} /\ NoRequest.bad = {}
      /\ NoRequest.born = 0 /\ NoRequest \in RequestState
  BY DEF NoRequest, RequestState
<1>4. handler' \in [Handlers -> RequestState]
  BY <1>3 DEF ControlRestart
<1>5. FileShape' /\ RefsMatchFiles' /\ RowsAreClaimed'
  BY <1>1, <1>2, <1>4 DEF FileShape, RefsMatchFiles, RowsAreClaimed
<1>6. BornBefore' /\ HandsInOrder'
  BY <1>1, <1>2, <1>3 DEF BornBefore, HandsInOrder, FileShape
<1>7. Looks => Looks'
  BY <1>2, <1>3 DEF Looks, StoredIsWhole, ConfirmedIsWhole, SweptIsUnknown, BadIsNotWhole,
                    CompleteIsStored, CommitIsCovered, Known
<1> QED BY <1>1, <1>2, <1>5, <1>6, <1>7 DEF FInv

LEMMA UnchangedKeeps ==
  ASSUME FInv, UNCHANGED <<file, chunk, bucket, handler, asked, raced>> PROVE FInv'
  BY DEF FInv, FileShape, RefsMatchFiles, RowsAreClaimed, BornBefore, HandsInOrder, Looks,
         StoredIsWhole, ConfirmedIsWhole, SweptIsUnknown, BadIsNotWhole, CompleteIsStored,
         CommitIsCovered, Known, Unstored

----------------------------------------------------------------------------
LEMMA StepKeepsFInv == FInv /\ [FileNext]_fileVars => FInv'
<1> SUFFICES ASSUME FInv, [FileNext]_fileVars PROVE FInv'
  OBVIOUS
<1>1. CASE UNCHANGED fileVars
  BY <1>1, UnchangedKeeps DEF fileVars
<1>2. ASSUME NEW r \in Handlers, NEW p \in Paths,
             \/ \E S \in SUBSET Chunks : PostManifest(r, p, S)
             \/ DeleteFile(r, p) \/ PostComplete(r, p)
      PROVE  FInv'
  BY <1>2, PostManifestKeeps, DeleteFileKeeps, PostCompleteKeeps
<1>3. ASSUME NEW r \in Handlers,
             \/ \E h \in Chunks : HeadObject(r, h)
             \/ Recheck(r) \/ Sweep(r) \/ CompleteRows(r) \/ Reject(r)
             \/ CompleteCheck(r) \/ CompleteCommit(r) \/ CompleteAborts(r)
      PROVE  FInv'
  BY <1>3, HeadObjectKeeps, RecheckKeeps, SweepKeeps, CompleteRowsKeeps, RejectKeeps,
     CompleteCheckKeeps, CompleteCommitKeeps, CompleteAbortsKeeps
<1>4. ASSUME NEW h \in Chunks, UploadUrl(h) \/ \E o \in {"whole", "short"} : Put(h, o)
      PROVE  FInv'
  BY <1>4, UnchangedKeeps, PutKeeps DEF UploadUrl
<1>5. CASE ControlRestart
  BY <1>5, ControlRestartKeeps
<1> QED BY <1>1, <1>2, <1>3, <1>4, <1>5 DEF FileNext

(* Every reachable state of the cloud files satisfies the inductive invariant. *)
THEOREM FInvHolds == FileSpec => []FInv
  BY InitFInv, StepKeepsFInv, PTL DEF FileSpec

(* Whatever manifests, replacements and deletions share its chunks and in    *)
(* whatever order they come, a chunk has a row with one reference for each   *)
(* file that names it: releaseHashes frees nothing a sibling still needs.    *)
THEOREM RefsMatchFilesAlways == FileSpec => []RefsMatchFiles
<1>1. FInv => RefsMatchFiles
  BY DEF FInv
<1> QED BY <1>1, FInvHolds, PTL

(* The receipt of a complete file is true: every chunk it names is marked    *)
(* and is whole in the object store, however the requests of the account     *)
(* overlap and wherever the process stops, unless a manifest or an upload    *)
(* came between another request's look and its act.                          *)
THEOREM CompleteIsReadableAlways == FileSpec => []CompleteIsReadable
<1>1. ASSUME FInv PROVE CompleteIsReadable
  <2>1. \A p \in Paths : \A h \in file[p].names : h \in Chunks /\ chunk[h].refs > 0
    <3>1. \A p \in Paths : file[p].names \subseteq Chunks
      BY <1>1 DEF FInv, FileShape, FileRow
    <3>2. \A p \in Paths : \A h \in Chunks : h \in file[p].names => chunk[h].refs > 0
      BY <1>1, NamedHasRow DEF FInv, RefsMatchFiles
    <3> QED BY <3>1, <3>2
  <2> QED BY <1>1, <2>1 DEF FInv, CompleteIsReadable, Looks, CompleteIsStored, StoredIsWhole, Known
<1> QED BY <1>1, FInvHolds, PTL

----------------------------------------------------------------------------
(* Cloud fetches: what a download, its events and the desktop's queue of     *)
(* tasks have to do with each other, so that a cancelled fetch stays out of  *)
(* Files.                                                                    *)

States == {"none"} \union Active \union Terminal

(* What the computer tells of a download, and the tasks that makes.          *)
Tidings == {"progress", "done", "failed", "stopped"}

Jobs == {"progress", "store", "failure", "stop"}

DeskRow ==
    [shown : States, pending : BOOLEAN, cancel : BOOLEAN, intent : BOOLEAN,
     start : {"none", "create", "undo", "report", "ctl", "fail", "over"},
     tail : Seq(Jobs), cancelling : {"no", "void", "stop"}, astray : {"no", "early", "lost"}]

FetchRow == [st : {"none", "asked", "running", "over"}, said : Nat]

TailOps == {"none", "fetching", "failed", "storing", "declare", "upload", "complete", "completed"}

AllOps == TailOps \union {"create", "cancelled", "list"}

CallRow == [op : AllOps, st : {"idle", "sent", "ok", "failed"}, view : States]

(* Only the queue of tasks asks for a file to be made complete.              *)
CallsOK(c) ==
    /\ c \in [Tasks -> CallRow]
    /\ c["tail"].op \in TailOps
    /\ \A t \in Tasks : t # "tail" => c[t].op # "complete"

FetchShape ==
    /\ transfer \in States /\ stored \in {"none", "declared", "uploaded", "complete"}
    /\ fetch \in FetchRow /\ events \in Seq(Tidings)
    /\ desk \in DeskRow /\ CallsOK(call)

Ending == {"store", "failure"}

(* A download ends once: nothing follows its last event, and the task that   *)
(* event makes is the only one of its kind.                                  *)
Ends(st, ev, tl, s) ==
    /\ s \in {"none", "create", "report", "undo"} => st = "none" /\ ev = <<>>
    /\ st # "over" => \A i \in DOMAIN ev : ev[i] = "progress"
    /\ \A i \in DOMAIN ev : ev[i] # "progress" => i = Len(ev)
    /\ \A i \in DOMAIN tl : tl[i] \in Ending =>
         /\ st = "over" /\ ev = <<>>
         /\ \A j \in DOMAIN tl : tl[j] \in Ending => j = i

(* The queue's call is that of the task at its head.                         *)
Uses(c, tl) ==
    /\ c.st = "idle" <=> c.op = "none"
    /\ c.st # "idle" => tl # <<>>
    /\ c.op \notin {"none", "fetching", "failed"} => tl[1] = "store"

(* Nothing is left that could store the file.                                *)
NoMore(d, st, ev) ==
    /\ d.start \notin {"none", "create", "report"}
    /\ st \in {"none", "over"} /\ ev = <<>>
    /\ \A i \in DOMAIN d.tail : d.tail[i] # "store"

(* The row was dismissed and nothing brings it back.                         *)
Gone(d) == d.shown = "none" /\ d.tail = <<>> /\ d.start = "over"

Held(d, st, ev) == d.cancel \/ NoMore(d, st, ev) \/ Gone(d)

CancelHolds ==
    wanted = "in time" /\ desk.astray = "no" =>
       stored # "complete" /\ call["tail"].op # "complete" /\ Held(desk, fetch.st, events)

CInv == /\ FetchShape /\ Ends(fetch.st, events, desk.tail, desk.start)
        /\ Uses(call["tail"], desk.tail) /\ CancelHolds

----------------------------------------------------------------------------
(* Queues.                                                                   *)

LEMMA DropFirst ==
  ASSUME NEW T, NEW s \in Seq(T), s # <<>>
  PROVE  /\ Tail(s) \in Seq(T) /\ Head(s) = s[1] /\ Head(s) \in T /\ 1 \in DOMAIN s
         /\ Len(s) \in Nat /\ DOMAIN s = 1..Len(s)
         /\ Len(Tail(s)) = Len(s) - 1
         /\ \A i \in DOMAIN Tail(s) : i + 1 \in DOMAIN s /\ Tail(s)[i] = s[i + 1] /\ i \in Nat
  OBVIOUS

LEMMA AddLast ==
  ASSUME NEW T, NEW s \in Seq(T), NEW x \in T
  PROVE  LET r == Append(s, x)
             z == Len(s) + 1 IN
         /\ r \in Seq(T) /\ r # <<>> /\ Len(r) = z /\ z \in DOMAIN r /\ r[z] = x
         /\ Len(s) \in Nat /\ DOMAIN s = 1..Len(s)
         /\ \A i \in DOMAIN s : i \in DOMAIN r /\ r[i] = s[i]
         /\ \A i \in DOMAIN r : i \in DOMAIN s \/ i = z
         /\ s # <<>> => r[1] = s[1]
<1> DEFINE r == Append(s, x)
<1>1. /\ Len(s) \in Nat /\ DOMAIN s = 1..Len(s) /\ r \in Seq(T) /\ Len(r) = Len(s) + 1
      /\ DOMAIN r = 1..(Len(s) + 1)
  OBVIOUS
<1>2. r[Len(s) + 1] = x /\ \A i \in 1..Len(s) : r[i] = s[i]
  OBVIOUS
<1>3. s # <<>> => 1 \in 1..Len(s)
  OBVIOUS
<1> HIDE DEF r
<1>4. r # <<>>
  BY <1>1
<1>5. /\ Len(s) + 1 \in DOMAIN r
      /\ \A i \in DOMAIN s : i \in DOMAIN r
      /\ \A i \in DOMAIN r : i \in DOMAIN s \/ i = Len(s) + 1
  BY <1>1
<1> QED BY <1>1, <1>2, <1>3, <1>4, <1>5 DEF r

(* A task is done.                                                           *)
LEMMA EndsDone ==
  ASSUME NEW st, NEW ev, NEW s, NEW tl \in Seq(Jobs), tl # <<>>, Ends(st, ev, tl, s)
  PROVE  /\ Ends(st, ev, Tail(tl), s)
         /\ tl[1] \in Ending => \A i \in DOMAIN Tail(tl) : Tail(tl)[i] \notin Ending
<1>1. \A i \in DOMAIN Tail(tl) : i + 1 \in DOMAIN tl /\ Tail(tl)[i] = tl[i + 1] /\ i \in Nat
  BY DropFirst
<1>2. ASSUME NEW i \in DOMAIN Tail(tl), NEW j \in DOMAIN Tail(tl), Tail(tl)[i] \in Ending, Tail(tl)[j] \in Ending
      PROVE  st = "over" /\ ev = <<>> /\ j = i
  <2>1. i + 1 \in DOMAIN tl /\ j + 1 \in DOMAIN tl /\ tl[i + 1] \in Ending /\ tl[j + 1] \in Ending
    BY <1>1, <1>2
  <2>2. st = "over" /\ ev = <<>> /\ j + 1 = i + 1
    BY <2>1 DEF Ends
  <2> QED BY <1>1, <2>2
<1>3. ASSUME tl[1] \in Ending, NEW i \in DOMAIN Tail(tl) PROVE Tail(tl)[i] \notin Ending
  <2>1. i + 1 \in DOMAIN tl /\ Tail(tl)[i] = tl[i + 1] /\ i \in Nat /\ i >= 1 /\ 1 \in DOMAIN tl
    <3>1. Tail(tl) \in Seq(Jobs) /\ 1 \in DOMAIN tl
      BY DropFirst
    <3> QED BY <1>1, <3>1
  <2>2. i + 1 # 1
    BY <2>1
  <2> QED BY <1>3, <2>1, <2>2 DEF Ends
<1> QED BY <1>2, <1>3 DEF Ends

(* A task that does not end the transfer is queued.                          *)
LEMMA EndsQueued ==
  ASSUME NEW st, NEW ev, NEW s, NEW tl \in Seq(Jobs), NEW k \in Jobs, k \notin Ending, Ends(st, ev, tl, s)
  PROVE  Ends(st, ev, Append(tl, k), s)
<1>1. PICK r \in Seq(Jobs) : r = Append(tl, k)
  BY AddLast
<1>2. \A i \in DOMAIN r : r[i] \in Ending => i \in DOMAIN tl /\ r[i] = tl[i]
  BY <1>1, AddLast
<1>3. Ends(st, ev, r, s)
  BY <1>2 DEF Ends
<1> QED BY <1>1, <1>3

(* An event is taken.                                                        *)
LEMMA EndsTaken ==
  ASSUME NEW st, NEW s, NEW tl \in Seq(Jobs), NEW ev \in Seq(Tidings), ev # <<>>, Ends(st, ev, tl, s)
  PROVE  /\ Ends(st, Tail(ev), tl, s)
         /\ Head(ev) # "progress" => /\ Tail(ev) = <<>> /\ st = "over"
                                     /\ \A i \in DOMAIN tl : tl[i] \notin Ending
<1>1. /\ Tail(ev) \in Seq(Tidings) /\ Head(ev) = ev[1] /\ 1 \in DOMAIN ev
      /\ Len(ev) \in Nat /\ DOMAIN ev = 1..Len(ev) /\ Len(Tail(ev)) = Len(ev) - 1
      /\ \A i \in DOMAIN Tail(ev) : i + 1 \in DOMAIN ev /\ Tail(ev)[i] = ev[i + 1] /\ i \in Nat
  BY DropFirst
<1>2. s \notin {"none", "create", "report", "undo"}
  BY DEF Ends
<1>3. \A i \in DOMAIN tl : tl[i] \notin Ending
  BY DEF Ends
<1>4. st # "over" => \A i \in DOMAIN Tail(ev) : Tail(ev)[i] = "progress"
  BY <1>1 DEF Ends
<1>5. ASSUME NEW i \in DOMAIN Tail(ev), Tail(ev)[i] # "progress" PROVE i = Len(Tail(ev))
  <2>1. i + 1 = Len(ev)
    BY <1>1, <1>5 DEF Ends
  <2> QED BY <1>1, <2>1
<1>6. ASSUME Head(ev) # "progress" PROVE Tail(ev) = <<>> /\ st = "over"
  <2>1. 1 = Len(ev) /\ st = "over"
    BY <1>1, <1>6 DEF Ends
  <2>2. PICK r \in Seq(Tidings) : r = Tail(ev)
    BY <1>1
  <2>3. Len(r) = 0
    <3> HIDE DEF Ends
    <3>1. Len(r) = Len(ev) - 1
      BY <1>1, <2>2
    <3> QED BY <2>1, <3>1
  <2>4. r = <<>>
    BY <2>3
  <2> QED BY <2>1, <2>2, <2>4
<1> QED BY <1>2, <1>3, <1>4, <1>5, <1>6 DEF Ends

(* The last event is taken and makes its task.                               *)
LEMMA EndsMade ==
  ASSUME NEW s, s \notin {"none", "create", "report", "undo"}, NEW tl \in Seq(Jobs),
         \A i \in DOMAIN tl : tl[i] \notin Ending, NEW k \in Jobs
  PROVE  Ends("over", <<>>, Append(tl, k), s)
<1>1. PICK r \in Seq(Jobs) : r = Append(tl, k)
  BY AddLast
<1>2. \A i \in DOMAIN r : r[i] \in Ending => i = Len(tl) + 1
  BY <1>1, AddLast
<1>3. Ends("over", <<>>, r, s)
  BY <1>2 DEF Ends
<1> QED BY <1>1, <1>3

(* An event is put out; the last one ends the download.                      *)
LEMMA EndsPutOut ==
  ASSUME NEW s, NEW tl \in Seq(Jobs), NEW ev \in Seq(Tidings), NEW e \in Tidings, Ends("running", ev, tl, s)
  PROVE  /\ Ends("over", Append(ev, e), tl, s)
         /\ e = "progress" => Ends("running", Append(ev, e), tl, s)
<1>1. PICK r \in Seq(Tidings) : r = Append(ev, e)
  BY AddLast
<1>2. /\ Len(r) = Len(ev) + 1 /\ r[Len(ev) + 1] = e
      /\ \A i \in DOMAIN r : i = Len(ev) + 1 \/ (i \in DOMAIN ev /\ r[i] = ev[i])
  BY <1>1, AddLast
<1>3. s \notin {"none", "create", "report", "undo"} /\ \A i \in DOMAIN ev : ev[i] = "progress"
  BY DEF Ends
<1>4. \A i \in DOMAIN tl : tl[i] \notin Ending
  BY DEF Ends
<1>5. \A i \in DOMAIN r : r[i] # "progress" => i = Len(r)
  BY <1>2, <1>3
<1>6. e = "progress" => \A i \in DOMAIN r : r[i] = "progress"
  BY <1>2, <1>3
<1>7. Ends("over", r, tl, s) /\ (e = "progress" => Ends("running", r, tl, s))
  BY <1>3, <1>4, <1>5, <1>6 DEF Ends
<1> QED BY <1>1, <1>7

----------------------------------------------------------------------------
(* Calls.                                                                    *)

LEMMA SentCall ==
  ASSUME NEW c, CallsOK(c), NEW t \in Tasks, t # "tail", NEW op \in AllOps, op # "complete"
  PROVE  CallsOK(Sent(c, t, op)) /\ Sent(c, t, op)["tail"] = c["tail"]
<1> DEFINE r == [op |-> op, st |-> "sent", view |-> "none"]
<1>1. r \in CallRow /\ r.op # "complete"
  BY DEF CallRow, States
<1>2. "tail" \in Tasks
  BY DEF Tasks
<1> HIDE DEF r
<1>3. Sent(c, t, op) = [c EXCEPT ![t] = r]
  BY DEF Sent, r
<1> QED BY <1>1, <1>2, <1>3 DEF CallsOK

LEMMA SentTail ==
  ASSUME NEW c, CallsOK(c), NEW op \in TailOps
  PROVE  /\ CallsOK(Sent(c, "tail", op))
         /\ Sent(c, "tail", op)["tail"].op = op /\ Sent(c, "tail", op)["tail"].st = "sent"
<1> DEFINE r == [op |-> op, st |-> "sent", view |-> "none"]
<1>1. r \in CallRow /\ r.op = op /\ r.st = "sent"
  BY DEF CallRow, States, AllOps
<1>2. "tail" \in Tasks
  BY DEF Tasks
<1> HIDE DEF r
<1>3. Sent(c, "tail", op) = [c EXCEPT !["tail"] = r]
  BY DEF Sent, r
<1> QED BY <1>1, <1>2, <1>3 DEF CallsOK

LEMMA HungCall ==
  ASSUME CallsOK(call), NEW t \in Tasks
  PROVE  /\ CallsOK(Hung(t)) /\ (t # "tail" => Hung(t)["tail"] = call["tail"])
         /\ t = "tail" => Hung(t)["tail"].op = "none" /\ Hung(t)["tail"].st = "idle"
<1>1. NoCall \in CallRow /\ NoCall.op = "none" /\ NoCall.st = "idle"
  BY DEF NoCall, CallRow, States, AllOps, TailOps
<1>2. "tail" \in Tasks /\ "none" \in TailOps
  BY DEF Tasks, TailOps
<1> QED BY <1>1, <1>2 DEF CallsOK, Hung

LEMMA CancelCall ==
  ASSUME NEW c, CallsOK(c)
  PROVE  CallsOK(DurableCancel(c)) /\ DurableCancel(c)["tail"] = c["tail"]
<1>1. "cancel" \in Tasks /\ "cancelled" \in AllOps
  BY DEF Tasks, AllOps
<1> QED BY <1>1, SentCall DEF DurableCancel

----------------------------------------------------------------------------
(* Steps that leave the queue, the download and its events alone.            *)

DeskKept == /\ fetch' = fetch /\ events' = events /\ stored' = stored
            /\ transfer' \in States /\ desk' \in DeskRow /\ CallsOK(call')
            /\ call'["tail"] = call["tail"] /\ desk'.tail = desk.tail
            /\ desk'.start \in {"none", "create", "report", "undo"}
                 => desk.start \in {"none", "create", "report", "undo"}

LEMMA DeskStep ==
  ASSUME CInv, DeskKept,
         wanted' = "in time" /\ desk'.astray = "no" =>
            stored # "complete" /\ call["tail"].op # "complete" /\ Held(desk', fetch.st, events)
  PROVE  CInv'
<1>1. FetchShape'
  BY DEF CInv, FetchShape, DeskKept
<1>2. Ends(fetch.st, events, desk.tail, desk.start)'
  BY DEF CInv, Ends, DeskKept
<1>3. Uses(call["tail"], desk.tail)'
  BY DEF CInv, Uses, DeskKept
<1>4. CancelHolds'
  BY DEF CancelHolds, DeskKept
<1> QED BY <1>1, <1>2, <1>3, <1>4 DEF CInv

(* ... nor clear a cancellation.                                             *)
DeskSame(d, e) ==
    /\ d.cancel => e.cancel
    /\ e.astray = "no" => d.astray = "no"
    /\ e.start \in {"none", "create", "report"} => d.start \in {"none", "create", "report"}
    /\ d.start = "over" /\ d.shown = "none" => e.start = "over" /\ e.shown = "none"

LEMMA DeskStays ==
  ASSUME CInv, DeskKept, DeskSame(desk, desk'), wanted' = wanted
  PROVE  CInv'
<1>1. Held(desk, fetch.st, events) => Held(desk', fetch.st, events)
  BY DEF Held, NoMore, Gone, DeskSame, DeskKept
<1> QED BY <1>1, DeskStep DEF CInv, CancelHolds, DeskSame

(* The control plane, and the computer.                                      *)
LEMMA ServeKeeps == ASSUME CInv, NEW t \in Tasks \ {"list"}, Serve(t) PROVE CInv'
<1>1. call \in [Tasks -> CallRow] /\ call[t] \in CallRow /\ t \in Tasks /\ "tail" \in Tasks
  BY DEF CInv, FetchShape, CallsOK, Tasks
<1>2. transfer' \in States /\ stored' \in {"none", "declared", "uploaded", "complete"}
  <2>1. CASE CarryOut(t)
    <3>1. Refused(call[t].op) \/ TransferAfter(call[t].op) \in States
      <4>1. \A op : <<transfer, op>> \in Moves => op \in States
        BY DEF Moves, States, Active, Terminal
      <4>2. transfer \in States /\ "queued" \in States
        BY DEF CInv, FetchShape, States, Active
      <4> QED BY <4>1, <4>2 DEF Refused, TransferAfter
    <3>2. transfer \in States /\ stored \in {"none", "declared", "uploaded", "complete"}
      BY DEF CInv, FetchShape
    <3>3. StoredAfter(call[t].op) \in {"none", "declared", "uploaded", "complete"}
      BY <3>2 DEF StoredAfter
    <3> QED BY <2>1, <3>1, <3>2, <3>3 DEF CarryOut
  <2>2. CASE UNCHANGED <<transfer, stored>>
    BY <2>2 DEF CInv, FetchShape
  <2> QED BY <2>1, <2>2 DEF Serve
<1>3. stored' = "complete" => stored = "complete" \/ (t = "tail" /\ call["tail"].op = "complete")
  <2>1. StoredAfter(call[t].op) = "complete" => stored = "complete" \/ call[t].op = "complete"
    BY DEF StoredAfter
  <2>2. call[t].op = "complete" => t = "tail"
    BY DEF CInv, FetchShape, CallsOK
  <2> QED BY <2>1, <2>2 DEF Serve, CarryOut
<1>4. PICK s \in {"ok", "failed"}, v \in States : call' = [call EXCEPT ![t].st = s, ![t].view = v]
  <2>1. ASSUME NEW s \in {"ok", "failed"}, call' = [call EXCEPT ![t].st = s]
        PROVE  call' = [call EXCEPT ![t].st = s, ![t].view = call[t].view]
    BY <1>1, <2>1 DEF CallRow
  <2>2. call[t].view \in States
    BY <1>1 DEF CallRow
  <2>3. call[t].st = "sent" /\
        (\/ call' = [call EXCEPT ![t].st = IF Refused(call[t].op) THEN "failed" ELSE "ok", ![t].view = transfer']
         \/ call' = [call EXCEPT ![t].st = "failed"])
    BY DEF Serve
  <2> QED BY <1>2, <2>1, <2>2, <2>3
<1> DEFINE r == [call[t] EXCEPT !.st = s, !.view = v]
<1>5. call' = [call EXCEPT ![t] = r]
  BY <1>1, <1>4
<1>6. r \in CallRow /\ r.op = call[t].op /\ r.st = s /\ call[t].st = "sent"
  BY <1>1 DEF CallRow, Serve
<1> HIDE DEF r
<1>7. CallsOK(call')
  BY <1>1, <1>5, <1>6 DEF CInv, FetchShape, CallsOK
<1>8. call'["tail"].op = call["tail"].op /\ (call'["tail"].st = "idle" <=> call["tail"].st = "idle")
  BY <1>1, <1>5, <1>6
<1>9. fetch' = fetch /\ events' = events /\ desk' = desk /\ wanted' = wanted
  BY DEF Serve
<1>10. FetchShape'
  BY <1>2, <1>7, <1>9 DEF CInv, FetchShape
<1>11. Ends(fetch.st, events, desk.tail, desk.start)'
  BY <1>9 DEF CInv, Ends
<1>12. Uses(call["tail"], desk.tail)'
  BY <1>8, <1>9 DEF CInv, Uses
<1>13. CancelHolds'
  BY <1>3, <1>8, <1>9 DEF CInv, CancelHolds
<1> QED BY <1>10, <1>11, <1>12, <1>13 DEF CInv

LEMMA ElsewhereKeeps == ASSUME CInv, CancelElsewhere PROVE CInv'
<1>1. transfer' \in States /\ UNCHANGED <<stored, fetch, events, desk, call, wanted>>
  BY DEF CancelElsewhere, States, Terminal
<1>2. DeskKept /\ DeskSame(desk, desk') /\ wanted' = wanted
  BY <1>1 DEF DeskKept, DeskSame, CInv, FetchShape
<1> QED BY <1>2, DeskStays

(* The download and its events.                                              *)
LEMMA FetchStep ==
  ASSUME CInv, UNCHANGED <<transfer, stored, desk, call, wanted>>, fetch' \in FetchRow,
         events' \in Seq(Tidings),
         Ends(fetch'.st, events', desk.tail, desk.start),
         NoMore(desk, fetch.st, events) => NoMore(desk, fetch'.st, events')
  PROVE  CInv'
<1>1. FetchShape'
  BY DEF CInv, FetchShape
<1>2. Ends(fetch.st, events, desk.tail, desk.start)'
  BY DEF CInv, Ends
<1>3. Uses(call["tail"], desk.tail)'
  BY DEF CInv, Uses
<1>4. CancelHolds'
  BY DEF CInv, CancelHolds, Held, NoMore
<1> QED BY <1>1, <1>2, <1>3, <1>4 DEF CInv

LEMMA FetchMoves ==
  ASSUME CInv, FetchStarts \/ FetchProgress \/ (\E e \in {"done", "failed"} : FetchEnds(e)) \/ LinkDrops
  PROVE  CInv'
<1>1. /\ fetch \in FetchRow /\ events \in Seq(Tidings) /\ desk \in DeskRow /\ desk.tail \in Seq(Jobs)
      /\ Ends(fetch.st, events, desk.tail, desk.start)
  BY DEF CInv, FetchShape, DeskRow
<1>2. UNCHANGED <<transfer, stored, desk, call, wanted>>
  BY DEF FetchStarts, FetchProgress, FetchEnds, LinkDrops
<1>3. CASE FetchStarts
  <2>1. fetch' \in FetchRow /\ fetch'.st = "running" /\ fetch.st = "asked" /\ events' = events
    BY <1>1, <1>3 DEF FetchStarts, FetchRow
  <2>2. Ends(fetch'.st, events', desk.tail, desk.start)
    BY <1>1, <2>1 DEF Ends
  <2> QED BY <1>1, <1>2, <2>1, <2>2, FetchStep DEF NoMore
<1>4. CASE FetchProgress
  <2>1. fetch' \in FetchRow /\ fetch'.st = "running" /\ fetch.st = "running" /\ events' = Append(events, "progress")
    BY <1>1, <1>4 DEF FetchProgress, FetchRow
  <2>2. "progress" \in Tidings /\ Append(events, "progress") \in Seq(Tidings)
    BY <1>1, AddLast DEF Tidings
  <2>3. Ends("running", events, desk.tail, desk.start)
    BY <1>1, <2>1
  <2>4. Ends("running", Append(events, "progress"), desk.tail, desk.start)
    BY <1>1, <2>2, <2>3, EndsPutOut
  <2> QED BY <1>2, <2>1, <2>2, <2>4, FetchStep DEF NoMore
<1>5. ASSUME NEW e \in {"done", "failed"}, FetchEnds(e) PROVE CInv'
  <2>1. fetch' \in FetchRow /\ fetch'.st = "over" /\ fetch.st = "running" /\ events' = Append(events, e)
    BY <1>1, <1>5 DEF FetchEnds, FetchRow
  <2>2. e \in Tidings /\ Append(events, e) \in Seq(Tidings)
    BY <1>1, AddLast DEF Tidings
  <2>3. Ends("running", events, desk.tail, desk.start)
    BY <1>1, <2>1
  <2>4. Ends("over", Append(events, e), desk.tail, desk.start)
    BY <1>1, <2>2, <2>3, EndsPutOut
  <2> QED BY <1>2, <2>1, <2>2, <2>4, FetchStep DEF NoMore
<1>6. CASE LinkDrops
  <2>1. PICK s : s = IF fetch.st = "asked" THEN "none" ELSE fetch.st
    OBVIOUS
  <2>2. fetch' = [fetch EXCEPT !.st = s] /\ events' = <<>>
    BY <1>6, <2>1 DEF LinkDrops
  <2>3. fetch' \in FetchRow /\ fetch'.st = s /\ <<>> \in Seq(Tidings)
    BY <1>1, <2>1, <2>2 DEF FetchRow
  <2>4. Ends(s, <<>>, desk.tail, desk.start)
    BY <1>1, <2>1 DEF Ends
  <2> QED BY <1>2, <2>1, <2>2, <2>3, <2>4, FetchStep DEF NoMore
<1> QED BY <1>3, <1>4, <1>5, <1>6

(* ---- the desktop starts a fetch ----                                      *)

LEMMA StartKeeps == ASSUME CInv, StartCloudFetch PROVE CInv'
<1>1. desk \in DeskRow /\ CallsOK(call) /\ transfer \in States
  BY DEF CInv, FetchShape
<1>2. /\ desk' \in DeskRow /\ desk'.tail = desk.tail /\ desk'.start = "create" /\ desk.start = "none"
      /\ desk'.cancel = desk.cancel /\ desk'.astray = desk.astray
  BY <1>1 DEF StartCloudFetch, DeskRow, States, Active
<1>3. CallsOK(call') /\ call'["tail"] = call["tail"]
  BY <1>1, SentCall DEF StartCloudFetch, Tasks, AllOps
<1>4. DeskKept /\ DeskSame(desk, desk') /\ wanted' = wanted
  BY <1>1, <1>2, <1>3 DEF DeskKept, DeskSame, StartCloudFetch
<1> QED BY <1>4, DeskStays

LEMMA CreatedKeeps == ASSUME CInv, StartCreated PROVE CInv'
<1>1. /\ desk \in DeskRow /\ CallsOK(call) /\ transfer \in States /\ desk.start = "create"
      /\ fetch.st = "none" /\ events = <<>>
      /\ UNCHANGED <<transfer, stored, fetch, events, wanted>>
      /\ Ends(fetch.st, events, desk.tail, desk.start)
  BY DEF CInv, FetchShape, StartCreated, Ends
<1>2. call["start"].view \in States /\ "start" \in Tasks
  BY <1>1 DEF CallsOK, CallRow, Tasks
<1>3. CallsOK(Hung("start")) /\ Hung("start")["tail"] = call["tail"]
  BY <1>1, <1>2, HungCall
<1>4. CASE /\ desk' = [desk EXCEPT !.pending = FALSE, !.cancel = TRUE, !.shown = "cancelled",
                                   !.intent = TRUE, !.start = "undo"]
           /\ call' = DurableCancel(Hung("start"))
  <2>1. /\ desk' \in DeskRow /\ desk'.tail = desk.tail /\ desk'.start = "undo"
        /\ desk'.cancel /\ desk'.astray = desk.astray
    BY <1>1, <1>4 DEF DeskRow, States, Terminal
  <2>2. CallsOK(call') /\ call'["tail"] = call["tail"]
    BY <1>3, <1>4, CancelCall
  <2>3. DeskKept /\ DeskSame(desk, desk') /\ wanted' = wanted
    BY <1>1, <2>1, <2>2 DEF DeskKept, DeskSame
  <2> QED BY <2>3, DeskStays
<1>5. CASE /\ desk' = [desk EXCEPT !.pending = FALSE, !.shown = call["start"].view, !.start = "report"]
           /\ call' = Sent(call, "start", "fetching")
  <2>1. /\ desk' \in DeskRow /\ desk'.tail = desk.tail /\ desk'.start = "report"
        /\ desk'.cancel = desk.cancel /\ desk'.astray = desk.astray
    BY <1>1, <1>2, <1>5 DEF DeskRow
  <2>2. CallsOK(call') /\ call'["tail"] = call["tail"]
    BY <1>1, <1>2, <1>5, SentCall DEF AllOps, TailOps
  <2>3. DeskKept /\ DeskSame(desk, desk') /\ wanted' = wanted
    BY <1>1, <2>1, <2>2 DEF DeskKept, DeskSame
  <2> QED BY <2>3, DeskStays
<1>6. CASE /\ desk' = [desk EXCEPT !.pending = FALSE, !.cancel = FALSE, !.shown = "none", !.start = "over",
                                   !.astray = IF transfer = "none" THEN @ ELSE "lost"]
           /\ call' = Hung("start")
  <2>1. /\ desk' \in DeskRow /\ desk'.tail = desk.tail /\ desk'.start = "over"
        /\ (desk'.astray = "no" => desk.astray = "no")
    BY <1>1, <1>6 DEF DeskRow, States
  <2>2. DeskKept /\ wanted' = wanted
    BY <1>1, <1>3, <1>6, <2>1 DEF DeskKept
  <2>3. NoMore(desk', fetch.st, events)
    <3>1. \A i \in DOMAIN desk.tail : desk.tail[i] \notin Ending
      BY <1>1 DEF Ends
    <3> QED BY <1>1, <2>1, <3>1 DEF NoMore, Ending
  <2> QED BY <2>1, <2>2, <2>3, DeskStep DEF CInv, CancelHolds, Held
<1> QED BY <1>4, <1>5, <1>6 DEF StartCreated

LEMMA UndoneKeeps == ASSUME CInv, StartUndone PROVE CInv'
<1>1. /\ desk \in DeskRow /\ CallsOK(call) /\ transfer \in States /\ desk.start = "undo"
      /\ fetch.st = "none" /\ events = <<>> /\ Ends(fetch.st, events, desk.tail, desk.start)
  BY DEF CInv, FetchShape, StartUndone, Ends
<1>2. /\ desk' \in DeskRow /\ desk'.tail = desk.tail /\ desk'.start = "over"
      /\ desk'.astray = desk.astray
  BY <1>1 DEF StartUndone, DeskRow
<1>3. DeskKept /\ wanted' = wanted
  BY <1>1, <1>2 DEF DeskKept, StartUndone
<1>4. NoMore(desk', fetch.st, events)
  <2>1. \A i \in DOMAIN desk.tail : desk.tail[i] \notin Ending
    BY <1>1 DEF Ends
  <2> QED BY <1>1, <1>2, <2>1 DEF NoMore, Ending
<1> QED BY <1>2, <1>3, <1>4, DeskStep DEF CInv, CancelHolds, Held

(* The start ends, or its failure is reported.                               *)
LEMMA FailsKeeps ==
  ASSUME CInv, desk.start \notin {"none", "create", "over"}, StartFails(desk),
         UNCHANGED <<transfer, stored, fetch, events, wanted>>
  PROVE  CInv'
<1>1. desk \in DeskRow /\ CallsOK(call) /\ transfer \in States /\ "start" \in Tasks
  BY DEF CInv, FetchShape, Tasks
<1>2. PICK s \in {"over", "fail"} : desk' = [desk EXCEPT !.start = s]
  BY DEF StartFails
<1>3. /\ desk' \in DeskRow /\ desk'.tail = desk.tail /\ desk'.start = s /\ desk'.cancel = desk.cancel
      /\ desk'.astray = desk.astray /\ desk'.shown = desk.shown
  BY <1>1, <1>2 DEF DeskRow
<1>4. CallsOK(call') /\ call'["tail"] = call["tail"]
  <2>1. "failed" \in AllOps
    BY DEF AllOps, TailOps
  <2>2. call' = Hung("start") \/ call' = Sent(call, "start", "failed")
    BY DEF StartFails
  <2> QED BY <1>1, <2>1, <2>2, HungCall, SentCall
<1>5. DeskKept /\ DeskSame(desk, desk') /\ wanted' = wanted
  BY <1>1, <1>3, <1>4 DEF DeskKept, DeskSame
<1> QED BY <1>5, DeskStays

LEMMA ReportedKeeps == ASSUME CInv, StartReported PROVE CInv'
<1>1. /\ desk \in DeskRow /\ CallsOK(call) /\ transfer \in States /\ "start" \in Tasks
      /\ fetch \in FetchRow /\ desk.start = "report" /\ fetch.st = "none" /\ events = <<>>
      /\ Ends(fetch.st, events, desk.tail, desk.start)
      /\ UNCHANGED <<transfer, stored, events, wanted>>
  BY DEF CInv, FetchShape, StartReported, Ends, Tasks
<1>2. CASE StartFails(desk) /\ UNCHANGED fetch
  BY <1>1, <1>2, FailsKeeps
<1>3. CASE /\ ~IsAgentCancelled(desk)
           /\ desk' = [desk EXCEPT !.shown = call["start"].view, !.start = "ctl"]
           /\ call' = Hung("start")
           /\ fetch' = [fetch EXCEPT !.st = "asked"]
  <2>1. call["start"].view \in States
    BY <1>1 DEF CallsOK, CallRow
  <2>2. /\ desk' \in DeskRow /\ desk'.tail = desk.tail /\ desk'.start = "ctl"
        /\ desk'.astray = desk.astray /\ desk'.cancel = desk.cancel
    BY <1>1, <1>3, <2>1 DEF DeskRow
  <2>3. CallsOK(call') /\ call'["tail"] = call["tail"]
    BY <1>1, <1>3, HungCall
  <2>4. fetch' \in FetchRow /\ fetch'.st = "asked"
    BY <1>1, <1>3 DEF FetchRow
  <2>5. FetchShape'
    BY <1>1, <2>2, <2>3, <2>4 DEF CInv, FetchShape
  <2>6. Ends("asked", <<>>, desk.tail, "ctl")
    BY <1>1 DEF Ends
  <2>7. Ends(fetch'.st, events', desk'.tail, desk'.start)
    BY <1>1, <2>2, <2>4, <2>6
  <2>8. Uses(call["tail"], desk.tail)'
    BY <2>2, <2>3 DEF CInv, Uses
  <2>9. ~Held(desk, fetch.st, events)
    BY <1>1, <1>3 DEF Held, NoMore, Gone, IsAgentCancelled
  <2>10. CancelHolds'
    BY <1>1, <2>2, <2>9 DEF CInv, CancelHolds
  <2> QED BY <2>5, <2>7, <2>8, <2>10 DEF CInv
<1> QED BY <1>2, <1>3 DEF StartReported

LEMMA AnsweredKeeps == ASSUME CInv, StartAnswered PROVE CInv'
<1>1. desk.start = "ctl" /\ UNCHANGED <<transfer, stored, fetch, events, wanted>>
  BY DEF StartAnswered
<1>2. CASE StartFails(desk)
  BY <1>1, <1>2, FailsKeeps
<1>3. CASE desk' = [desk EXCEPT !.start = "over"] /\ UNCHANGED call
  <2>1. desk \in DeskRow /\ CallsOK(call) /\ transfer \in States
    BY DEF CInv, FetchShape
  <2>2. /\ desk' \in DeskRow /\ desk'.tail = desk.tail /\ desk'.start = "over" /\ desk'.cancel = desk.cancel
        /\ desk'.astray = desk.astray /\ desk'.shown = desk.shown
    BY <1>3, <2>1 DEF DeskRow
  <2>3. DeskKept /\ DeskSame(desk, desk') /\ wanted' = wanted
    BY <1>1, <1>3, <2>1, <2>2 DEF DeskKept, DeskSame
  <2> QED BY <2>3, DeskStays
<1> QED BY <1>2, <1>3 DEF StartAnswered

LEMMA FailedKeeps == ASSUME CInv, StartFailed PROVE CInv'
<1>1. /\ desk \in DeskRow /\ CallsOK(call) /\ transfer \in States /\ "start" \in Tasks /\ desk.start = "fail"
      /\ UNCHANGED <<transfer, stored, fetch, events, wanted>>
  BY DEF CInv, FetchShape, Tasks, StartFailed
<1>2. call["start"].view \in States /\ "failed" \in States
  BY <1>1 DEF CallsOK, CallRow, States, Terminal
<1>3. PICK v \in States : desk' = [desk EXCEPT !.shown = v, !.start = "over"]
  <2>1. CASE call["start"].st = "ok"
    BY <1>2, <2>1 DEF StartFailed
  <2>2. CASE call["start"].st # "ok" /\ desk.shown # "none"
    BY <1>2, <2>2 DEF StartFailed, Settled
  <2>3. CASE call["start"].st # "ok" /\ desk.shown = "none"
    <3>1. desk' = [desk EXCEPT !.start = "over"] /\ desk.shown \in States
      BY <1>1, <2>3 DEF StartFailed, Settled, DeskRow
    <3>2. desk' = [desk EXCEPT !.shown = desk.shown, !.start = "over"]
      BY <1>1, <3>1 DEF DeskRow
    <3> QED BY <3>1, <3>2
  <2> QED BY <2>1, <2>2, <2>3
<1>4. /\ desk' \in DeskRow /\ desk'.tail = desk.tail /\ desk'.start = "over" /\ desk'.cancel = desk.cancel
      /\ desk'.astray = desk.astray
  BY <1>1, <1>3 DEF DeskRow
<1>5. CallsOK(call') /\ call'["tail"] = call["tail"]
  BY <1>1, HungCall DEF StartFailed
<1>6. DeskKept /\ DeskSame(desk, desk') /\ wanted' = wanted
  BY <1>1, <1>4, <1>5 DEF DeskKept, DeskSame
<1> QED BY <1>6, DeskStays

(* ---- the computer's events ----                                           *)

LEMMA AddTask ==
  ASSUME NEW tl \in Seq(Jobs), NEW k \in Jobs
  PROVE  /\ Append(tl, k) \in Seq(Jobs) /\ Append(tl, k) # <<>>
         /\ tl # <<>> => Append(tl, k)[1] = tl[1]
  BY AddLast

LEMMA EventTaken ==
  ASSUME CInv, events # <<>>
  PROVE  /\ Ends(fetch.st, Tail(events), desk.tail, desk.start)
         /\ Head(events) # "progress" => /\ Tail(events) = <<>> /\ fetch.st = "over"
                                         /\ \A i \in DOMAIN desk.tail : desk.tail[i] \notin Ending
<1>1. events \in Seq(Tidings) /\ desk.tail \in Seq(Jobs) /\ Ends(fetch.st, events, desk.tail, desk.start)
  BY DEF CInv, FetchShape, DeskRow
<1> QED BY <1>1, EndsTaken

LEMMA EventStep ==
  ASSUME CInv, events # <<>>, events' = Tail(events), UNCHANGED <<transfer, stored, fetch, wanted>>,
         desk' \in DeskRow, desk'.start = desk.start, desk'.astray = desk.astray,
         CallsOK(call'), call'["tail"] = call["tail"],
         \/ desk'.tail = desk.tail
         \/ \E k \in Jobs : /\ desk'.tail = Append(desk.tail, k)
                            /\ k \in Ending => Head(events) # "progress",
         wanted = "in time" /\ desk.astray = "no" => Held(desk', fetch.st, Tail(events))
  PROVE  CInv'
<1>1. /\ events \in Seq(Tidings) /\ desk.tail \in Seq(Jobs) /\ Ends(fetch.st, events, desk.tail, desk.start)
      /\ Uses(call["tail"], desk.tail)
  BY DEF CInv, FetchShape, DeskRow
<1>2. Tail(events) \in Seq(Tidings)
  BY <1>1, DropFirst
<1>3. FetchShape'
  <2>1. events' \in Seq(Tidings)
    BY <1>2
  <2>2. fetch' \in FetchRow /\ transfer' \in States /\ stored' \in {"none", "declared", "uploaded", "complete"}
    BY DEF CInv, FetchShape
  <2> QED BY <2>1, <2>2 DEF FetchShape
<1>4. /\ Ends(fetch.st, Tail(events), desk.tail, desk.start)
      /\ Head(events) # "progress" => /\ Tail(events) = <<>> /\ fetch.st = "over"
                                      /\ \A i \in DOMAIN desk.tail : desk.tail[i] \notin Ending
  BY EventTaken
<1>5. desk.start \notin {"none", "create", "report", "undo"}
  BY <1>1 DEF Ends
<1>6. Ends(fetch.st, Tail(events), desk'.tail, desk.start) /\ Uses(call["tail"], desk'.tail)
  <2>1. CASE desk'.tail = desk.tail
    BY <1>1, <1>4, <2>1
  <2>2. ASSUME NEW k \in Jobs, desk'.tail = Append(desk.tail, k), k \in Ending => Head(events) # "progress"
        PROVE  Ends(fetch.st, Tail(events), desk'.tail, desk.start) /\ Uses(call["tail"], desk'.tail)
    <3>0. PICK tl \in Seq(Jobs), st \in {fetch.st}, s \in {desk.start}, ev \in {Tail(events)} :
             tl = desk.tail /\ st = fetch.st /\ s = desk.start /\ ev = Tail(events)
      BY <1>1
    <3>1. Ends(st, ev, tl, s) /\ s \notin {"none", "create", "report", "undo"}
      BY <1>4, <1>5, <3>0
    <3>2. Ends(st, ev, Append(tl, k), s)
      <4>1. CASE k \in Ending
        <5>1. ev = <<>> /\ st = "over" /\ \A i \in DOMAIN tl : tl[i] \notin Ending
          BY <1>4, <2>2, <3>0, <4>1
        <5>2. Ends("over", <<>>, Append(tl, k), s)
          BY <3>1, <5>1, EndsMade
        <5> QED BY <5>1, <5>2
      <4>2. CASE k \notin Ending
        BY <3>1, <4>2, EndsQueued
      <4> QED BY <4>1, <4>2
    <3>3. Append(tl, k) # <<>> /\ (tl # <<>> => Append(tl, k)[1] = tl[1])
      BY AddTask
    <3>4. Uses(call["tail"], desk'.tail)
      BY <1>1, <2>2, <3>0, <3>3 DEF Uses
    <3>5. Ends(fetch.st, Tail(events), desk'.tail, desk.start)
      BY <2>2, <3>0, <3>2
    <3> QED BY <3>4, <3>5
  <2> QED BY <2>1, <2>2
<1>7. CancelHolds'
  BY DEF CInv, CancelHolds
<1>8. Ends(fetch.st, events, desk.tail, desk.start)'
  BY <1>6 DEF Ends
<1>9. Uses(call["tail"], desk.tail)'
  BY <1>6 DEF Uses
<1> QED BY <1>3, <1>7, <1>8, <1>9 DEF CInv

LEMMA EventKeeps == ASSUME CInv, OnAgentEvent PROVE CInv'
<1> DEFINE e == Head(events)
           Queued(s, k) == [desk EXCEPT !.shown = s, !.tail = Append(@, k)]
<1>1. /\ desk \in DeskRow /\ CallsOK(call) /\ desk.tail \in Seq(Jobs)
      /\ events # <<>> /\ events' = Tail(events) /\ UNCHANGED <<transfer, stored, fetch, wanted>>
      /\ Ends(fetch.st, events, desk.tail, desk.start)
  BY DEF CInv, FetchShape, DeskRow, OnAgentEvent
<1>2. wanted = "in time" /\ desk.astray = "no" => Held(desk, fetch.st, events)
  BY DEF CInv, CancelHolds
<1>3. ~NoMore(desk, fetch.st, events)
  BY <1>1 DEF NoMore
<1>4. CASE UNCHANGED <<desk, call>>
  <2>1. Held(desk, fetch.st, events) => Held(desk, fetch.st, Tail(events))
    BY <1>3 DEF Held
  <2> QED BY <1>1, <1>2, <1>4, <2>1, EventStep
<1>5. CASE /\ e # "progress" /\ desk' = [desk EXCEPT !.cancel = FALSE, !.shown = "cancelled"] /\ UNCHANGED call
  <2>1. /\ desk' \in DeskRow /\ desk'.tail = desk.tail /\ desk'.start = desk.start
        /\ desk'.astray = desk.astray
    BY <1>1, <1>5 DEF DeskRow, States, Terminal
  <2>2. /\ Tail(events) = <<>> /\ fetch.st = "over" /\ \A i \in DOMAIN desk.tail : desk.tail[i] \notin Ending
    <3>1. events \in Seq(Tidings)
      BY DEF CInv, FetchShape
    <3> QED BY <1>1, <1>5, <3>1, EndsTaken
  <2>3. desk.start \notin {"none", "create", "report", "undo"}
    BY <1>1 DEF Ends
  <2>4. NoMore(desk', fetch.st, Tail(events))
    BY <2>1, <2>2, <2>3 DEF NoMore, Ending
  <2> QED BY <1>1, <1>5, <2>1, <2>4, EventStep DEF Held
<1>6. CASE /\ desk.shown \in Active /\ ~desk.cancel
           /\ desk' = [desk EXCEPT !.shown = "cancelled", !.intent = TRUE] /\ call' = DurableCancel(call)
  <2>1. /\ desk' \in DeskRow /\ desk'.tail = desk.tail /\ desk'.start = desk.start
        /\ desk'.astray = desk.astray
    BY <1>1, <1>6 DEF DeskRow, States, Terminal
  <2>2. ~Held(desk, fetch.st, events)
    BY <1>3, <1>6 DEF Held, Gone, Active
  <2>3. CallsOK(call') /\ call'["tail"] = call["tail"]
    BY <1>1, <1>6, CancelCall
  <2> QED BY <1>1, <1>2, <2>1, <2>2, <2>3, EventStep
<1>7. CASE desk.shown \in Active /\ desk' = Queued(desk.shown, "progress") /\ UNCHANGED call
  <2>1. "progress" \in Jobs /\ "progress" \notin Ending
    BY DEF Jobs, Ending
  <2>2. PICK q \in Seq(Jobs) : q = Append(desk.tail, "progress")
    BY <1>1, <2>1, AddLast
  <2>3. /\ desk' \in DeskRow /\ desk'.tail = q /\ desk'.start = desk.start
        /\ desk'.astray = desk.astray /\ desk'.cancel = desk.cancel
    BY <1>1, <1>7, <2>2 DEF DeskRow
  <2>4. Held(desk, fetch.st, events) => Held(desk', fetch.st, Tail(events))
    BY <1>3, <1>7, <2>3 DEF Held, Gone, Active
  <2> QED BY <1>1, <1>2, <1>7, <2>1, <2>2, <2>3, <2>4, EventStep
<1>8. ASSUME desk.shown \in Active, ~desk.cancel, e \in {"done", "failed"},
             NEW s \in States, NEW k \in Ending, desk' = Queued(s, k), UNCHANGED call
      PROVE  CInv'
  <2>1. k \in Jobs /\ e # "progress"
    BY <1>8 DEF Jobs, Ending
  <2>2. PICK q \in Seq(Jobs) : q = Append(desk.tail, k)
    BY <1>1, <2>1, AddLast
  <2>3. /\ desk' \in DeskRow /\ desk'.tail = q /\ desk'.start = desk.start
        /\ desk'.astray = desk.astray
    BY <1>1, <1>8, <2>2 DEF DeskRow
  <2>4. ~Held(desk, fetch.st, events)
    BY <1>3, <1>8 DEF Held, Gone, Active
  <2> QED BY <1>1, <1>2, <1>8, <2>1, <2>2, <2>3, <2>4, EventStep
<1>9. "storing" \in States /\ "failed" \in States /\ "store" \in Ending /\ "failure" \in Ending
  BY DEF States, Active, Terminal, Ending
<1>10. CASE desk.shown \in Active /\ desk' \in {desk, Queued(desk.shown, "progress")} /\ UNCHANGED call
  BY <1>4, <1>7, <1>10
<1>11. CASE /\ desk.shown \in Active /\ ~desk.cancel /\ e \in {"done", "failed"}
            /\ desk' = IF e = "done" THEN Queued("storing", "store") ELSE Queued("failed", "failure")
            /\ UNCHANGED call
  BY <1>8, <1>9, <1>11
<1> QED BY <1>4, <1>5, <1>6, <1>10, <1>11 DEF OnAgentEvent

(* ---- the queue of tasks ----                                              *)

LEMMA FinishedFields ==
  ASSUME NEW d \in DeskRow, d.tail # <<>>
  PROVE  /\ Finished(d) \in DeskRow /\ Finished(d).tail = Tail(d.tail)
         /\ Finished(d).start = d.start /\ Finished(d).astray = d.astray
         /\ d.cancel => Finished(d).cancel \/ Head(d.tail) = "store"
<1> DEFINE c == d.cancel /\ ~(Head(d.tail) = "store" /\ d.shown = "cancelled")
<1>1. d.tail \in Seq(Jobs) /\ c \in BOOLEAN
  BY DEF DeskRow
<1>2. PICK q \in Seq(Jobs) : q = Tail(d.tail)
  BY <1>1, DropFirst
<1>3. d.cancel => c \/ Head(d.tail) = "store"
  OBVIOUS
<1>4. Finished(d) = [d EXCEPT !.tail = q, !.cancel = c]
  BY <1>2 DEF Finished
<1> HIDE DEF c
<1>5. /\ Finished(d) \in DeskRow /\ Finished(d).tail = q /\ (Finished(d).cancel <=> c)
      /\ Finished(d).start = d.start /\ Finished(d).astray = d.astray
  BY <1>1, <1>4 DEF DeskRow
<1> QED BY <1>2, <1>3, <1>5

(* The head of the queue is done: a cancellation outlives it, or it was the  *)
(* task that would have stored the file.                                     *)
LEMMA FinishStep ==
  ASSUME CInv, desk.tail # <<>>, UNCHANGED <<transfer, stored, wanted>>,
         fetch' \in FetchRow, events' \in Seq(Tidings), Ends(fetch'.st, events', desk.tail, desk.start),
         NoMore(desk, fetch.st, events) => NoMore(desk, fetch'.st, events'),
         CallsOK(call'), call'["tail"].st = "idle", call'["tail"].op = "none",
         desk' \in DeskRow, desk'.tail = Tail(desk.tail), desk'.start = desk.start,
         desk'.astray = desk.astray, desk.cancel => desk'.cancel \/ Head(desk.tail) = "store"
  PROVE  CInv'
<1>1. PICK tl \in Seq(Jobs), s \in {desk.start}, st \in {fetch'.st}, ev \in {events'} :
         tl = desk.tail /\ s = desk.start /\ st = fetch'.st /\ ev = events'
  BY DEF CInv, FetchShape, DeskRow
<1>2. tl # <<>> /\ Ends(st, ev, tl, s)
  BY <1>1
<1>3. /\ Ends(st, ev, Tail(tl), s)
      /\ tl[1] \in Ending => \A i \in DOMAIN Tail(tl) : Tail(tl)[i] \notin Ending
  BY <1>2, EndsDone
<1>4. /\ Head(tl) = tl[1] /\ 1 \in DOMAIN tl
      /\ \A i \in DOMAIN Tail(tl) : i + 1 \in DOMAIN tl /\ Tail(tl)[i] = tl[i + 1]
  BY <1>2, DropFirst
<1>5. FetchShape'
  BY DEF CInv, FetchShape
<1>6. Ends(fetch.st, events, desk.tail, desk.start)'
  BY <1>1, <1>3
<1>7. Uses(call["tail"], desk.tail)'
  BY DEF Uses
<1>8. NoMore(desk, fetch.st, events) => NoMore(desk', fetch'.st, events')
  BY <1>1, <1>4 DEF NoMore
<1>9. Head(desk.tail) = "store" => NoMore(desk', fetch'.st, events')
  <2>1. SUFFICES ASSUME tl[1] = "store" PROVE NoMore(desk', fetch'.st, events')
    BY <1>1, <1>4
  <2>2. st = "over" /\ ev = <<>> /\ s \notin {"none", "create", "report"}
    BY <1>2, <1>4, <2>1 DEF Ends, Ending
  <2>3. \A i \in DOMAIN Tail(tl) : Tail(tl)[i] # "store"
    BY <1>3, <2>1 DEF Ending
  <2> QED BY <1>1, <2>2, <2>3 DEF NoMore
<1>10. Held(desk, fetch.st, events) => Held(desk', fetch'.st, events')
  BY <1>8, <1>9 DEF Held, Gone
<1>11. CancelHolds'
  BY <1>10 DEF CInv, CancelHolds
<1> QED BY <1>5, <1>6, <1>7, <1>11 DEF CInv

LEMMA FinishHere ==
  ASSUME CInv, desk.tail # <<>>, UNCHANGED <<transfer, stored, fetch, events, wanted>>,
         CallsOK(call'), call'["tail"].st = "idle", call'["tail"].op = "none",
         desk' \in DeskRow, desk'.tail = Tail(desk.tail), desk'.start = desk.start,
         desk'.astray = desk.astray, desk.cancel => desk'.cancel \/ Head(desk.tail) = "store"
  PROVE  CInv'
<1>1. /\ fetch' \in FetchRow /\ events' \in Seq(Tidings)
      /\ Ends(fetch'.st, events', desk.tail, desk.start)
      /\ NoMore(desk, fetch.st, events) => NoMore(desk, fetch'.st, events')
  <2>1. fetch' = fetch /\ events' = events
    OBVIOUS
  <2> QED BY <2>1 DEF CInv, FetchShape
<1> QED BY <1>1, FinishStep

(* The computer is told to stop.                                             *)
LEMMA StoppedFields ==
  ASSUME CInv, FetchStopped
  PROVE  /\ fetch' \in FetchRow /\ events' \in Seq(Tidings)
         /\ Ends(fetch'.st, events', desk.tail, desk.start)
         /\ NoMore(desk, fetch.st, events) => NoMore(desk, fetch'.st, events')
<1>1. /\ fetch \in FetchRow /\ events \in Seq(Tidings) /\ desk.tail \in Seq(Jobs)
      /\ Ends(fetch.st, events, desk.tail, desk.start)
  BY DEF CInv, FetchShape, DeskRow
<1>2. CASE fetch' = fetch /\ events' = events
  BY <1>1, <1>2
<1>3. CASE fetch.st = "running" /\ fetch' = [fetch EXCEPT !.st = "over"] /\ events' = Append(events, "stopped")
  <2>1. fetch' \in FetchRow /\ fetch'.st = "over"
    BY <1>1, <1>3 DEF FetchRow
  <2>2. "stopped" \in Tidings /\ Append(events, "stopped") \in Seq(Tidings)
    BY <1>1, AddLast DEF Tidings
  <2>3. Ends("running", events, desk.tail, desk.start)
    BY <1>1, <1>3
  <2>4. Ends("over", Append(events, "stopped"), desk.tail, desk.start)
    BY <1>1, <2>2, <2>3, EndsPutOut
  <2> QED BY <1>3, <2>1, <2>2, <2>4 DEF NoMore
<1> QED BY <1>2, <1>3 DEF FetchStopped

(* The task at the head asks the control plane.                              *)
LEMMA TailSent ==
  ASSUME CInv, UNCHANGED <<transfer, stored, fetch, events, wanted>>, desk.tail # <<>>,
         NEW op \in TailOps \ {"none"}, op \notin {"fetching", "failed"} => desk.tail[1] = "store",
         call' = Sent(call, "tail", op), desk' \in DeskRow, desk'.tail = desk.tail,
         desk'.start = desk.start, desk'.astray = desk.astray, desk'.cancel = desk.cancel,
         op = "complete" => ~Held(desk, fetch.st, events)
  PROVE  CInv'
<1>1. CallsOK(call') /\ call'["tail"].op = op /\ call'["tail"].st = "sent"
  BY SentTail DEF CInv, FetchShape
<1>2. FetchShape'
  BY <1>1 DEF CInv, FetchShape
<1>3. Ends(fetch.st, events, desk.tail, desk.start)'
  BY DEF CInv
<1>4. Uses(call["tail"], desk.tail)'
  BY <1>1 DEF Uses
<1>5. Held(desk, fetch.st, events) => Held(desk, fetch.st, events)'
  BY DEF Held, Gone, NoMore
<1>6. CancelHolds'
  BY <1>1, <1>5 DEF CInv, CancelHolds
<1> QED BY <1>2, <1>3, <1>4, <1>6 DEF CInv

LEMMA TailStartKeeps == ASSUME CInv, TailStarts PROVE CInv'
<1> DEFINE k == Head(desk.tail)
<1>1. /\ desk \in DeskRow /\ CallsOK(call) /\ desk.tail \in Seq(Jobs) /\ desk.tail # <<>>
      /\ call["tail"].st = "idle" /\ UNCHANGED <<transfer, stored, wanted>>
  BY DEF CInv, FetchShape, DeskRow, TailStarts
<1>2. call["tail"].op = "none"
  BY <1>1 DEF CInv, Uses
<1>3. k = desk.tail[1]
  BY <1>1, DropFirst
<1>4. ASSUME UNCHANGED <<desk, fetch, events>>, NEW op \in {"fetching", "failed", "storing"},
             op = "storing" => k = "store", call' = Sent(call, "tail", op)
      PROVE  CInv'
  <2>1. op \in TailOps \ {"none"} /\ op # "complete"
    BY DEF TailOps
  <2> QED BY <1>1, <1>3, <1>4, <2>1, TailSent
<1>5. CASE UNCHANGED <<desk, fetch, events>>
  <2>1. /\ k \in {"progress", "failure", "store"}
        /\ call' = Sent(call, "tail", CASE k = "progress" -> "fetching"
                                        [] k = "failure" -> "failed"
                                        [] k = "store" -> "storing")
    <3>1. desk' # Finished(desk)
      <4>1. PICK q \in Seq(Jobs), n \in Nat : q = Tail(desk.tail) /\ n = Len(desk.tail) /\ Len(q) = n - 1
        BY <1>1, DropFirst, ZenonT(60)
      <4>2. Len(q) # n
        BY <4>1
      <4>3. Tail(desk.tail) # desk.tail
        BY <4>1, <4>2
      <4> QED BY <1>1, <1>5, <4>3, FinishedFields
    <3> QED BY <3>1 DEF TailStarts
  <2> QED BY <1>4, <1>5, <2>1
<1>6. CASE desk' = Finished(desk) /\ call' = call
  <2>1. /\ desk' \in DeskRow /\ desk'.tail = Tail(desk.tail) /\ desk'.start = desk.start
        /\ desk'.astray = desk.astray /\ (desk.cancel => desk'.cancel \/ Head(desk.tail) = "store")
    BY <1>1, <1>6, FinishedFields
  <2>2. CASE UNCHANGED <<fetch, events>>
    BY <1>1, <1>2, <1>6, <2>1, <2>2, FinishHere
  <2>3. CASE FetchStopped
    BY <1>1, <1>2, <1>6, <2>1, <2>3, FinishStep, StoppedFields
  <2>4. UNCHANGED <<fetch, events>> \/ FetchStopped
    BY DEF TailStarts
  <2> QED BY <2>2, <2>3, <2>4
<1>7. UNCHANGED <<desk, fetch, events>> \/ (desk' = Finished(desk) /\ call' = call)
  BY DEF TailStarts
<1> QED BY <1>5, <1>6, <1>7

LEMMA TailAnswerKeeps == ASSUME CInv, TailAnswered PROVE CInv'
<1> DEFINE c == call["tail"]
<1>1. /\ desk \in DeskRow /\ CallsOK(call) /\ c \in CallRow /\ c.op \in TailOps /\ "tail" \in Tasks
      /\ desk.tail \in Seq(Jobs) /\ UNCHANGED <<transfer, stored, fetch, events, wanted>>
  BY DEF CInv, FetchShape, DeskRow, CallsOK, Tasks, TailAnswered
<1>2. c.st # "idle" /\ c.op # "none" /\ desk.tail # <<>>
  BY DEF CInv, Uses, TailAnswered, Answered
<1>3. c.view \in States /\ "failed" \in States
  BY <1>1 DEF CallRow, States, Terminal
<1>4. CallsOK(Hung("tail")) /\ Hung("tail")["tail"].op = "none" /\ Hung("tail")["tail"].st = "idle"
  BY <1>1, HungCall
<1>5. ASSUME NEW d \in DeskRow, d.tail = desk.tail, d.start = desk.start, d.astray = desk.astray,
             desk.cancel => d.cancel, desk' = Finished(d), call' = Hung("tail")
      PROVE  CInv'
  <2>1. /\ desk' \in DeskRow /\ desk'.tail = Tail(desk.tail) /\ desk'.start = desk.start
        /\ desk'.astray = desk.astray /\ (desk.cancel => desk'.cancel \/ Head(desk.tail) = "store")
    BY <1>2, <1>5, FinishedFields
  <2> QED BY <1>1, <1>2, <1>4, <1>5, <2>1, FinishHere
<1>6. ASSUME NEW v \in States
      PROVE  LET d == [desk EXCEPT !.shown = v] IN
             /\ d \in DeskRow /\ d.tail = desk.tail /\ d.start = desk.start /\ d.astray = desk.astray
             /\ d.cancel = desk.cancel
  BY <1>1, <1>6 DEF DeskRow
<1>7. CASE c.op = "failed" /\ FailureAnswered
  <2>1. PICK d \in {desk, [desk EXCEPT !.shown = c.view], [desk EXCEPT !.shown = "failed"]} :
           desk' = Finished(d) /\ call' = Hung("tail")
    BY <1>7 DEF FailureAnswered, Settled
  <2> QED BY <1>1, <1>3, <1>5, <1>6, <2>1
<1>8. CASE c.op = "fetching" /\ ProgressAnswered
  <2>1. PICK d \in {desk, [desk EXCEPT !.shown = c.view]} :
           desk' = Finished(d) /\ call' = Hung("tail")
    BY <1>8 DEF ProgressAnswered
  <2> QED BY <1>1, <1>3, <1>5, <1>6, <2>1
<1>9. CASE c.op \notin {"failed", "fetching"} /\ StoreAnswered
  <2>1. desk.tail[1] = "store" /\ 1 \in DOMAIN desk.tail
    <3>1. 1 \in DOMAIN desk.tail
      BY <1>1, <1>2, DropFirst
    <3> QED BY <1>2, <1>9, <3>1 DEF CInv, Uses
  <2>2. PICK d \in {desk, [desk EXCEPT !.shown = c.view]} :
           d = IF c.op \in {"storing", "completed"} THEN [desk EXCEPT !.shown = c.view] ELSE desk
    OBVIOUS
  <2>3. d \in DeskRow /\ d.tail = desk.tail /\ d.start = desk.start /\ d.astray = desk.astray /\ d.cancel = desk.cancel
    BY <1>1, <1>3, <1>6, <2>2
  <2>4. CASE StoreGoesOn /\ c.op # "completed" /\ desk' = d /\ call' = Sent(call, "tail", NextStep[c.op])
    <3>1. c.op \in {"storing", "declare", "upload", "complete"}
      BY <1>1, <1>2, <1>9, <2>4 DEF TailOps
    <3>2. NextStep[c.op] \in TailOps \ {"none"}
      BY <3>1 DEF NextStep, TailOps
    <3>3. ~Held(desk, fetch.st, events)
      BY <1>2, <2>1, <2>4 DEF Held, NoMore, Gone, StoreGoesOn, IsAgentCancelled
    <3> QED BY <1>1, <1>2, <2>1, <2>3, <2>4, <3>2, <3>3, TailSent
  <2>5. CASE desk' = Finished(d) /\ call' = Hung("tail")
    BY <1>5, <2>3, <2>5
  <2>6. CASE desk' = Finished(desk) /\ call' = Hung("tail")
    BY <1>1, <1>5, <2>6
  <2>7. CASE call' = Sent(call, "tail", "failed") /\ UNCHANGED desk
    <3>1. "failed" \in TailOps \ {"none"}
      BY DEF TailOps
    <3> QED BY <1>1, <1>2, <2>7, <3>1, TailSent
  <2> QED BY <1>9, <2>2, <2>4, <2>5, <2>6, <2>7 DEF StoreAnswered
<1> QED BY <1>7, <1>8, <1>9 DEF TailAnswered

(* ---- cancelTransfer, the dismissal and the poll ----                      *)

LEMMA CancelTransferKeeps == ASSUME CInv, CancelTransfer PROVE CInv'
<1>1. desk \in DeskRow /\ CallsOK(call) /\ transfer \in States
  BY DEF CInv, FetchShape
<1>2. PICK x \in {"no", "void", "stop"} :
         desk' = [desk EXCEPT !.cancel = TRUE, !.shown = "cancelled", !.cancelling = x]
  BY DEF CancelTransfer
<1>3. desk' \in DeskRow /\ desk'.tail = desk.tail /\ desk'.start = desk.start /\ desk'.cancel
  BY <1>1, <1>2 DEF DeskRow, States, Terminal
<1>4. DeskKept
  BY <1>1, <1>3 DEF DeskKept, CancelTransfer
<1>5. wanted' = "in time" => stored # "complete" /\ call["tail"].op # "complete"
  BY DEF CancelTransfer
<1>6. Held(desk', fetch.st, events)
  BY <1>3 DEF Held
<1> QED BY <1>4, <1>5, <1>6, DeskStep

LEMMA CancelSentKeeps == ASSUME CInv, CancelSent PROVE CInv'
<1>1. desk \in DeskRow /\ CallsOK(call) /\ transfer \in States
  BY DEF CInv, FetchShape
<1>2. /\ desk' \in DeskRow /\ desk'.tail = desk.tail /\ desk'.start = desk.start /\ desk'.cancel = desk.cancel
      /\ desk'.astray = desk.astray /\ desk'.shown = desk.shown
  BY <1>1 DEF CancelSent, DeskRow
<1>3. CallsOK(call') /\ call'["tail"] = call["tail"]
  BY <1>1, CancelCall DEF CancelSent
<1>4. UNCHANGED <<transfer, stored, wanted>>
  BY DEF CancelSent
<1>5. CASE UNCHANGED <<fetch, events>>
  <2>1. DeskKept /\ DeskSame(desk, desk')
    BY <1>1, <1>2, <1>3, <1>4, <1>5 DEF DeskKept, DeskSame
  <2> QED BY <1>4, <2>1, DeskStays
<1>6. CASE FetchStopped
  <2>1. /\ fetch' \in FetchRow /\ events' \in Seq(Tidings)
        /\ Ends(fetch'.st, events', desk.tail, desk.start)
        /\ NoMore(desk, fetch.st, events) => NoMore(desk, fetch'.st, events')
    BY <1>6, StoppedFields
  <2>2. FetchShape'
    BY <1>2, <1>3, <1>4, <2>1 DEF CInv, FetchShape
  <2>3. Ends(fetch.st, events, desk.tail, desk.start)'
    BY <1>2, <2>1
  <2>4. Uses(call["tail"], desk.tail)'
    BY <1>2, <1>3 DEF CInv
  <2>5. NoMore(desk, fetch'.st, events') => NoMore(desk', fetch'.st, events')
    BY <1>2 DEF NoMore
  <2>6. Held(desk, fetch.st, events) => Held(desk', fetch'.st, events')
    BY <1>2, <2>1, <2>5 DEF Held, Gone
  <2>7. CancelHolds'
    BY <1>2, <1>3, <1>4, <2>6 DEF CInv, CancelHolds
  <2> QED BY <2>2, <2>3, <2>4, <2>7 DEF CInv
<1> QED BY <1>5, <1>6 DEF CancelSent

(* A dismissed row is gone for good, unless its fetch is still being started.*)
LEMMA DismissKeeps == ASSUME CInv, Dismiss PROVE CInv'
<1>1. desk \in DeskRow /\ CallsOK(call) /\ transfer \in States
  BY DEF CInv, FetchShape
<1>2. PICK a \in {"no", "early", "lost"} :
         /\ desk' = [desk EXCEPT !.shown = "none", !.cancel = FALSE, !.astray = a]
         /\ a = "no" => desk.astray = "no" /\ desk.start = "over"
  BY <1>1 DEF Dismiss, DeskRow
<1>3. /\ desk' \in DeskRow /\ desk'.tail = desk.tail /\ desk'.start = desk.start /\ desk'.shown = "none"
      /\ desk'.astray = a
  BY <1>1, <1>2 DEF DeskRow, States
<1>4. DeskKept /\ wanted' = wanted
  BY <1>1, <1>3 DEF DeskKept, Dismiss
<1>5. desk'.astray = "no" => Held(desk', fetch.st, events)
  BY <1>2, <1>3 DEF Held, Gone, Dismiss
<1> QED BY <1>2, <1>3, <1>4, <1>5, DeskStep DEF CInv, CancelHolds

LEMMA DurableKeeps == ASSUME CInv, DurableAnswered PROVE CInv'
<1>1. desk \in DeskRow /\ CallsOK(call) /\ transfer \in States /\ "cancel" \in Tasks
  BY DEF CInv, FetchShape, Tasks
<1>2. /\ desk' \in DeskRow /\ desk'.tail = desk.tail /\ desk'.start = desk.start /\ desk'.cancel = desk.cancel
      /\ desk'.astray = desk.astray /\ desk'.shown = desk.shown
  BY <1>1 DEF DurableAnswered, DeskRow
<1>3. CallsOK(call') /\ call'["tail"] = call["tail"]
  BY <1>1, HungCall DEF DurableAnswered
<1>4. DeskKept /\ DeskSame(desk, desk') /\ wanted' = wanted
  BY <1>1, <1>2, <1>3 DEF DeskKept, DeskSame, DurableAnswered
<1> QED BY <1>4, DeskStays

LEMMA PollKeeps == ASSUME CInv, PollTimer PROVE CInv'
<1> DEFINE r == [op |-> "list", st |-> "ok", view |-> transfer]
<1>1. desk \in DeskRow /\ CallsOK(call) /\ transfer \in States /\ "list" \in Tasks /\ "tail" \in Tasks
  BY DEF CInv, FetchShape, Tasks
<1>2. r \in CallRow /\ r.op # "complete"
  BY <1>1 DEF CallRow, AllOps
<1> HIDE DEF r
<1>3. call' = [call EXCEPT !["list"] = r]
  BY DEF PollTimer, r
<1>4. CallsOK(call') /\ call'["tail"] = call["tail"]
  BY <1>1, <1>2, <1>3 DEF CallsOK
<1>5. DeskKept /\ DeskSame(desk, desk') /\ wanted' = wanted
  BY <1>1, <1>4 DEF DeskKept, DeskSame, PollTimer
<1> QED BY <1>5, DeskStays

LEMMA ListKeeps == ASSUME CInv, ListAnswered PROVE CInv'
<1>1. /\ desk \in DeskRow /\ CallsOK(call) /\ transfer \in States /\ "list" \in Tasks
      /\ desk.tail \in Seq(Jobs) /\ UNCHANGED <<transfer, stored, fetch, events, wanted>>
  BY DEF CInv, FetchShape, DeskRow, Tasks, ListAnswered
<1>2. CallsOK(call') /\ call'["tail"] = call["tail"]
  <2>1. CallsOK(Hung("list")) /\ Hung("list")["tail"] = call["tail"]
    BY <1>1, HungCall
  <2>2. call' = Hung("list") \/ call' = DurableCancel(Hung("list"))
    BY DEF ListAnswered
  <2> QED BY <2>1, <2>2, CancelCall
<1>3. ASSUME NEW b \in BOOLEAN, desk' = [desk EXCEPT !.intent = b] PROVE CInv'
  <2>1. /\ desk' \in DeskRow /\ desk'.tail = desk.tail /\ desk'.start = desk.start /\ desk'.cancel = desk.cancel
        /\ desk'.astray = desk.astray /\ desk'.shown = desk.shown
    BY <1>1, <1>3 DEF DeskRow
  <2>2. DeskKept /\ DeskSame(desk, desk') /\ wanted' = wanted
    BY <1>1, <1>2, <2>1 DEF DeskKept, DeskSame
  <2> QED BY <2>2, DeskStays
<1>4. CASE desk' = [desk EXCEPT !.intent = FALSE, !.cancel = TRUE, !.shown = "cancelled",
                                !.tail = Append(@, "stop")]
  <2>1. "stop" \in Jobs /\ "stop" \notin Ending
    BY DEF Jobs, Ending
  <2>2. PICK q \in Seq(Jobs) : q = Append(desk.tail, "stop")
    BY <1>1, <2>1, AddTask
  <2>3. /\ desk' \in DeskRow /\ desk'.tail = q /\ desk'.start = desk.start /\ desk'.cancel
        /\ desk'.astray = desk.astray
    BY <1>1, <1>4, <2>2 DEF DeskRow, States, Terminal
  <2>4. FetchShape'
    BY <1>1, <1>2, <2>3 DEF CInv, FetchShape
  <2>5. Ends(fetch.st, events, q, desk.start)
    BY <1>1, <2>1, <2>2, EndsQueued DEF CInv
  <2>6. Ends(fetch.st, events, desk.tail, desk.start)'
    BY <1>1, <2>3, <2>5
  <2>7. q # <<>> /\ (desk.tail # <<>> => q[1] = desk.tail[1])
    BY <1>1, <2>1, <2>2, AddTask
  <2>8. Uses(call["tail"], desk.tail)'
    BY <1>2, <2>3, <2>7 DEF CInv, Uses
  <2>9. CancelHolds'
    BY <1>1, <1>2, <2>3 DEF CInv, CancelHolds, Held
  <2> QED BY <2>4, <2>6, <2>8, <2>9 DEF CInv
<1>5. (desk.intent /\ call["list"].view \in Active) \in BOOLEAN
  BY <1>1 DEF DeskRow
<1> QED BY <1>3, <1>4, <1>5 DEF ListAnswered

----------------------------------------------------------------------------

LEMMA CInvInit == TransferInit => CInv
<1> SUFFICES ASSUME TransferInit PROVE CInv
  OBVIOUS
<1>1. FetchShape
  <2>1. NoCall \in CallRow /\ NoCall.op = "none" /\ NoCall.st = "idle"
    BY DEF NoCall, CallRow, States, AllOps, TailOps
  <2>2. CallsOK(call)
    BY <2>1 DEF TransferInit, CallsOK, Tasks, TailOps
  <2>3. fetch \in FetchRow /\ transfer \in States /\ events \in Seq(Tidings)
    BY DEF TransferInit, FetchRow, States
  <2>4. desk \in DeskRow
    BY DEF TransferInit, DeskRow, States
  <2> QED BY <2>2, <2>3, <2>4 DEF TransferInit, FetchShape
<1>2. Ends(fetch.st, events, desk.tail, desk.start)
  BY DEF TransferInit, Ends
<1>3. Uses(call["tail"], desk.tail)
  BY DEF TransferInit, Uses, NoCall, Tasks
<1>4. CancelHolds
  BY DEF TransferInit, CancelHolds
<1> QED BY <1>1, <1>2, <1>3, <1>4 DEF CInv

LEMMA CInvStep == CInv /\ [TransferNext]_transferVars => CInv'
<1> SUFFICES ASSUME CInv, [TransferNext]_transferVars PROVE CInv'
  OBVIOUS
<1>1. ASSUME NEW t \in Tasks \ {"list"}, Serve(t) PROVE CInv'
  BY <1>1, ServeKeeps
<1>2. CASE CancelElsewhere
  BY <1>2, ElsewhereKeeps
<1>3. CASE FetchStarts \/ FetchProgress \/ (\E e \in {"done", "failed"} : FetchEnds(e)) \/ LinkDrops
  BY <1>3, FetchMoves
<1>4. CASE StartCloudFetch
  BY <1>4, StartKeeps
<1>5. CASE StartStep
  BY <1>5, CreatedKeeps, UndoneKeeps, ReportedKeeps, AnsweredKeeps, FailedKeeps DEF StartStep
<1>6. CASE OnAgentEvent
  BY <1>6, EventKeeps
<1>7. CASE TailStep
  BY <1>7, TailStartKeeps, TailAnswerKeeps DEF TailStep
<1>8. CASE CancelTransfer
  BY <1>8, CancelTransferKeeps
<1>9. CASE CancelSent
  BY <1>9, CancelSentKeeps
<1>10. CASE DurableAnswered
  BY <1>10, DurableKeeps
<1>11. CASE Dismiss
  BY <1>11, DismissKeeps
<1>12. CASE PollTimer
  BY <1>12, PollKeeps
<1>13. CASE ListAnswered
  BY <1>13, ListKeeps
<1>14. CASE UNCHANGED transferVars
  BY <1>14 DEF transferVars, CInv, FetchShape, CallsOK, Ends, Uses, CancelHolds, Held, NoMore, Gone
<1> QED BY <1>1, <1>2, <1>3, <1>4, <1>5, <1>6, <1>7, <1>8, <1>9, <1>10, <1>11, <1>12, <1>13, <1>14
       DEF TransferNext

(* The invariant of the cloud fetch: a download ends once and only its end   *)
(* makes the task that stores the file; the queue's call is that of the task *)
(* at its head; and while a cancellation in time stands, either the desktop  *)
(* still carries it, or nothing is left that could store the file.           *)
THEOREM CInvHolds == TransferSpec => []CInv
<1> QED BY CInvInit, CInvStep, PTL DEF TransferSpec

(* A cancelled fetch is kept out of Files: cancelTransfer marks the row      *)
(* before it waits for anything, and storeAgentFetch looks for that mark     *)
(* after every await, so that no event, answer or queued task of the         *)
(* transfer makes the file complete afterwards.                              *)
THEOREM CancelKeepsOutAlways == TransferSpec => []CancelKeepsOut
<1>1. CInv => CancelKeepsOut
  BY DEF CInv, CancelHolds, CancelKeepsOut
<1> QED BY <1>1, CInvHolds, PTL
=============================================================================
