--------------------------- MODULE MCEngineFiles ---------------------------
(* What the devices and the cloud keep for a user, in one run: a behaviour   *)
(* is of the session records in the devices' engines, or of the cloud files. *)
(* The two share no state.                                                   *)
EXTENDS MCEngineReplicas, FileStore, TLC

VARIABLE kept
keptVars == <<vars, fileVars, kept>>

KeptInit == kept \in {"sessions", "files"} /\ Init /\ FileInit

KeptNext ==
    \/ kept = "sessions" /\ Next /\ UNCHANGED <<fileVars, kept>>
    \/ kept = "files" /\ FileNext /\ UNCHANGED <<vars, kept>>

(* Names of files, chunks and requests are interchangeable.                  *)
FileSymmetry ==
    Permutations(Paths) \union Permutations(Chunks) \union Permutations(Handlers)

KeptSpec == KeptInit /\ [][KeptNext]_keptVars
============================================================================
