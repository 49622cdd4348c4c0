-------------------------- MODULE MCEngineReplicas --------------------------
(* Browser events for the model checker.                                   *)
EXTENDS EngineReplicas

(* Sessions set and ended by the user.                                     *)
LoginLogout == {<<"explicit", FALSE>>, <<"explicit", TRUE>>}

(* The same, with the cookie running out by itself, and the removal half   *)
(* of an overwrite, which makes no record.                                 *)
AllChanges == LoginLogout \union {<<"expired", TRUE>>, <<"overwrite", TRUE>>}
============================================================================
