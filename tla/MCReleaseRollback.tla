-------------------------- MODULE MCReleaseRollback --------------------------
(* Small instances of ReleaseRollback. *)
EXTENDS ReleaseRollback

MCFileOrder == <<"core.env", "unit">>
MCDirOrder == <<"config">>
MCParent == [f \in {"core.env", "unit"} |-> IF f = "core.env" THEN "config" ELSE "/"]
=============================================================================
