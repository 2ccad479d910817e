----------------------------- MODULE MCWorkRoot -----------------------------
(* A work root with jobs, Test World attempts, core processes and probes. *)
EXTENDS WorkRoot
=============================================================================
