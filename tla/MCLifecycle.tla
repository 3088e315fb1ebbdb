---------------------------- MODULE MCLifecycle -----------------------------
(* Three runs of the script: one that leaves something behind, one that     *)
(* meets it, and one after a run that has cleared it away.                   *)
EXTENDS Lifecycle
=============================================================================
