---------------------------- MODULE MCBuildCycle ----------------------------
(* One ticket, three faults of any kind, up to four daemons. *)
EXTENDS BuildCycle
=============================================================================
