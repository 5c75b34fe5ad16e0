----------------------------- MODULE MCEffects -----------------------------
(* Instances of Effects for TLC: the configurations choose the keys of the  *)
(* ticket and the bounds; Effects itself carries the bounds in its guards.  *)
EXTENDS Effects
=============================================================================
