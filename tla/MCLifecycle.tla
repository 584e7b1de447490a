---------------------------- MODULE MCLifecycle ----------------------------
(* Instances of Lifecycle for TLC; the configurations give the bounds. *)
EXTENDS Lifecycle
=============================================================================
