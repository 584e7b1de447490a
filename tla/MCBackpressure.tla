--------------------------- MODULE MCBackpressure ---------------------------
(* Instances of Backpressure for TLC; the configuration gives the bounds. *)
EXTENDS Backpressure
=============================================================================
