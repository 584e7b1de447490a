------------------------------ MODULE MCWriter ------------------------------
(* Instances of Writer for TLC; the configurations give the bounds. *)
EXTENDS Writer
=============================================================================
