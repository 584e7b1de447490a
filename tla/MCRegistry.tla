----------------------------- MODULE MCRegistry -----------------------------
(* Instances of Registry for TLC.  Names are interchangeable. *)
EXTENDS Registry, TLC

NameSymmetry == Permutations(MethodNames) \cup Permutations(EventNames)
=============================================================================
