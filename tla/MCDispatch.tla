----------------------------- MODULE MCDispatch -----------------------------
(* Instances of Dispatch for TLC.  Tasks are interchangeable in safety runs. *)
EXTENDS Dispatch, TLC

TaskSymmetry == Permutations(Tasks)
=============================================================================
