------------------------------ MODULE MCFanoutSaga ------------------------------
(* Instances of FanoutSaga for TLC. *)
EXTENDS FanoutSaga, TLC

Symmetry == Permutations(Procs)
=============================================================================
