----------------------------- MODULE MCResidency ----------------------------
(* A small instance of Residency for TLC: requests are alike.              *)
EXTENDS Residency, TLC

Symmetry == Permutations(Handlers)
=============================================================================
