----------------------------- MODULE MCPayments -----------------------------
(* Small instances of Payments for TLC.                                    *)
EXTENDS Payments, TLC

Symmetry == Permutations(Handlers) \cup Permutations(Payments \ Offline)
=============================================================================
