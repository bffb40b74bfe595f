------------------------------ MODULE MCVisits ------------------------------
(* A small instance of Visits for TLC.                                     *)
EXTENDS Visits, TLC

Symmetry == Permutations(Guards) \cup Permutations(Passes)
=============================================================================
