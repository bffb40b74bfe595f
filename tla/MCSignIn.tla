------------------------------ MODULE MCSignIn ------------------------------
(* A small instance of SignIn for TLC: requests and devices are alike.     *)
EXTENDS SignIn, TLC

Symmetry == Permutations(Handlers) \cup Permutations(Devices)
=============================================================================
