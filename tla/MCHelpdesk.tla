----------------------------- MODULE MCHelpdesk -----------------------------
(* A small instance of Helpdesk for TLC: requests are alike.               *)
EXTENDS Helpdesk, TLC

Symmetry == Permutations(Handlers)
=============================================================================
