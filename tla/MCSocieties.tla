---------------------------- MODULE MCSocieties ----------------------------
(* Societies on a small instance: a creation names nobody, or one person   *)
(* with a phone number and an email.                                       *)
EXTENDS Societies, TLC

MCFirstAdmins == {<<"none", "none">>, <<"p", "e">>}

Symmetry == Permutations(Handlers)
=============================================================================
