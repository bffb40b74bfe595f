------------------------------ MODULE MCBooks -------------------------------
(* A small instance of Books for TLC: a manual entry debits what the other *)
(* postings credit.                                                        *)
EXTENDS Books, TLC

MCManuals == {<<"income", "creditors">>}

Symmetry == Permutations(Handlers)
=============================================================================
