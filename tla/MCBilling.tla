----------------------------- MODULE MCBilling ------------------------------
(* A small instance of Billing for TLC: one flat is charged under both     *)
(* heads and the other under one, so a run may find nothing to bill.       *)
EXTENDS Billing, TLC

CONSTANTS u1, u2

MCRates == u1 :> [fixed |-> 1, water |-> 1] @@ u2 :> [fixed |-> 0, water |-> 1]
MCRuns == {[heads |-> Heads, carry |-> TRUE, dry |-> FALSE, send |-> TRUE],
           [heads |-> {"fixed"}, carry |-> FALSE, dry |-> FALSE, send |-> FALSE],
           [heads |-> Heads, carry |-> TRUE, dry |-> TRUE, send |-> FALSE]}

Symmetry == Permutations(Callers)
=============================================================================
