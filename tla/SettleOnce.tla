----------------------------- MODULE SettleOnce -----------------------------
(***************************************************************************)
(* What the payments service promises of a payment document: the money is  *)
(* taken at most once, and the receipt that books it is posted at most     *)
(* once, after the money was taken.  Payments.tla is shown to implement    *)
(* this under the conditions its README section states.                    *)
(***************************************************************************)
EXTENDS Naturals

CONSTANT Payments

VARIABLES settled,   \* the payments whose money has been taken
          posted     \* how many receipt entries the journal holds per payment

vars == <<settled, posted>>

Init == /\ settled = {}
        /\ posted = [p \in Payments |-> 0]

Settle(p) == /\ p \notin settled
             /\ settled' = settled \cup {p}
             /\ UNCHANGED posted

Post(p) == /\ p \in settled
           /\ posted[p] = 0
           /\ posted' = [posted EXCEPT ![p] = 1]
           /\ UNCHANGED settled

Next == \E p \in Payments : Settle(p) \/ Post(p)

Spec == Init /\ [][Next]_vars
=============================================================================
