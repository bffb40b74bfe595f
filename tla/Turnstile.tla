----------------------------- MODULE Turnstile -----------------------------
(***************************************************************************)
(* What a QR pass promises: it admits at most as often as it was issued    *)
(* for, only while it is live, and once it is dead (used up, expired or    *)
(* revoked) it never admits again.  Visits.tla is shown to implement this. *)
(***************************************************************************)
EXTENDS Naturals

CONSTANT Passes

VARIABLES live,      \* the passes that may still admit
          used,      \* admissions charged to each pass
          allowed    \* what it was issued for; 0 before it is issued

vars == <<live, used, allowed>>

Init == /\ live = {}
        /\ used = [p \in Passes |-> 0]
        /\ allowed = [p \in Passes |-> 0]

Issue(p) == /\ allowed[p] = 0
            /\ allowed'[p] \in Nat \ {0}
            /\ allowed' = [allowed EXCEPT ![p] = allowed'[p]]
            /\ live' = live \cup {p}
            /\ UNCHANGED used

(* The admission that uses the pass up may kill it in the same step.       *)
Admit(p) == /\ p \in live
            /\ used[p] < allowed[p]
            /\ used' = [used EXCEPT ![p] = @ + 1]
            /\ \/ live' = live
               \/ used'[p] = allowed[p] /\ live' = live \ {p}
            /\ UNCHANGED allowed

Kill == /\ live' \subseteq live
        /\ UNCHANGED <<used, allowed>>

Next == Kill \/ \E p \in Passes : Issue(p) \/ Admit(p)

Spec == Init /\ [][Next]_vars
=============================================================================
