------------------------------- MODULE Billing ------------------------------
(***************************************************************************)
(* The raising of maintenance bills: billingService.ts (the bulk run with  *)
(* its preview, the manual bill, sending, disputing, the reports of what   *)
(* is due) and the bill routes of financeRouter.ts.  Handlers are split at *)
(* their awaits.  Money that comes in is the subject of Payments; here one *)
(* step settles a bill.                                                    *)
(*                                                                         *)
(* A bill is created inside withTransaction, which hands no session to the *)
(* calls; the unit's outstandingAmount is incremented after it.            *)
(***************************************************************************)
EXTENDS Integers, FiniteSets, Functions

CONSTANTS
    Units,         \* flats
    Periods,       \* billing months, as numbers
    Heads,         \* heads of charge: fixed, water, parking, ...
    Rates,         \* [Units -> [Heads -> Nat]]: what a unit is charged under each
    LateFee,       \* lateFeeValue of the settings, of type FIXED
    Scopes,        \* bound: the sets of units bulk runs are asked for
    Runs,          \* bound: the options bulk runs are asked for
    Callers,       \* requests the API can be serving at the same time
    MaxServed,     \* bound: requests served in a behaviour
    MaxDropped     \* bound: requests that die in a behaviour

Option == [heads : SUBSET Heads, carry : BOOLEAN, dry : BOOLEAN, send : BOOLEAN]

ASSUME BillingAssumption ==
    /\ Periods \subseteq Nat /\ Periods # {} /\ IsFiniteSet(Periods)
    /\ IsFiniteSet(Heads) /\ IsFiniteSet(Callers)
    /\ Rates \in [Units -> [Heads -> Nat]]
    /\ LateFee \in Nat
    /\ Scopes \subseteq SUBSET Units \ {{}}
    /\ Runs \subseteq Option
    /\ MaxServed \in Nat /\ MaxDropped \in Nat
    /\ "none" \notin Units

VARIABLES
    bill,          \* the maintenance_bills collection, unique by unit and period
    outstanding,   \* units.outstandingAmount
    req,           \* what each request in flight holds
    served,        \* requests started so far
    dropped,       \* requests that died so far
    unadded        \* history: what requests that died never added to a unit

billingVars == <<bill, outstanding, req, served, dropped, unadded>>

-----------------------------------------------------------------------------
Bill == [status : {"NONE", "GENERATED", "SENT", "PAID", "DISPUTED"}, mode : {"BULK", "MANUAL"},
         charge : Nat, arrears : Nat, fee : Nat, due : Nat]
NoBill == [status |-> "NONE", mode |-> "BULK", charge |-> 0, arrears |-> 0, fee |-> 0, due |-> 0]
(* The statuses whose dues are carried forward, and those that are chased. *)
Carried == {"GENERATED", "SENT"}
Chased == Carried \cup {"DISPUTED"}

BillingSteps == {"idle", "check", "arrears", "create", "accrue", "owe", "send", "sent", "dispute"}
Serving == [pc : BillingSteps, p : Periods \cup {0}, scope : SUBSET Units,
            todo : SUBSET Units, billed : SUBSET Units, u : Units \cup {"none"},
            option : Option, draft : Bill]
NoOption == [heads |-> {}, carry |-> TRUE, dry |-> FALSE, send |-> FALSE]
NoRequest == [pc |-> "idle", p |-> 0, scope |-> {}, todo |-> {}, billed |-> {},
              u |-> "none", option |-> NoOption, draft |-> NoBill]

BillingTypeOK ==
    /\ bill \in [Units -> [Periods -> Bill]]
    /\ outstanding \in [Units -> Int]
    /\ req \in [Callers -> Serving]
    /\ served \in 0..MaxServed
    /\ dropped \in 0..MaxDropped
    /\ unadded \in [Units -> Nat]

FirstPeriod == CHOOSE p \in Periods : \A q \in Periods : p <= q

(* A month may have been billed before: a bill is sent, or disputed.       *)
Billed(u, status) ==
    LET charge == SumFunctionOnSet(Rates[u], Heads)
    IN [NoBill EXCEPT !.status = status, !.charge = charge, !.due = charge]

BillingInit ==
    /\ \E earlier \in [Units -> {"NONE", "SENT", "DISPUTED"}] :
          bill = [u \in Units |-> [p \in Periods |->
                    IF p = FirstPeriod /\ earlier[u] # "NONE"
                      THEN Billed(u, earlier[u]) ELSE NoBill]]
    /\ outstanding = [u \in Units |-> bill[u][FirstPeriod].due]
    /\ req = [i \in Callers |-> NoRequest]
    /\ served = 0
    /\ dropped = 0
    /\ unadded = [u \in Units |-> 0]

-----------------------------------------------------------------------------
Accept(i, local) ==
    /\ req[i].pc = "idle"
    /\ served < MaxServed
    /\ served' = served + 1
    /\ req' = [req EXCEPT ![i] = local]
    /\ UNCHANGED <<bill, outstanding, dropped, unadded>>

Doing(i, step) == req[i].pc = step /\ UNCHANGED <<served, dropped, unadded>>
Then(i, step) == req' = [req EXCEPT ![i].pc = step]
Reply(i) == req' = [req EXCEPT ![i] = NoRequest]

Raised(u, p) == bill[u][p].status # "NONE"
ByHand(i) == req[i].draft.mode = "MANUAL"

(* A bill that was created and is not yet in its unit's outstanding amount.*)
NotYetOwed(i, u) ==
    IF req[i].pc \in {"accrue", "owe"} /\ req[i].u = u THEN req[i].draft.due ELSE 0

(* A request, or a whole run, dropped at an await.                         *)
Drop(i) ==
    /\ req[i].pc # "idle"
    /\ dropped < MaxDropped
    /\ dropped' = dropped + 1
    /\ unadded' = [u \in Units |-> unadded[u] + NotYetOwed(i, u)]
    /\ Reply(i)
    /\ UNCHANGED <<bill, outstanding, served>>

-----------------------------------------------------------------------------
(* generateBills                                                           *)

(* computeBillLines: the heads that were asked for, at the unit's rates.   *)
Subtotal(u, heads) == SumFunctionOnSet(Rates[u], heads)

(* What earlier bills of the unit still have due.                          *)
Arrears(u, p) ==
    SumFunctionOnSet([q \in Periods |-> IF q < p /\ bill[u][q].status \in Carried
                                          THEN bill[u][q].due ELSE 0], Periods)

(* The loop goes on to the unit's successor.                               *)
NextUnit(i, billed) ==
    req' = [req EXCEPT ![i].pc = "check", ![i].todo = @ \ {req[i].u}, ![i].u = "none",
                   ![i].billed = @ \cup billed]

Generate(i, p, scope, option) ==
    Accept(i, [NoRequest EXCEPT !.pc = "check", !.p = p, !.scope = scope, !.todo = scope,
                   !.option = option])

(* The unit has no bill of the period yet, or is skipped.                  *)
Check(i, u) ==
    /\ Doing(i, "check")
    /\ u \in req[i].todo
    /\ req' = IF Raised(u, req[i].p)
              THEN [req EXCEPT ![i].todo = @ \ {u}]
              ELSE [req EXCEPT ![i].pc = "arrears", ![i].u = u]
    /\ UNCHANGED <<bill, outstanding>>

(* Lines, arrears and the late fee on them make the total; a preview stops *)
(* here, and so does a unit that owes nothing.                             *)
Draft(i, mode) ==
    LET u == req[i].u
        charge == Subtotal(u, req[i].option.heads)
        arrears == IF req[i].option.carry THEN Arrears(u, req[i].p) ELSE 0
        fee == IF arrears > 0 /\ mode = "BULK" THEN LateFee ELSE 0
    IN [status |-> IF req[i].option.send /\ mode = "MANUAL" THEN "SENT" ELSE "GENERATED",
        mode |-> mode, charge |-> charge, arrears |-> arrears, fee |-> fee,
        due |-> charge + arrears + fee]

ReadArrears(i) ==
    /\ Doing(i, "arrears")
    /\ LET draft == Draft(i, req[i].draft.mode) IN
         IF draft.due = 0 \/ req[i].option.dry
           THEN IF ByHand(i) THEN Reply(i) ELSE NextUnit(i, {})
           ELSE req' = [req EXCEPT ![i].pc = "create", ![i].draft = draft]
    /\ UNCHANGED <<bill, outstanding>>

(* Mutant of Refused: an error of one unit leaves the loop.                *)
RefusedEnds(i) == Reply(i)

(* The unique index refuses a second bill; the run notes the error and     *)
(* goes on, the manual request ends with it.                               *)
Refused(i) == IF ByHand(i) THEN Reply(i) ELSE NextUnit(i, {})

Create(i) ==
    /\ Doing(i, "create")
    /\ LET u == req[i].u
           p == req[i].p
       IN IF Raised(u, p)
            THEN Refused(i) /\ UNCHANGED bill
            ELSE /\ bill' = [bill EXCEPT ![u][p] = req[i].draft]
                 /\ Then(i, IF ByHand(i) THEN "accrue" ELSE "owe")
    /\ UNCHANGED outstanding

(* Mutant of Owed: what is added is the charge of the month alone.         *)
OwedCharge(draft) == draft.charge

Owed(draft) == draft.due

Owe(i) ==
    /\ Doing(i, "owe")
    /\ outstanding' = [outstanding EXCEPT ![req[i].u] = @ + Owed(req[i].draft)]
    /\ IF ByHand(i) THEN Reply(i) ELSE NextUnit(i, {req[i].u})
    /\ UNCHANGED bill

(* The loop is over: the bills are sent if the caller asked for that.      *)
EndRun(i) ==
    /\ Doing(i, "check")
    /\ req[i].todo = {}
    /\ IF req[i].option.send /\ req[i].billed # {}
         THEN req' = [req EXCEPT ![i].pc = "send", ![i].todo = req[i].billed]
         ELSE Reply(i)
    /\ UNCHANGED <<bill, outstanding>>

-----------------------------------------------------------------------------
(* createBill: the manual bill, with its accrual in the journal.           *)
CreateRead(i, u, p, heads, send) ==
    /\ ~Raised(u, p)
    /\ Accept(i, [NoRequest EXCEPT !.pc = "arrears", !.p = p, !.u = u,
                   !.draft.mode = "MANUAL",
                   !.option = [NoOption EXCEPT !.heads = heads, !.send = send]])

(* postBillAccrual, once the bill has its lines; its entry is of Books.    *)
Accrue(i) ==
    /\ Doing(i, "accrue")
    /\ Then(i, "owe")
    /\ UNCHANGED <<bill, outstanding>>

-----------------------------------------------------------------------------
(* sendBills: a read, then the status of a bill that is still to be paid.  *)
Send(i, u, p) ==
    /\ Raised(u, p)
    /\ Accept(i, [NoRequest EXCEPT !.pc = "send", !.p = p, !.todo = {u}])

SendRead(i, u) ==
    /\ Doing(i, "send")
    /\ u \in req[i].todo
    /\ req' = [req EXCEPT ![i].todo = @ \ {u},
               ![i].u = u,
               ![i].pc = IF bill[u][req[i].p].status = "PAID" THEN "send" ELSE "sent"]
    /\ UNCHANGED <<bill, outstanding>>

SendWrite(i) ==
    /\ Doing(i, "sent")
    /\ bill' = [bill EXCEPT ![req[i].u][req[i].p].status = "SENT"]
    /\ Then(i, "send")
    /\ UNCHANGED outstanding

SendEnd(i) ==
    /\ Doing(i, "send")
    /\ req[i].todo = {}
    /\ Reply(i)
    /\ UNCHANGED <<bill, outstanding>>

(* disputeBill, asked for by a resident of the unit or by the office.      *)
Dispute(i, u, p) ==
    /\ bill[u][p].status \notin {"NONE", "PAID"}
    /\ Accept(i, [NoRequest EXCEPT !.pc = "dispute", !.u = u, !.p = p])

DisputeWrite(i) ==
    /\ Doing(i, "dispute")
    /\ bill' = [bill EXCEPT ![req[i].u][req[i].p].status = "DISPUTED"]
    /\ Reply(i)
    /\ UNCHANGED outstanding

(* A payment of all that is due, applied to bill and unit (Payments).      *)
SettleBill(u, p) ==
    /\ bill[u][p].due > 0
    /\ outstanding' = [outstanding EXCEPT ![u] = @ - bill[u][p].due]
    /\ bill' = [bill EXCEPT ![u][p].due = 0, ![u][p].status = "PAID"]
    /\ UNCHANGED <<req, served, dropped, unadded>>

-----------------------------------------------------------------------------
Ask(i) ==
    \/ \E p \in Periods, scope \in Scopes, option \in Runs :
          Generate(i, p, scope, option)
    \/ \E u \in Units, p \in Periods, send \in BOOLEAN : CreateRead(i, u, p, Heads, send)
    \/ \E u \in Units, p \in Periods : Send(i, u, p) \/ Dispute(i, u, p)

Proceed(i) ==
    \/ (\E u \in Units : Check(i, u) \/ SendRead(i, u))
    \/ ReadArrears(i) \/ Create(i) \/ Accrue(i) \/ Owe(i) \/ EndRun(i)
    \/ SendWrite(i) \/ SendEnd(i) \/ DisputeWrite(i)

BillingNext ==
    \/ \E i \in Callers : Ask(i) \/ Proceed(i) \/ Drop(i)
    \/ \E u \in Units, p \in Periods : SettleBill(u, p)

BillingSpec == BillingInit /\ [][BillingNext]_billingVars

-----------------------------------------------------------------------------
(* PROPERTIES                                                              *)

(* What the reports say of a unit: defaulters, by the status of the bills. *)
TotalDue(u) ==
    SumFunctionOnSet([p \in Periods |-> IF bill[u][p].status \in Chased
                                          THEN bill[u][p].due ELSE 0], Periods)

(* The running amount of a unit is what the defaulters report says it owes,*)
(* less the bills in the making and those whose request died between the   *)
(* two writes, whatever was sent, disputed, billed twice at once or paid   *)
(* (billingService.ts 399-402, 611-614, 1021-1062).                        *)
OutstandingIsDue ==
    \A u \in Units :
        outstanding[u] + unadded[u] + SumFunctionOnSet([i \in Callers |-> NotYetOwed(i, u)], Callers)
          = TotalDue(u)

(* A run that comes to its end, not dying, has left no unit of its scope   *)
(* unbilled that had something to be billed for, whoever else was billing  *)
(* the same month and whatever was refused on the way (256-410).           *)
RunCovers ==
    [][\A i \in Callers :
          req[i].scope # {} /\ ~req[i].option.dry /\ req'[i] = NoRequest /\ dropped' = dropped =>
              \A u \in req[i].scope :
                  Subtotal(u, req[i].option.heads) > 0 => Raised(u, req[i].p)]_billingVars

(* What a unit owes never exceeds what it was charged and fined, which the *)
(* comment on arrears takes for granted: "Carry forward anything still     *)
(* unpaid from earlier periods" (billingService.ts 270).                   *)
OwesWhatWasCharged ==
    \A u \in Units :
        outstanding[u] <= SumFunctionOnSet([p \in Periods |-> bill[u][p].charge + bill[u][p].fee],
                                           Periods)
=============================================================================
