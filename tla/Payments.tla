------------------------------ MODULE Payments ------------------------------
(***************************************************************************)
(* The money path of one maintenance bill: paymentsService.ts (intent,     *)
(* verification, webhook, offline collection, refund) racing the bill      *)
(* operations of billingService.ts (waiver, late fee, dispute, sending).   *)
(*                                                                         *)
(* The services hold no lock and open no transaction around these flows,   *)
(* so each handler is split where it awaits the database or the gateway:   *)
(* one action is the code between two awaits, and handlers interleave.     *)
(* Amounts are whole units of money; the rounding helpers and the 0.01     *)
(* tolerances of the code are the identity on them.                        *)
(***************************************************************************)
EXTENDS Integers, FiniteSets

CONSTANTS
    Payments,        \* payment documents: of a client request id, or offline
    Offline,         \* those among them recorded at the society office
    Handlers,        \* requests the API can be serving at the same time
    BillTotal,       \* what the bill was raised for
    Fee,             \* the late fee of the society's settings
    Ops,             \* the operations clients, staff and the scheduler issue
    GatewayEvents,   \* the webhook events the provider produces
    MaxRequests,     \* bound: requests served in a behaviour
    MaxAborts        \* bound: requests that die at an await

ASSUME PaymentsAssumption ==
    /\ BillTotal \in Nat \ {0} /\ Fee \in Nat \ {0}
    /\ MaxRequests \in Nat /\ MaxAborts \in Nat
    /\ Offline \subseteq Payments
    /\ "none" \notin Payments
    /\ IsFiniteSet(Payments) /\ IsFiniteSet(Handlers)

VARIABLES
    payments,      \* the payments collection
    bill,          \* the maintenance_bills document
    outstanding,   \* units.outstandingAmount of the bill's unit
    cash,          \* ledgers.currentBalance of Bank / Cash
    receipts,      \* RECEIPT entries in the journal, per payment
    gateway,       \* the provider: captured, refunded, events it will deliver
    h,             \* what each request in flight holds in its local variables
    started,       \* requests started so far
    aborts,        \* requests that died so far
    claims         \* history: how often a payment was turned to SUCCESS

store == <<payments, bill, outstanding, cash, receipts>>
vars == <<payments, bill, outstanding, cash, receipts, gateway, h, started,
          aborts, claims>>

-----------------------------------------------------------------------------
PaymentStatus == {"NONE", "INITIATED", "SUCCESS", "FAILED", "REFUNDED",
                  "PARTIALLY_REFUNDED"}
BillStatus == {"GENERATED", "SENT", "PARTIALLY_PAID", "PAID", "OVERDUE",
               "DISPUTED", "WAIVED"}

Payment == [status: PaymentStatus, amount: Nat, refunded: Nat,
            entry: BOOLEAN, receipt: BOOLEAN]
Bill == [total: Nat, paid: Nat, due: Int, waived: Nat, discount: Nat,
         lateFee: Nat, status: BillStatus]
Provider == [captured: BOOLEAN, refunded: Nat,
             events: SUBSET {"captured", "failed", "refunded"}]

Steps == {"idle", "order", "offline", "badSignature", "hookFailed",
          "hookCaptured", "hookRefunded", "claim", "readBill", "writeBill",
          "reduceUnit", "postReceipt", "linkEntry", "stampReceipt",
          "refundGateway", "refundStatus", "refundEntry", "refundReadBill",
          "refundWriteBill", "refundUnit", "waiveWrite", "waiveUnit",
          "feeWrite", "feeUnit", "disputeWrite", "sendWrite"}
NoPaymentSteps == {"idle", "waiveWrite", "waiveUnit", "feeWrite", "feeUnit",
                   "disputeWrite", "sendWrite"}
Local == [pc: Steps, p: Payments \cup {"none"}, amt: Nat, prior: Nat,
          snap: Bill]

NewBill == [total |-> BillTotal, paid |-> 0, due |-> BillTotal, waived |-> 0,
            discount |-> 0, lateFee |-> 0, status |-> "GENERATED"]
NoPayment == [status |-> "NONE", amount |-> 0, refunded |-> 0,
              entry |-> FALSE, receipt |-> FALSE]
Idle == [pc |-> "idle", p |-> "none", amt |-> 0, prior |-> 0, snap |-> NewBill]

TypeOK ==
    /\ payments \in [Payments -> Payment]
    /\ bill \in Bill
    /\ outstanding \in Int
    /\ cash \in Int
    /\ receipts \in [Payments -> Nat]
    /\ gateway \in [Payments -> Provider]
    /\ h \in [Handlers -> Local]
    /\ \A i \in Handlers : h[i].pc \notin NoPaymentSteps => h[i].p \in Payments
    /\ started \in Nat
    /\ aborts \in Nat
    /\ claims \in [Payments -> Nat]

Init ==
    /\ payments = [p \in Payments |-> NoPayment]
    /\ bill = NewBill
    /\ outstanding = BillTotal
    /\ cash = 0
    /\ receipts = [p \in Payments |-> 0]
    /\ gateway = [p \in Payments |->
                    [captured |-> FALSE, refunded |-> 0, events |-> {}]]
    /\ h = [i \in Handlers |-> Idle]
    /\ started = 0
    /\ aborts = 0
    /\ claims = [p \in Payments |-> 0]

-----------------------------------------------------------------------------
(* How requests start, move on and end.                                    *)

NonNeg(n) == IF n < 0 THEN 0 ELSE n

Begin(i, op, local) ==
    /\ op \in Ops
    /\ h[i].pc = "idle"
    /\ started < MaxRequests
    /\ started' = started + 1
    /\ h' = [h EXCEPT ![i] = local]

Goto(i, step) == h' = [h EXCEPT ![i].pc = step]
GotoWithBill(i, step) == h' = [h EXCEPT ![i].pc = step, ![i].snap = bill]
Finish(i) == h' = [h EXCEPT ![i] = Idle]

(* A request that is dropped at an await: the process is killed, or the    *)
(* call it awaits (database, gateway, notification) throws.                *)
Abort(i) ==
    /\ h[i].pc # "idle"
    /\ aborts < MaxAborts
    /\ aborts' = aborts + 1
    /\ Finish(i)
    /\ UNCHANGED <<store, gateway, started, claims>>

-----------------------------------------------------------------------------
(* createIntent and recordOfflinePayment: the payment document.            *)

(* A second intent with the client request id of an open one is answered   *)
(* with the stored order and changes nothing.                              *)
IntentRead(i, p) ==
    /\ p \notin Offline
    /\ bill.status \notin {"PAID", "WAIVED"}
    /\ bill.due > 0
    /\ payments[p].status # "INITIATED"
    /\ Begin(i, "intent", [Idle EXCEPT !.pc = "order", !.p = p, !.amt = bill.due])
    /\ UNCHANGED <<store, gateway, aborts, claims>>

SetStatus(p, status) == payments' = [payments EXCEPT ![p].status = status]

(* Mutant of Insert: the document starts with a status nothing handles.    *)
InsertPending(i) ==
    payments' = [payments EXCEPT ![h[i].p] =
        [NoPayment EXCEPT !.status = "PENDING", !.amount = h[i].amt]]

(* The unique index on clientRequestId rejects a second document.          *)
Insert(i) ==
    payments' = [payments EXCEPT ![h[i].p] =
        [NoPayment EXCEPT !.status = "INITIATED", !.amount = h[i].amt]]

IntentCreate(i) ==
    /\ h[i].pc = "order"
    /\ IF payments[h[i].p].status = "NONE" THEN Insert(i)
                                           ELSE UNCHANGED payments
    /\ Finish(i)
    /\ UNCHANGED <<bill, outstanding, cash, receipts, gateway, started, aborts,
                   claims>>

(* Each call records a document of its own: p is an id nothing uses yet.   *)
(* The status of the bill is not looked at.                                *)
OfflineRead(i, p, a) ==
    /\ a \in 1..bill.due
    /\ p \in Offline
    /\ payments[p].status = "NONE"
    /\ \A j \in Handlers : h[j].p # p
    /\ Begin(i, "offline", [Idle EXCEPT !.pc = "offline", !.p = p, !.amt = a])
    /\ UNCHANGED <<store, gateway, aborts, claims>>

OfflineCreate(i) ==
    /\ h[i].pc = "offline"
    /\ Insert(i)
    /\ Goto(i, "claim")
    /\ UNCHANGED <<bill, outstanding, cash, receipts, gateway, started, aborts,
                   claims>>

-----------------------------------------------------------------------------
(* The provider.                                                           *)

GatewayStep(p, event, provider) ==
    /\ event \in GatewayEvents
    /\ payments[p].status # "NONE" /\ p \notin Offline
    /\ gateway' = [gateway EXCEPT ![p] =
                     [provider EXCEPT !.events = @ \cup {event}]]
    /\ UNCHANGED <<store, h, started, aborts, claims>>

GatewayCapture(p) ==
    /\ ~gateway[p].captured
    /\ GatewayStep(p, "captured", [gateway[p] EXCEPT !.captured = TRUE])

(* A declined attempt on the same order, before the one that succeeds; its *)
(* event may be delivered after the other one, and either may be repeated. *)
GatewayDecline(p) ==
    /\ ~gateway[p].captured /\ "failed" \notin gateway[p].events
    /\ GatewayStep(p, "failed", gateway[p])

GatewayRefund(p) ==
    /\ gateway[p].captured /\ gateway[p].refunded = 0
    /\ GatewayStep(p, "refunded",
                   [gateway[p] EXCEPT !.refunded = payments[p].amount])

-----------------------------------------------------------------------------
(* verifyAndApply and handleWebhook up to applySuccessfulPayment.          *)

Apply(i, p) == [Idle EXCEPT !.pc = "claim", !.p = p, !.amt = payments[p].amount]

VerifyRead(i, p) ==
    /\ payments[p].status \in {"INITIATED", "PARTIALLY_REFUNDED"}
    /\ gateway[p].captured
    /\ Begin(i, "verify", Apply(i, p))
    /\ UNCHANGED <<store, gateway, aborts, claims>>

BadVerifyRead(i, p) ==
    /\ payments[p].status \in {"INITIATED", "PARTIALLY_REFUNDED"}
    /\ Begin(i, "badVerify", [Idle EXCEPT !.pc = "badSignature", !.p = p])
    /\ UNCHANGED <<store, gateway, aborts, claims>>

SetFailed(i, step) ==
    /\ h[i].pc = step
    /\ SetStatus(h[i].p, "FAILED")
    /\ Finish(i)
    /\ UNCHANGED <<bill, outstanding, cash, receipts, gateway, started, aborts,
                   claims>>

(* The update carries no status filter: it fails the payment whatever it   *)
(* became since it was read.                                               *)
RejectSignature(i) == SetFailed(i, "badSignature")

(* Mutant of HookStep: a declined attempt is taken for a captured one.     *)
HookStepAnyPaid == [captured |-> "hookCaptured", failed |-> "hookCaptured",
                    refunded |-> "hookRefunded"]

HookStep == [captured |-> "hookCaptured", failed |-> "hookFailed",
             refunded |-> "hookRefunded"]

(* Any event the provider produced may be delivered, again or late.  Only  *)
(* a payment read as SUCCESS ends the handler here.                        *)
WebhookRead(i, p, event) ==
    /\ event \in gateway[p].events
    /\ payments[p].status # "SUCCESS"
    /\ Begin(i, "webhook", [Idle EXCEPT !.pc = HookStep[event], !.p = p])
    /\ UNCHANGED <<store, gateway, aborts, claims>>

WebhookFailed(i) == SetFailed(i, "hookFailed")

(* fetchPayment: a fully refunded payment may be reported as such, and the *)
(* handler stops; a failed fetch or a captured report goes on.             *)
WebhookCaptured(i) ==
    /\ h[i].pc = "hookCaptured"
    /\ \/ h' = [h EXCEPT ![i] = Apply(i, h[i].p)]
       \/ /\ gateway[h[i].p].refunded >= payments[h[i].p].amount
          /\ Finish(i)
    /\ UNCHANGED <<store, gateway, started, aborts, claims>>

-----------------------------------------------------------------------------
(* applySuccessfulPayment, the branch for a bill.                          *)

(* Mutant of Claimable: the filter of the claim forgets refunded payments. *)
ClaimableAgain(status) == status # "SUCCESS"

Claimable(status) == status \notin {"SUCCESS", "REFUNDED"}

ClaimWon(i) ==
    /\ h[i].pc = "claim"
    /\ Claimable(payments[h[i].p].status)
    /\ SetStatus(h[i].p, "SUCCESS")
    /\ claims' = [claims EXCEPT ![h[i].p] = @ + 1]
    /\ Goto(i, "readBill")
    /\ UNCHANGED <<bill, outstanding, cash, receipts, gateway, started, aborts>>

(* Mutant of ClaimLost: the number of matched documents is not looked at.  *)
ClaimLostGoesOn(i) ==
    /\ h[i].pc = "claim"
    /\ ~Claimable(payments[h[i].p].status)
    /\ Goto(i, "readBill")
    /\ UNCHANGED <<store, gateway, started, aborts, claims>>

ClaimLost(i) ==
    /\ h[i].pc = "claim"
    /\ ~Claimable(payments[h[i].p].status)
    /\ Finish(i)
    /\ UNCHANGED <<store, gateway, started, aborts, claims>>

(* Mutant of ReadBill: a bill already marked PAID ends the handler.        *)
ReadBillUnlessPaid(i) ==
    /\ h[i].pc = "readBill"
    /\ IF bill.status = "PAID" THEN Finish(i) ELSE GotoWithBill(i, "writeBill")
    /\ UNCHANGED <<store, gateway, started, aborts, claims>>

ReadBill(i) ==
    /\ h[i].pc = "readBill"
    /\ GotoWithBill(i, "writeBill")
    /\ UNCHANGED <<store, gateway, started, aborts, claims>>

(* Mutant of PaidInto: any payment is taken to settle the whole bill.      *)
PaidInFull(snap, amt) ==
    [paid |-> snap.paid + snap.due, due |-> 0, status |-> "PAID"]

PaidInto(snap, amt) ==
    LET paid == snap.paid + amt
        due == NonNeg(snap.total - paid - snap.waived)
    IN  [paid |-> paid, due |-> due,
         status |-> IF due <= 0 THEN "PAID" ELSE "PARTIALLY_PAID"]

SetBill(fields) ==
    bill' = [bill EXCEPT !.paid = fields.paid, !.due = fields.due,
                         !.status = fields.status]

WriteBill(i) ==
    /\ h[i].pc = "writeBill"
    /\ SetBill(PaidInto(h[i].snap, h[i].amt))
    /\ Goto(i, "reduceUnit")
    /\ UNCHANGED <<payments, outstanding, cash, receipts, gateway, started,
                   aborts, claims>>

ReduceUnit(i) ==
    /\ h[i].pc = "reduceUnit"
    /\ outstanding' = outstanding - h[i].amt
    /\ Goto(i, "postReceipt")
    /\ UNCHANGED <<payments, bill, cash, receipts, gateway, started, aborts,
                   claims>>

PostReceipt(i) ==
    /\ h[i].pc = "postReceipt"
    /\ receipts' = [receipts EXCEPT ![h[i].p] = @ + 1]
    /\ cash' = cash + h[i].amt
    /\ Goto(i, "linkEntry")
    /\ UNCHANGED <<payments, bill, outstanding, gateway, started, aborts, claims>>

LinkEntry(i) ==
    /\ h[i].pc = "linkEntry"
    /\ payments' = [payments EXCEPT ![h[i].p].entry = TRUE]
    /\ Goto(i, "stampReceipt")
    /\ UNCHANGED <<bill, outstanding, cash, receipts, gateway, started, aborts,
                   claims>>

(* renderReceiptPdf throws for a payment that is no longer settled.        *)
StampReceipt(i) ==
    /\ h[i].pc = "stampReceipt"
    /\ payments' =
         [payments EXCEPT ![h[i].p].receipt =
            @ \/ payments[h[i].p].status \in
                   {"SUCCESS", "REFUNDED", "PARTIALLY_REFUNDED"}]
    /\ Finish(i)
    /\ UNCHANGED <<bill, outstanding, cash, receipts, gateway, started, aborts,
                   claims>>

-----------------------------------------------------------------------------
(* refundPayment.                                                          *)

Refundable(p, a) ==
    /\ payments[p].status = "SUCCESS"
    /\ a \in Nat \ {0}
    /\ a + payments[p].refunded <= payments[p].amount

Refund(p, a) == [Idle EXCEPT !.pc = "refundGateway", !.p = p, !.amt = a,
                             !.prior = payments[p].refunded]

Remaining(p) == payments[p].amount - payments[p].refunded

RefundRead(i, p) ==
    /\ Refundable(p, Remaining(p))
    /\ Begin(i, "refund", Refund(p, Remaining(p)))
    /\ UNCHANGED <<store, gateway, aborts, claims>>

PartialRefundRead(i, p, a) ==
    /\ Refundable(p, a)
    /\ Begin(i, "partialRefund", Refund(p, a))
    /\ UNCHANGED <<store, gateway, aborts, claims>>

(* A refund made at the gateway reaches the same service, which reads the  *)
(* payment again and accepts only SUCCESS.                                 *)
WebhookRefunded(i) ==
    /\ h[i].pc = "hookRefunded"
    /\ IF Refundable(h[i].p, Remaining(h[i].p))
         THEN h' = [h EXCEPT ![i] = Refund(h[i].p, Remaining(h[i].p))]
         ELSE Finish(i)
    /\ UNCHANGED <<store, gateway, started, aborts, claims>>

RefundGateway(i) ==
    /\ h[i].pc = "refundGateway"
    /\ gateway' = IF h[i].p \in Offline THEN gateway
                  ELSE [gateway EXCEPT ![h[i].p].refunded = @ + h[i].amt]
    /\ Goto(i, "refundStatus")
    /\ UNCHANGED <<store, started, aborts, claims>>

RefundStatus(i) ==
    /\ h[i].pc = "refundStatus"
    /\ LET total == h[i].prior + h[i].amt
       IN  payments' =
             [payments EXCEPT
                ![h[i].p].refunded = total,
                ![h[i].p].status = IF total >= payments[h[i].p].amount
                                   THEN "REFUNDED" ELSE "PARTIALLY_REFUNDED"]
    /\ Goto(i, "refundEntry")
    /\ UNCHANGED <<bill, outstanding, cash, receipts, gateway, started, aborts,
                   claims>>

RefundEntry(i) ==
    /\ h[i].pc = "refundEntry"
    /\ cash' = cash - h[i].amt
    /\ Goto(i, "refundReadBill")
    /\ UNCHANGED <<payments, bill, outstanding, receipts, gateway, started,
                   aborts, claims>>

RefundReadBill(i) ==
    /\ h[i].pc = "refundReadBill"
    /\ GotoWithBill(i, "refundWriteBill")
    /\ UNCHANGED <<store, gateway, started, aborts, claims>>

RefundedFrom(snap, amt) ==
    LET paid == NonNeg(snap.paid - amt)
        due == snap.total - paid - snap.waived
    IN  [paid |-> paid, due |-> due,
         status |-> IF due <= 0 THEN "PAID" ELSE "PARTIALLY_PAID"]

RefundWriteBill(i) ==
    /\ h[i].pc = "refundWriteBill"
    /\ SetBill(RefundedFrom(h[i].snap, h[i].amt))
    /\ Goto(i, "refundUnit")
    /\ UNCHANGED <<payments, outstanding, cash, receipts, gateway, started,
                   aborts, claims>>

(* Mutant of RefundUnit: the unit does not owe the refund again.           *)
RefundUnitSkipped(i) ==
    /\ h[i].pc = "refundUnit"
    /\ Finish(i)
    /\ UNCHANGED <<store, gateway, started, aborts, claims>>

RefundUnit(i) ==
    /\ h[i].pc = "refundUnit"
    /\ outstanding' = outstanding + h[i].amt
    /\ Finish(i)
    /\ UNCHANGED <<payments, bill, cash, receipts, gateway, started, aborts,
                   claims>>

-----------------------------------------------------------------------------
(* The other writers of the bill.                                          *)

WaiveRead(i, w) ==
    /\ bill.status \notin {"PAID", "WAIVED"}
    /\ w \in 1..bill.due
    /\ Begin(i, "waive",
             [Idle EXCEPT !.pc = "waiveWrite", !.amt = w, !.snap = bill])
    /\ UNCHANGED <<store, gateway, aborts, claims>>

WaiveWrite(i) ==
    /\ h[i].pc = "waiveWrite"
    /\ LET due == h[i].snap.due - h[i].amt
       IN  bill' = [bill EXCEPT
                      !.due = due,
                      !.waived = h[i].snap.waived + h[i].amt,
                      !.discount = @ + h[i].amt,
                      !.status = IF due <= 0 THEN "WAIVED" ELSE h[i].snap.status]
    /\ Goto(i, "waiveUnit")
    /\ UNCHANGED <<payments, outstanding, cash, receipts, gateway, started,
                   aborts, claims>>

WaiveUnit(i) ==
    /\ h[i].pc = "waiveUnit"
    /\ outstanding' = outstanding - h[i].amt
    /\ Finish(i)
    /\ UNCHANGED <<payments, bill, cash, receipts, gateway, started, aborts,
                   claims>>

(* applyLateFees: the bill is past its grace period in this model.  The    *)
(* query filters on lateFee = 0, the update does not.                      *)
FeeRead(i) ==
    /\ bill.due > 0
    /\ bill.status \in {"GENERATED", "SENT", "PARTIALLY_PAID"}
    /\ bill.lateFee = 0
    /\ Begin(i, "lateFee", [Idle EXCEPT !.pc = "feeWrite"])
    /\ UNCHANGED <<store, gateway, aborts, claims>>

(* Mutant of FeeWrite: the fee leaves the status of the bill alone.        *)
FeeWriteKeepsStatus(i) ==
    /\ h[i].pc = "feeWrite"
    /\ bill' = [bill EXCEPT !.lateFee = @ + Fee, !.total = @ + Fee, !.due = @ + Fee]
    /\ Goto(i, "feeUnit")
    /\ UNCHANGED <<payments, outstanding, cash, receipts, gateway, started,
                   aborts, claims>>

FeeWrite(i) ==
    /\ h[i].pc = "feeWrite"
    /\ bill' = [bill EXCEPT !.status = "OVERDUE", !.lateFee = @ + Fee,
                            !.total = @ + Fee, !.due = @ + Fee]
    /\ Goto(i, "feeUnit")
    /\ UNCHANGED <<payments, outstanding, cash, receipts, gateway, started,
                   aborts, claims>>

FeeUnit(i) ==
    /\ h[i].pc = "feeUnit"
    /\ outstanding' = outstanding + Fee
    /\ Finish(i)
    /\ UNCHANGED <<payments, bill, cash, receipts, gateway, started, aborts,
                   claims>>

DisputeRead(i) ==
    /\ bill.status # "PAID"
    /\ Begin(i, "dispute", [Idle EXCEPT !.pc = "disputeWrite"])
    /\ UNCHANGED <<store, gateway, aborts, claims>>

DisputeWrite(i) ==
    /\ h[i].pc = "disputeWrite"
    /\ bill' = [bill EXCEPT !.status = "DISPUTED"]
    /\ Finish(i)
    /\ UNCHANGED <<payments, outstanding, cash, receipts, gateway, started,
                   aborts, claims>>

SendRead(i) ==
    /\ bill.status \notin {"PAID", "WAIVED"}
    /\ Begin(i, "send", [Idle EXCEPT !.pc = "sendWrite", !.snap = bill])
    /\ UNCHANGED <<store, gateway, aborts, claims>>

SendWrite(i) ==
    /\ h[i].pc = "sendWrite"
    /\ bill' = [bill EXCEPT !.status =
                  IF h[i].snap.status = "PARTIALLY_PAID" THEN "PARTIALLY_PAID"
                                                         ELSE "SENT"]
    /\ Finish(i)
    /\ UNCHANGED <<payments, outstanding, cash, receipts, gateway, started,
                   aborts, claims>>

-----------------------------------------------------------------------------
(* A request enters the service.                                           *)
Request(i) ==
    \/ \E p \in Payments :
          \/ IntentRead(i, p)
          \/ VerifyRead(i, p)
          \/ BadVerifyRead(i, p)
          \/ RefundRead(i, p)
          \/ \E a \in 1..bill.due : OfflineRead(i, p, a)
          \/ \E a \in 1..payments[p].amount : PartialRefundRead(i, p, a)
          \/ \E event \in GatewayEvents : WebhookRead(i, p, event)
    \/ \E w \in 1..bill.due : WaiveRead(i, w)
    \/ FeeRead(i)
    \/ DisputeRead(i)
    \/ SendRead(i)

(* A request in flight goes on with what it awaited.                       *)
Continue(i) ==
    \/ IntentCreate(i)    \/ OfflineCreate(i)
    \/ RejectSignature(i) \/ WebhookFailed(i)
    \/ WebhookCaptured(i) \/ WebhookRefunded(i)
    \/ ClaimWon(i)        \/ ClaimLost(i)
    \/ ReadBill(i)        \/ WriteBill(i)
    \/ ReduceUnit(i)      \/ PostReceipt(i)
    \/ LinkEntry(i)       \/ StampReceipt(i)
    \/ RefundGateway(i)   \/ RefundStatus(i)
    \/ RefundEntry(i)     \/ RefundReadBill(i)
    \/ RefundWriteBill(i) \/ RefundUnit(i)
    \/ WaiveWrite(i)      \/ WaiveUnit(i)
    \/ FeeWrite(i)        \/ FeeUnit(i)
    \/ DisputeWrite(i)    \/ SendWrite(i)

ProviderStep ==
    \E p \in Payments : \/ GatewayCapture(p)
                        \/ GatewayDecline(p)
                        \/ GatewayRefund(p)

Next == \/ \E i \in Handlers : Request(i) \/ Continue(i) \/ Abort(i)
        \/ ProviderStep

Spec == Init /\ [][Next]_vars

(* The event loop resumes every request whose awaited call has answered;   *)
(* nothing makes a client, the provider or the staff act.                  *)
FairSpec == Spec /\ \A i \in Handlers : WF_vars(Continue(i))

-----------------------------------------------------------------------------
(* Properties.                                                             *)

Quiet == \A i \in Handlers : h[i].pc = "idle"
Settled == {p \in Payments : payments[p].status \in {"SUCCESS", "REFUNDED"}}

(* A bill shown as PAID or WAIVED has nothing due, whichever of the seven  *)
(* writers of its status and its due amount raced (paymentsService.ts,     *)
(* billingService.ts: waiver, late fee, dispute, sending, refund).         *)
SettledOwesNothing == bill.status \in {"PAID", "WAIVED"} => bill.due <= 0

(* An online payment is only ever turned to SUCCESS for an order the       *)
(* provider captured: neither a bad signature nor the event of a declined  *)
(* attempt credits a bill, in whatever order they are handled.             *)
CreditNeedsCapture ==
    \A p \in Payments \ Offline : claims[p] > 0 => gateway[p].captured

(* No payment is booked more often than it was claimed, and once nothing   *)
(* is in flight and no request died, every claim has its receipt entry.    *)
EntryPerClaim ==
    \A p \in Payments : /\ receipts[p] <= claims[p]
                        /\ Quiet /\ aborts = 0 => receipts[p] = claims[p]

(* The bill never shows more paid than was claimed for it, whatever reads  *)
(* of the bill raced with whatever writes of it (applySuccessfulPayment).  *)
(* The units of money claimed, of all payments, are counted as a set.      *)
Claimed ==
    UNION {{p} \X (1 .. claims[p] * payments[p].amount) : p \in Payments}
PaidIsBacked == bill.paid <= Cardinality(Claimed)

(* What the residents of the unit owe agrees with the cash book whenever   *)
(* nothing is in flight and no request died: the bill with its fees, less  *)
(* its waivers, less the money received net of refunds.                    *)
UnitAgreesWithBooks ==
    Quiet /\ aborts = 0 =>
        outstanding = BillTotal + bill.lateFee - bill.discount - cash

(* Without refunds of a part, declined events and bad signatures, a        *)
(* payment is claimed once and booked at most once: SettleOnce.            *)
Once == INSTANCE SettleOnce WITH settled <- Settled, posted <- receipts
SettlesOnce == Once!Spec

(* Every claimed payment gets its receipt entry if requests do not die.    *)
ClaimIsBooked ==
    \A p \in Payments :
        claims[p] > receipts[p] ~> (claims[p] = receipts[p] \/ aborts > 0)

-----------------------------------------------------------------------------
(* What comments of the source say, and the code does not do.              *)

(* paymentsService.ts 20-24: the payment, the bill, the receipt and the    *)
(* journal move in one transaction, so that a payment is never recorded    *)
(* without its ledger entry.                                               *)
RecordedWithEntry ==
    Quiet => \A p \in Payments : payments[p].status = "SUCCESS" => payments[p].entry

(* paymentsService.ts 26-27: a bill already marked PAID rejects a second   *)
(* application of the same amount.                                         *)
PaidBillRejects == [][bill.status = "PAID" => bill'.paid <= bill.paid]_vars

(* paymentsService.ts 359: only an unpaid payment can transition to        *)
(* SUCCESS; a payment that was claimed before is not unpaid.               *)
OnlyUnpaidSucceeds ==
    [][\A p \in Payments : claims'[p] > claims[p] => claims[p] = 0]_vars
=============================================================================
