--------------------------- MODULE PaymentsProofs ---------------------------
(***************************************************************************)
(* Proofs about Payments, for every finite set of payments and handlers,   *)
(* every mix of operations and events, and every amount: the types, that a *)
(* settled bill owes nothing, that a credit needs a capture, the           *)
(* refinement of SettleOnce, that every claim has its entry, that the unit *)
(* agrees with the books, and that what is paid was claimed.               *)
(***************************************************************************)
EXTENDS Payments, FiniteSetTheorems, FunctionTheorems, TLAPS

-----------------------------------------------------------------------------
(* Typing: TypeOK in two parts, the requests in flight and the rest.       *)

HandlersTyped ==
    /\ h \in [Handlers -> Local]
    /\ \A i \in Handlers : h[i].pc \notin NoPaymentSteps => h[i].p \in Payments

(* The records every state starts from have their types.                   *)
LEMMA RecordTypes ==
    /\ NewBill \in Bill
    /\ NoPayment \in Payment
    /\ Idle \in Local
    /\ Idle.pc \in NoPaymentSteps
<1>1. NewBill \in Bill
  BY PaymentsAssumption DEF NewBill, Bill, BillStatus
<1>2. NoPayment \in Payment
  BY DEF NoPayment, Payment, PaymentStatus
<1>3. Idle \in Local
  BY <1>1 DEF Idle, Local, Steps
<1>4. Idle.pc \in NoPaymentSteps
  BY DEF Idle, NoPaymentSteps
<1>5. QED
  BY <1>1, <1>2, <1>3, <1>4

(* The fields of a well typed state.                                       *)
LEMMA FieldTypes ==
    ASSUME TypeOK
    PROVE  /\ HandlersTyped
           /\ \A i \in Handlers : /\ h[i] \in Local
                                  /\ h[i].pc \in Steps
                                  /\ h[i].amt \in Nat
                                  /\ h[i].prior \in Nat
                                  /\ h[i].snap \in Bill
           /\ \A p \in Payments : /\ payments[p] \in Payment
                                  /\ payments[p].status \in PaymentStatus
                                  /\ payments[p].amount \in Nat
                                  /\ payments[p].refunded \in Nat
                                  /\ payments[p].receipt \in BOOLEAN
                                  /\ gateway[p] \in Provider
                                  /\ gateway[p].refunded \in Nat
<1>1. HandlersTyped
  BY DEF TypeOK, HandlersTyped
<1>2. ASSUME NEW i \in Handlers
      PROVE  /\ h[i] \in Local /\ h[i].pc \in Steps /\ h[i].amt \in Nat
             /\ h[i].prior \in Nat /\ h[i].snap \in Bill
  <2>1. h[i] \in Local
    BY DEF TypeOK
  <2>2. QED
    BY <2>1 DEF Local
<1>3. ASSUME NEW p \in Payments
      PROVE  /\ payments[p] \in Payment /\ payments[p].status \in PaymentStatus
             /\ payments[p].amount \in Nat /\ payments[p].refunded \in Nat
             /\ payments[p].receipt \in BOOLEAN
  <2>1. payments[p] \in Payment
    BY DEF TypeOK
  <2>2. QED
    BY <2>1 DEF Payment
<1>4. ASSUME NEW p \in Payments
      PROVE  gateway[p] \in Provider /\ gateway[p].refunded \in Nat
  <2>1. gateway[p] \in Provider
    BY DEF TypeOK
  <2>2. QED
    BY <2>1 DEF Provider
<1>5. QED
  BY <1>1, <1>2, <1>3, <1>4

(* The fields of a bill.                                                   *)
LEMMA BillFields ==
    ASSUME NEW b \in Bill
    PROVE  /\ b.total \in Nat /\ b.paid \in Nat /\ b.due \in Int
           /\ b.waived \in Nat /\ b.discount \in Nat /\ b.lateFee \in Nat
           /\ b.status \in BillStatus
  BY DEF Bill

(* A request that starts, moves on or ends keeps its record well typed.    *)
LEMMA LocalStep ==
    ASSUME HandlersTyped, NEW i \in Handlers, NEW local \in Local,
           local.pc \notin NoPaymentSteps => local.p \in Payments,
           h' = [h EXCEPT ![i] = local]
    PROVE  HandlersTyped'
  BY DEF HandlersTyped

(* A request that ends is idle, and idle is typed.                         *)
LEMMA FinishTyped ==
    ASSUME HandlersTyped, NEW i \in Handlers, Finish(i)
    PROVE  HandlersTyped'
  BY LocalStep, RecordTypes DEF Finish

(* A request that moves to its next step keeps what it holds.              *)
LEMMA GotoTyped ==
    ASSUME HandlersTyped, NEW i \in Handlers, NEW step \in Steps,
           \/ step \in NoPaymentSteps
           \/ h[i].pc \notin NoPaymentSteps,
           Goto(i, step)
    PROVE  HandlersTyped'
<1> DEFINE local == [h[i] EXCEPT !.pc = step]
<1>1. h[i] \in Local
  BY DEF HandlersTyped
<1>2. local \in Local /\ local.pc = step /\ local.p = h[i].p
  BY <1>1 DEF Local
<1>3. h' = [h EXCEPT ![i] = local]
  BY DEF Goto
<1>4. local.pc \notin NoPaymentSteps => local.p \in Payments
  BY <1>2 DEF HandlersTyped
<1>5. QED
  BY <1>2, <1>3, <1>4, LocalStep

(* So does one that copies the bill on the way.                            *)
LEMMA SnapTyped ==
    ASSUME HandlersTyped, bill \in Bill, NEW i \in Handlers, NEW step \in Steps,
           h[i].pc \notin NoPaymentSteps,
           GotoWithBill(i, step)
    PROVE  HandlersTyped'
<1> DEFINE local == [h[i] EXCEPT !.pc = step, !.snap = bill]
<1>1. h[i] \in Local
  BY DEF HandlersTyped
<1>2. local \in Local /\ local.p = h[i].p
  BY <1>1 DEF Local
<1>3. h' = [h EXCEPT ![i] = local]
  BY DEF HandlersTyped, GotoWithBill
<1>4. local.p \in Payments
  BY <1>2 DEF HandlersTyped
<1>5. QED
  BY <1>2, <1>3, <1>4, LocalStep

(* What a request holds right after it read what it works on.              *)
LEMMA BeginTyped ==
    ASSUME TypeOK, NEW i \in Handlers, NEW op, NEW local \in Local,
           local.pc \notin NoPaymentSteps => local.p \in Payments,
           Begin(i, op, local)
    PROVE  HandlersTyped' /\ started' \in Nat
<1>1. HandlersTyped'
  BY LocalStep, FieldTypes DEF Begin
<1>2. started' \in Nat
  BY DEF Begin, TypeOK
<1>3. QED
  BY <1>1, <1>2

(* The records the requests begin with are local records.                  *)
LEMMA NewLocal ==
    ASSUME NEW step \in Steps, NEW p \in Payments \cup {"none"},
           NEW amt \in Nat, NEW prior \in Nat, NEW snap \in Bill
    PROVE  /\ [Idle EXCEPT !.pc = step] \in Local
           /\ [Idle EXCEPT !.pc = step, !.p = p] \in Local
           /\ [Idle EXCEPT !.pc = step, !.p = p, !.amt = amt] \in Local
           /\ [Idle EXCEPT !.pc = step, !.p = p, !.amt = amt,
                            !.prior = prior] \in Local
           /\ [Idle EXCEPT !.pc = step, !.amt = amt, !.snap = snap] \in Local
           /\ [Idle EXCEPT !.pc = step, !.snap = snap] \in Local
  BY RecordTypes DEF Idle, Local

(* Updates of one payment document.                                        *)
LEMMA PaymentUpdate ==
    ASSUME payments \in [Payments -> Payment], NEW p \in Payments,
           NEW rec \in Payment
    PROVE  [payments EXCEPT ![p] = rec] \in [Payments -> Payment]
  OBVIOUS

(* The document an intent or an offline collection creates.                *)
LEMMA InsertTyped ==
    ASSUME TypeOK, NEW i \in Handlers, h[i].p \in Payments, Insert(i)
    PROVE  payments' \in [Payments -> Payment]
  BY FieldTypes DEF Insert, TypeOK, NoPayment, Payment, PaymentStatus

(* The initial state has its types.                                        *)
LEMMA TypeInit == Init => TypeOK
  BY RecordTypes, PaymentsAssumption
  DEF Init, TypeOK, Provider, NoPaymentSteps, Idle

(* What the bill is set to by a payment and by a refund.                   *)
LEMMA PaidTyped ==
    ASSUME NEW snap \in Bill, NEW amt \in Nat
    PROVE  \A f \in {PaidInto(snap, amt), RefundedFrom(snap, amt)} :
              /\ f.paid \in Nat
              /\ f.due \in Int
              /\ f.status \in {"PAID", "PARTIALLY_PAID"}
              /\ f.status = "PAID" => f.due <= 0
  BY BillFields DEF PaidInto, RefundedFrom, NonNeg

(* Setting paid, due and status leaves a bill.                             *)
LEMMA SetBillTyped ==
    ASSUME bill \in Bill, NEW f, SetBill(f),
           f.paid \in Nat, f.due \in Int, f.status \in {"PAID", "PARTIALLY_PAID"}
    PROVE  bill' \in Bill
  BY DEF SetBill, Bill, BillStatus

(* Every step keeps the types: one step of the proof per action.           *)
LEMMA TypeNext == TypeOK /\ [Next]_vars => TypeOK'
<1> SUFFICES ASSUME TypeOK, [Next]_vars PROVE TypeOK'
  OBVIOUS
<1>1. ASSUME NEW i \in Handlers, IntentCreate(i) PROVE TypeOK'
  <2>1. HandlersTyped'
    BY <1>1, FieldTypes, FinishTyped DEF IntentCreate
  <2>2. h[i].p \in Payments
    BY <1>1, FieldTypes DEF IntentCreate, HandlersTyped, NoPaymentSteps
  <2>3. payments' \in [Payments -> Payment]
    BY <1>1, <2>2, InsertTyped DEF IntentCreate, TypeOK
  <2>4. QED
    BY <1>1, <2>1, <2>2, <2>3 DEF TypeOK, HandlersTyped, store, IntentCreate
<1>2. ASSUME NEW i \in Handlers, OfflineCreate(i) PROVE TypeOK'
  <2>1. HandlersTyped'
    BY <1>2, FieldTypes, GotoTyped DEF OfflineCreate, Steps, NoPaymentSteps
  <2>2. h[i].p \in Payments
    BY <1>2, FieldTypes DEF OfflineCreate, HandlersTyped, NoPaymentSteps
  <2>3. payments' \in [Payments -> Payment]
    BY <1>2, <2>2, InsertTyped DEF OfflineCreate
  <2>4. QED
    BY <1>2, <2>1, <2>2, <2>3 DEF TypeOK, HandlersTyped, store, OfflineCreate
<1>3. ASSUME NEW i \in Handlers, RejectSignature(i) PROVE TypeOK'
  <2>1. HandlersTyped'
    BY <1>3, FieldTypes, FinishTyped DEF RejectSignature, SetFailed
  <2>2. h[i].p \in Payments
    BY <1>3, FieldTypes DEF RejectSignature, HandlersTyped, NoPaymentSteps,
       SetFailed
  <2>3. payments' \in [Payments -> Payment]
    BY <1>3, <2>2 DEF RejectSignature, SetFailed, SetStatus, TypeOK, Payment,
       PaymentStatus
  <2>4. QED
    BY <1>3, <2>1, <2>2, <2>3 DEF TypeOK, HandlersTyped, store,
       RejectSignature, SetFailed
<1>4. ASSUME NEW i \in Handlers, WebhookFailed(i) PROVE TypeOK'
  <2>1. HandlersTyped'
    BY <1>4, FieldTypes, FinishTyped DEF WebhookFailed, SetFailed
  <2>2. h[i].p \in Payments
    BY <1>4, FieldTypes DEF WebhookFailed, HandlersTyped, NoPaymentSteps,
       SetFailed
  <2>3. payments' \in [Payments -> Payment]
    BY <1>4, <2>2 DEF WebhookFailed, SetFailed, SetStatus, TypeOK, Payment,
       PaymentStatus
  <2>4. QED
    BY <1>4, <2>1, <2>2, <2>3 DEF TypeOK, HandlersTyped, store, WebhookFailed,
       SetFailed
<1>5. ASSUME NEW i \in Handlers, WebhookCaptured(i) PROVE TypeOK'
  <2>1. h[i].p \in Payments
    BY <1>5, FieldTypes DEF WebhookCaptured, HandlersTyped, NoPaymentSteps
  <2>2. "claim" \in Steps
    BY <1>5 DEF Steps
  <2>3. Apply(i, h[i].p) \in Local
    BY <1>5, <2>1, <2>2, FieldTypes, NewLocal, RecordTypes DEF Apply
  <2>4. Apply(i, h[i].p).p = h[i].p
    BY <1>5, <2>1 DEF Apply, Idle
  <2>5. HandlersTyped'
    BY <1>5, <2>1, <2>3, <2>4, FieldTypes, LocalStep, FinishTyped DEF
       WebhookCaptured
  <2>6. QED
    BY <1>5, <2>1, <2>2, <2>3, <2>4, <2>5 DEF TypeOK, HandlersTyped, store,
       WebhookCaptured
<1>6. ASSUME NEW i \in Handlers, WebhookRefunded(i) PROVE TypeOK'
  <2>1. h[i].p \in Payments
    BY <1>6, FieldTypes DEF WebhookRefunded, HandlersTyped, NoPaymentSteps
  <2>2. CASE Refundable(h[i].p, Remaining(h[i].p))
    <3>1. Remaining(h[i].p) \in Nat
      BY <1>6, <2>1, <2>2, FieldTypes DEF Refundable
    <3>2. "refundGateway" \in Steps
      BY <1>6 DEF Steps
    <3>3. Refund(h[i].p, Remaining(h[i].p)) \in Local
      BY <1>6, <2>1, <3>1, <3>2, FieldTypes, NewLocal, RecordTypes DEF Refund
    <3>4. Refund(h[i].p, Remaining(h[i].p)).p = h[i].p
      BY <1>6, <2>1 DEF Refund, Idle
    <3>5. HandlersTyped'
      BY <1>6, <2>1, <3>3, <3>4, <2>2, FieldTypes, LocalStep DEF
         WebhookRefunded
    <3>6. QED
      BY <1>6, <3>5 DEF TypeOK, HandlersTyped, store, WebhookRefunded
  <2>3. CASE ~Refundable(h[i].p, Remaining(h[i].p))
    <3>1. HandlersTyped'
      BY <1>6, <2>3, FieldTypes, FinishTyped DEF WebhookRefunded
    <3>2. QED
      BY <1>6, <3>1 DEF TypeOK, HandlersTyped, store, WebhookRefunded
  <2>4. QED
    BY <1>6, <2>2, <2>3
<1>7. ASSUME NEW i \in Handlers, ClaimWon(i) PROVE TypeOK'
  <2>1. HandlersTyped'
    BY <1>7, FieldTypes, GotoTyped DEF ClaimWon, Steps, NoPaymentSteps
  <2>2. h[i].p \in Payments
    BY <1>7, FieldTypes DEF ClaimWon, HandlersTyped, NoPaymentSteps
  <2>3. payments' \in [Payments -> Payment]
    BY <1>7, <2>2 DEF ClaimWon, SetStatus, TypeOK, Payment, PaymentStatus
  <2>4. claims' \in [Payments -> Nat]
    BY <1>7, <2>2 DEF ClaimWon, TypeOK
  <2>5. QED
    BY <1>7, <2>1, <2>2, <2>3, <2>4 DEF TypeOK, HandlersTyped, store, ClaimWon
<1>8. ASSUME NEW i \in Handlers, ClaimLost(i) PROVE TypeOK'
  <2>1. HandlersTyped'
    BY <1>8, FieldTypes, FinishTyped DEF ClaimLost
  <2>2. QED
    BY <1>8, <2>1 DEF TypeOK, HandlersTyped, store, ClaimLost
<1>9. ASSUME NEW i \in Handlers, ReadBill(i) PROVE TypeOK'
  <2>1. HandlersTyped'
    BY <1>9, FieldTypes, SnapTyped DEF ReadBill, TypeOK, Steps, NoPaymentSteps
  <2>2. QED
    BY <1>9, <2>1 DEF TypeOK, HandlersTyped, store, ReadBill
<1>10. ASSUME NEW i \in Handlers, WriteBill(i) PROVE TypeOK'
  <2>1. HandlersTyped'
    BY <1>10, FieldTypes, GotoTyped DEF WriteBill, Steps, NoPaymentSteps
  <2>2. h[i].amt \in Nat /\ h[i].snap \in Bill
    BY <1>10, FieldTypes
  <2>3. bill' \in Bill
    BY <1>10, <2>2, PaidTyped, SetBillTyped DEF WriteBill, TypeOK
  <2>4. QED
    BY <1>10, <2>1, <2>2, <2>3 DEF TypeOK, HandlersTyped, store, WriteBill
<1>11. ASSUME NEW i \in Handlers, ReduceUnit(i) PROVE TypeOK'
  <2>1. HandlersTyped'
    BY <1>11, FieldTypes, GotoTyped DEF ReduceUnit, Steps, NoPaymentSteps
  <2>2. outstanding' \in Int
    BY <1>11, FieldTypes DEF ReduceUnit, TypeOK
  <2>3. QED
    BY <1>11, <2>1, <2>2 DEF TypeOK, HandlersTyped, store, ReduceUnit
<1>12. ASSUME NEW i \in Handlers, PostReceipt(i) PROVE TypeOK'
  <2>1. HandlersTyped'
    BY <1>12, FieldTypes, GotoTyped DEF PostReceipt, Steps, NoPaymentSteps
  <2>2. h[i].p \in Payments
    BY <1>12, FieldTypes DEF PostReceipt, HandlersTyped, NoPaymentSteps
  <2>3. cash' \in Int
    BY <1>12, FieldTypes DEF PostReceipt, TypeOK
  <2>4. receipts' \in [Payments -> Nat]
    BY <1>12, <2>2 DEF PostReceipt, TypeOK
  <2>5. QED
    BY <1>12, <2>1, <2>2, <2>3, <2>4 DEF TypeOK, HandlersTyped, store,
       PostReceipt
<1>13. ASSUME NEW i \in Handlers, LinkEntry(i) PROVE TypeOK'
  <2>1. HandlersTyped'
    BY <1>13, FieldTypes, GotoTyped DEF LinkEntry, Steps, NoPaymentSteps
  <2>2. h[i].p \in Payments
    BY <1>13, FieldTypes DEF LinkEntry, HandlersTyped, NoPaymentSteps
  <2>3. payments' \in [Payments -> Payment]
    BY <1>13, <2>2 DEF LinkEntry, TypeOK, Payment
  <2>4. QED
    BY <1>13, <2>1, <2>2, <2>3 DEF TypeOK, HandlersTyped, store, LinkEntry
<1>14. ASSUME NEW i \in Handlers, StampReceipt(i) PROVE TypeOK'
  <2>1. HandlersTyped'
    BY <1>14, FieldTypes, FinishTyped DEF StampReceipt
  <2>2. h[i].p \in Payments
    BY <1>14, FieldTypes DEF StampReceipt, HandlersTyped, NoPaymentSteps
  <2>3. payments' \in [Payments -> Payment]
    BY <1>14, <2>2 DEF StampReceipt, TypeOK, Payment
  <2>4. QED
    BY <1>14, <2>1, <2>2, <2>3 DEF TypeOK, HandlersTyped, store, StampReceipt
<1>15. ASSUME NEW i \in Handlers, RefundGateway(i) PROVE TypeOK'
  <2>1. HandlersTyped'
    BY <1>15, FieldTypes, GotoTyped DEF RefundGateway, Steps, NoPaymentSteps
  <2>2. h[i].p \in Payments
    BY <1>15, FieldTypes DEF RefundGateway, HandlersTyped, NoPaymentSteps
  <2>3. gateway' \in [Payments -> Provider]
    BY <1>15, <2>2, FieldTypes DEF RefundGateway, TypeOK, Provider
  <2>4. QED
    BY <1>15, <2>1, <2>2, <2>3 DEF TypeOK, HandlersTyped, store, RefundGateway
<1>16. ASSUME NEW i \in Handlers, RefundStatus(i) PROVE TypeOK'
  <2>1. HandlersTyped'
    BY <1>16, FieldTypes, GotoTyped DEF RefundStatus, Steps, NoPaymentSteps
  <2>2. h[i].p \in Payments
    BY <1>16, FieldTypes DEF RefundStatus, HandlersTyped, NoPaymentSteps
  <2>3. h[i].prior + h[i].amt \in Nat
    BY <1>16, FieldTypes
  <2>4. PICK total \in Nat, status \in PaymentStatus :
           payments' = [payments EXCEPT ![h[i].p].refunded = total,
                                        ![h[i].p].status = status]
    <3>1. PICK status \in PaymentStatus :
             status = IF h[i].prior + h[i].amt >= payments[h[i].p].amount
                      THEN "REFUNDED" ELSE "PARTIALLY_REFUNDED"
      BY DEF PaymentStatus
    <3>2. QED
      BY <1>16, <2>3, <3>1 DEF RefundStatus
  <2>5. payments' \in [Payments -> Payment]
    BY <2>2, <2>4 DEF TypeOK, Payment
  <2>6. QED
    BY <1>16, <2>1, <2>5 DEF TypeOK, HandlersTyped, store, RefundStatus
<1>17. ASSUME NEW i \in Handlers, RefundEntry(i) PROVE TypeOK'
  <2>1. HandlersTyped'
    BY <1>17, FieldTypes, GotoTyped DEF RefundEntry, Steps, NoPaymentSteps
  <2>2. cash' \in Int
    BY <1>17, FieldTypes DEF RefundEntry, TypeOK
  <2>3. QED
    BY <1>17, <2>1, <2>2 DEF TypeOK, HandlersTyped, store, RefundEntry
<1>18. ASSUME NEW i \in Handlers, RefundReadBill(i) PROVE TypeOK'
  <2>1. HandlersTyped'
    BY <1>18, FieldTypes, SnapTyped DEF RefundReadBill, TypeOK, Steps,
       NoPaymentSteps
  <2>2. QED
    BY <1>18, <2>1 DEF TypeOK, HandlersTyped, store, RefundReadBill
<1>19. ASSUME NEW i \in Handlers, RefundWriteBill(i) PROVE TypeOK'
  <2>1. HandlersTyped'
    BY <1>19, FieldTypes, GotoTyped DEF RefundWriteBill, Steps, NoPaymentSteps
  <2>2. h[i].amt \in Nat /\ h[i].snap \in Bill
    BY <1>19, FieldTypes
  <2>3. bill' \in Bill
    BY <1>19, <2>2, PaidTyped, SetBillTyped DEF RefundWriteBill, TypeOK
  <2>4. QED
    BY <1>19, <2>1, <2>2, <2>3 DEF TypeOK, HandlersTyped, store,
       RefundWriteBill
<1>20. ASSUME NEW i \in Handlers, RefundUnit(i) PROVE TypeOK'
  <2>1. HandlersTyped'
    BY <1>20, FieldTypes, FinishTyped DEF RefundUnit
  <2>2. outstanding' \in Int
    BY <1>20, FieldTypes DEF RefundUnit, TypeOK
  <2>3. QED
    BY <1>20, <2>1, <2>2 DEF TypeOK, HandlersTyped, store, RefundUnit
<1>21. ASSUME NEW i \in Handlers, WaiveWrite(i) PROVE TypeOK'
  <2>1. HandlersTyped'
    BY <1>21, FieldTypes, GotoTyped DEF WaiveWrite, Steps, NoPaymentSteps
  <2>2. h[i].amt \in Nat /\ h[i].snap \in Bill
    BY <1>21, FieldTypes
  <2>3. h[i].snap.due - h[i].amt \in Int /\ h[i].snap.waived + h[i].amt \in
     Nat /\ bill.discount + h[i].amt \in Nat /\ h[i].snap.status \in
     BillStatus
    BY <1>21, <2>2, BillFields DEF TypeOK
  <2>4. bill' \in Bill
    BY <1>21, <2>2, <2>3 DEF WaiveWrite, TypeOK, Bill, BillStatus
  <2>5. QED
    BY <1>21, <2>1, <2>2, <2>3, <2>4 DEF TypeOK, HandlersTyped, store,
       WaiveWrite
<1>22. ASSUME NEW i \in Handlers, WaiveUnit(i) PROVE TypeOK'
  <2>1. HandlersTyped'
    BY <1>22, FieldTypes, FinishTyped DEF WaiveUnit
  <2>2. outstanding' \in Int
    BY <1>22, FieldTypes DEF WaiveUnit, TypeOK
  <2>3. QED
    BY <1>22, <2>1, <2>2 DEF TypeOK, HandlersTyped, store, WaiveUnit
<1>23. ASSUME NEW i \in Handlers, FeeWrite(i) PROVE TypeOK'
  <2>1. HandlersTyped'
    BY <1>23, FieldTypes, GotoTyped DEF FeeWrite, Steps, NoPaymentSteps
  <2>2. bill.lateFee + Fee \in Nat /\ bill.total + Fee \in Nat /\ bill.due +
     Fee \in Int
    BY <1>23, BillFields, PaymentsAssumption DEF TypeOK
  <2>3. bill' \in Bill
    BY <1>23, <2>2 DEF FeeWrite, TypeOK, Bill, BillStatus
  <2>4. QED
    BY <1>23, <2>1, <2>2, <2>3 DEF TypeOK, HandlersTyped, store, FeeWrite
<1>24. ASSUME NEW i \in Handlers, FeeUnit(i) PROVE TypeOK'
  <2>1. HandlersTyped'
    BY <1>24, FieldTypes, FinishTyped DEF FeeUnit
  <2>2. outstanding' \in Int
    BY <1>24, FieldTypes, PaymentsAssumption DEF FeeUnit, TypeOK
  <2>3. QED
    BY <1>24, <2>1, <2>2 DEF TypeOK, HandlersTyped, store, FeeUnit
<1>25. ASSUME NEW i \in Handlers, DisputeWrite(i) PROVE TypeOK'
  <2>1. HandlersTyped'
    BY <1>25, FieldTypes, FinishTyped DEF DisputeWrite
  <2>2. bill' \in Bill
    BY <1>25, BillFields DEF DisputeWrite, TypeOK, Bill, BillStatus
  <2>3. QED
    BY <1>25, <2>1, <2>2 DEF TypeOK, HandlersTyped, store, DisputeWrite
<1>26. ASSUME NEW i \in Handlers, SendWrite(i) PROVE TypeOK'
  <2>1. HandlersTyped'
    BY <1>26, FieldTypes, FinishTyped DEF SendWrite
  <2>2. bill' \in Bill
    BY <1>26, BillFields DEF SendWrite, TypeOK, Bill, BillStatus
  <2>3. QED
    BY <1>26, <2>1, <2>2 DEF TypeOK, HandlersTyped, store, SendWrite
<1>27. ASSUME NEW i \in Handlers, Abort(i) PROVE TypeOK'
  <2>1. HandlersTyped'
    BY <1>27, FieldTypes, FinishTyped DEF Abort
  <2>2. aborts' \in Nat
    BY <1>27 DEF Abort, TypeOK
  <2>3. QED
    BY <1>27, <2>1, <2>2 DEF TypeOK, HandlersTyped, store, Abort
<1>28. ASSUME NEW i \in Handlers, NEW p \in Payments, IntentRead(i, p) PROVE
   TypeOK'
  <2>1. bill.due \in Nat
    BY <1>28, BillFields DEF IntentRead, TypeOK
  <2>2. [Idle EXCEPT !.pc = "order", !.p = p, !.amt = bill.due] \in Local
    BY <1>28, <2>1, FieldTypes, NewLocal, RecordTypes DEF TypeOK, Steps
  <2>3. [Idle EXCEPT !.pc = "order", !.p = p, !.amt = bill.due].pc \notin
     NoPaymentSteps => [Idle EXCEPT !.pc = "order", !.p = p, !.amt =
     bill.due].p \in Payments
    BY <1>28 DEF Idle, NoPaymentSteps
  <2>4. HandlersTyped' /\ started' \in Nat
    BY <1>28, <2>2, <2>3, BeginTyped DEF IntentRead
  <2>5. QED
    BY <1>28, <2>1, <2>2, <2>3, <2>4 DEF TypeOK, HandlersTyped, store,
       IntentRead
<1>29. ASSUME NEW i \in Handlers, NEW p \in Payments, VerifyRead(i, p) PROVE
   TypeOK'
  <2>1. Apply(i, p) \in Local
    BY <1>29, FieldTypes, NewLocal, RecordTypes DEF TypeOK, Steps, Apply
  <2>2. Apply(i, p).pc \notin NoPaymentSteps => Apply(i, p).p \in Payments
    BY <1>29 DEF Idle, NoPaymentSteps, Apply
  <2>3. HandlersTyped' /\ started' \in Nat
    BY <1>29, <2>1, <2>2, BeginTyped DEF VerifyRead
  <2>4. QED
    BY <1>29, <2>1, <2>2, <2>3 DEF TypeOK, HandlersTyped, store, VerifyRead
<1>30. ASSUME NEW i \in Handlers, NEW p \in Payments, BadVerifyRead(i, p)
   PROVE TypeOK'
  <2>1. [Idle EXCEPT !.pc = "badSignature", !.p = p] \in Local
    BY <1>30, FieldTypes, NewLocal, RecordTypes DEF TypeOK, Steps
  <2>2. [Idle EXCEPT !.pc = "badSignature", !.p = p].pc \notin NoPaymentSteps
     => [Idle EXCEPT !.pc = "badSignature", !.p = p].p \in Payments
    BY <1>30 DEF Idle, NoPaymentSteps
  <2>3. HandlersTyped' /\ started' \in Nat
    BY <1>30, <2>1, <2>2, BeginTyped DEF BadVerifyRead
  <2>4. QED
    BY <1>30, <2>1, <2>2, <2>3 DEF TypeOK, HandlersTyped, store, BadVerifyRead
<1>31. ASSUME NEW i \in Handlers, NEW p \in Payments, RefundRead(i, p) PROVE
   TypeOK'
  <2>1. Remaining(p) \in Nat
    BY <1>31, FieldTypes DEF RefundRead, Refundable
  <2>2. Refund(p, Remaining(p)) \in Local
    BY <1>31, <2>1, FieldTypes, NewLocal, RecordTypes DEF TypeOK, Steps,
       Refund
  <2>3. Refund(p, Remaining(p)).pc \notin NoPaymentSteps => Refund(p,
     Remaining(p)).p \in Payments
    BY <1>31 DEF Idle, NoPaymentSteps, Refund
  <2>4. HandlersTyped' /\ started' \in Nat
    BY <1>31, <2>2, <2>3, BeginTyped DEF RefundRead
  <2>5. QED
    BY <1>31, <2>1, <2>2, <2>3, <2>4 DEF TypeOK, HandlersTyped, store,
       RefundRead
<1>32. ASSUME NEW i \in Handlers, NEW p \in Payments, NEW a \in Nat,
   OfflineRead(i, p, a) PROVE TypeOK'
  <2>1. [Idle EXCEPT !.pc = "offline", !.p = p, !.amt = a] \in Local
    BY <1>32, FieldTypes, NewLocal, RecordTypes DEF TypeOK, Steps
  <2>2. [Idle EXCEPT !.pc = "offline", !.p = p, !.amt = a].pc \notin
     NoPaymentSteps => [Idle EXCEPT !.pc = "offline", !.p = p, !.amt = a].p
     \in Payments
    BY <1>32 DEF Idle, NoPaymentSteps
  <2>3. HandlersTyped' /\ started' \in Nat
    BY <1>32, <2>1, <2>2, BeginTyped DEF OfflineRead
  <2>4. QED
    BY <1>32, <2>1, <2>2, <2>3 DEF TypeOK, HandlersTyped, store, OfflineRead
<1>33. ASSUME NEW i \in Handlers, NEW p \in Payments, NEW a \in Nat,
   PartialRefundRead(i, p, a) PROVE TypeOK'
  <2>1. Refund(p, a) \in Local
    BY <1>33, FieldTypes, NewLocal, RecordTypes DEF TypeOK, Steps, Refund
  <2>2. Refund(p, a).pc \notin NoPaymentSteps => Refund(p, a).p \in Payments
    BY <1>33 DEF Idle, NoPaymentSteps, Refund
  <2>3. HandlersTyped' /\ started' \in Nat
    BY <1>33, <2>1, <2>2, BeginTyped DEF PartialRefundRead
  <2>4. QED
    BY <1>33, <2>1, <2>2, <2>3 DEF TypeOK, HandlersTyped, store,
       PartialRefundRead
<1>34. ASSUME NEW i \in Handlers, NEW p \in Payments, NEW event \in
   {"captured", "failed", "refunded"}, WebhookRead(i, p, event) PROVE TypeOK'
  <2>1. HookStep[event] \in Steps
    BY <1>34 DEF HookStep, Steps
  <2>2. [Idle EXCEPT !.pc = HookStep[event], !.p = p] \in Local
    BY <1>34, <2>1, FieldTypes, NewLocal, RecordTypes DEF TypeOK
  <2>3. [Idle EXCEPT !.pc = HookStep[event], !.p = p].pc \notin NoPaymentSteps
     => [Idle EXCEPT !.pc = HookStep[event], !.p = p].p \in Payments
    BY <1>34 DEF Idle, NoPaymentSteps
  <2>4. HandlersTyped' /\ started' \in Nat
    BY <1>34, <2>2, <2>3, BeginTyped DEF WebhookRead
  <2>5. QED
    BY <1>34, <2>1, <2>2, <2>3, <2>4 DEF TypeOK, HandlersTyped, store,
       WebhookRead
<1>35. ASSUME NEW i \in Handlers, NEW w \in Nat, WaiveRead(i, w) PROVE TypeOK'
  <2>1. [Idle EXCEPT !.pc = "waiveWrite", !.amt = w, !.snap = bill] \in Local
    BY <1>35, FieldTypes, NewLocal, RecordTypes DEF TypeOK, Steps
  <2>2. [Idle EXCEPT !.pc = "waiveWrite", !.amt = w, !.snap = bill].pc \notin
     NoPaymentSteps => [Idle EXCEPT !.pc = "waiveWrite", !.amt = w, !.snap =
     bill].p \in Payments
    BY <1>35 DEF Idle, NoPaymentSteps
  <2>3. HandlersTyped' /\ started' \in Nat
    BY <1>35, <2>1, <2>2, BeginTyped DEF WaiveRead
  <2>4. QED
    BY <1>35, <2>1, <2>2, <2>3 DEF TypeOK, HandlersTyped, store, WaiveRead
<1>36. ASSUME NEW i \in Handlers, FeeRead(i) PROVE TypeOK'
  <2>1. [Idle EXCEPT !.pc = "feeWrite"] \in Local
    BY <1>36, FieldTypes, NewLocal, RecordTypes DEF TypeOK, Steps
  <2>2. [Idle EXCEPT !.pc = "feeWrite"].pc \notin NoPaymentSteps => [Idle
     EXCEPT !.pc = "feeWrite"].p \in Payments
    BY <1>36 DEF Idle, NoPaymentSteps
  <2>3. HandlersTyped' /\ started' \in Nat
    BY <1>36, <2>1, <2>2, BeginTyped DEF FeeRead
  <2>4. QED
    BY <1>36, <2>1, <2>2, <2>3 DEF TypeOK, HandlersTyped, store, FeeRead
<1>37. ASSUME NEW i \in Handlers, DisputeRead(i) PROVE TypeOK'
  <2>1. [Idle EXCEPT !.pc = "disputeWrite"] \in Local
    BY <1>37, FieldTypes, NewLocal, RecordTypes DEF TypeOK, Steps
  <2>2. [Idle EXCEPT !.pc = "disputeWrite"].pc \notin NoPaymentSteps => [Idle
     EXCEPT !.pc = "disputeWrite"].p \in Payments
    BY <1>37 DEF Idle, NoPaymentSteps
  <2>3. HandlersTyped' /\ started' \in Nat
    BY <1>37, <2>1, <2>2, BeginTyped DEF DisputeRead
  <2>4. QED
    BY <1>37, <2>1, <2>2, <2>3 DEF TypeOK, HandlersTyped, store, DisputeRead
<1>38. ASSUME NEW i \in Handlers, SendRead(i) PROVE TypeOK'
  <2>1. [Idle EXCEPT !.pc = "sendWrite", !.snap = bill] \in Local
    BY <1>38, FieldTypes, NewLocal, RecordTypes DEF TypeOK, Steps
  <2>2. [Idle EXCEPT !.pc = "sendWrite", !.snap = bill].pc \notin
     NoPaymentSteps => [Idle EXCEPT !.pc = "sendWrite", !.snap = bill].p \in
     Payments
    BY <1>38 DEF Idle, NoPaymentSteps
  <2>3. HandlersTyped' /\ started' \in Nat
    BY <1>38, <2>1, <2>2, BeginTyped DEF SendRead
  <2>4. QED
    BY <1>38, <2>1, <2>2, <2>3 DEF TypeOK, HandlersTyped, store, SendRead
<1>39. ASSUME NEW p \in Payments, GatewayCapture(p) PROVE TypeOK'
  <2>1. gateway' \in [Payments -> Provider]
    BY <1>39, FieldTypes DEF GatewayCapture, GatewayStep, TypeOK, Provider
  <2>2. QED
    BY <1>39, <2>1 DEF TypeOK, HandlersTyped, store, GatewayCapture,
       GatewayStep
<1>40. ASSUME NEW p \in Payments, GatewayDecline(p) PROVE TypeOK'
  <2>1. gateway' \in [Payments -> Provider]
    BY <1>40, FieldTypes DEF GatewayDecline, GatewayStep, TypeOK, Provider
  <2>2. QED
    BY <1>40, <2>1 DEF TypeOK, HandlersTyped, store, GatewayDecline,
       GatewayStep
<1>41. ASSUME NEW p \in Payments, GatewayRefund(p) PROVE TypeOK'
  <2>1. gateway' \in [Payments -> Provider]
    BY <1>41, FieldTypes DEF GatewayRefund, GatewayStep, TypeOK, Provider
  <2>2. QED
    BY <1>41, <2>1 DEF TypeOK, HandlersTyped, store, GatewayRefund,
       GatewayStep
<1>42. CASE UNCHANGED vars
  BY <1>42 DEF TypeOK, vars
<1>43. ASSUME NEW i \in Handlers, Request(i) PROVE TypeOK'
  <2>1. /\ 1..bill.due \subseteq Nat
        /\ \A p \in Payments : /\ 1..payments[p].amount \subseteq Nat
                               /\ gateway[p].events \subseteq
                                    {"captured", "failed", "refunded"}
    BY FieldTypes, BillFields DEF TypeOK, Provider
  <2>2. \A p \in Payments : \A event :
        WebhookRead(i, p, event) => event \in {"captured", "failed", "refunded"}
    BY <2>1 DEF WebhookRead
  <2>3. QED
    BY <1>43, <2>1, <2>2, <1>28, <1>29, <1>30, <1>31, <1>32, <1>33, <1>34,
       <1>35, <1>36, <1>37, <1>38 DEF Request
<1>44. ASSUME NEW i \in Handlers, Continue(i) PROVE TypeOK'
  BY <1>44, <1>1, <1>2, <1>3, <1>4, <1>5, <1>6, <1>7, <1>8, <1>9, <1>10,
     <1>11, <1>12, <1>13, <1>14, <1>15, <1>16, <1>17, <1>18, <1>19, <1>20,
     <1>21, <1>22, <1>23, <1>24, <1>25, <1>26 DEF Continue
<1>45. CASE ProviderStep
  BY <1>45, <1>39, <1>40, <1>41 DEF ProviderStep
<1>46. QED
  BY <1>27, <1>42, <1>43, <1>44, <1>45 DEF Next

-----------------------------------------------------------------------------
(* Every variable of the money path keeps its type: no sum of a refund, a  *)
(* waiver or a fee makes the paid amount of the bill negative or leaves a  *)
(* request in flight without the payment it works on.                      *)
THEOREM TypeCorrect == Spec => []TypeOK
  BY TypeInit, TypeNext, PTL DEF Spec

-----------------------------------------------------------------------------
(* What a step does to the records, field by field.                        *)

(* Goto changes the step of one request and no other field.                *)
LEMMA GotoFields ==
    ASSUME TypeOK, NEW i \in Handlers, NEW step, Goto(i, step)
    PROVE  \A j \in Handlers :
              /\ h'[j].pc = IF j = i THEN step ELSE h[j].pc
              /\ h'[j].p = h[j].p
              /\ h'[j].amt = h[j].amt
              /\ h'[j].prior = h[j].prior
              /\ h'[j].snap = h[j].snap
<1> SUFFICES ASSUME NEW j \in Handlers
             PROVE  /\ h'[j].pc = IF j = i THEN step ELSE h[j].pc
                    /\ h'[j].p = h[j].p /\ h'[j].amt = h[j].amt
                    /\ h'[j].prior = h[j].prior /\ h'[j].snap = h[j].snap
  OBVIOUS
<1>1. h'[j] = IF j = i THEN [h[j] EXCEPT !.pc = step] ELSE h[j]
  BY DEF Goto, TypeOK
<1>2. h[j] \in Local
  BY FieldTypes
<1>3. QED
  BY <1>1, <1>2 DEF Local

(* GotoWithBill moves one request, which keeps its payment.                *)
LEMMA SnapFields ==
    ASSUME TypeOK, NEW i \in Handlers, NEW step, GotoWithBill(i, step)
    PROVE  /\ h'[i].pc = step
           /\ h'[i].p = h[i].p
           /\ \A j \in Handlers \ {i} : h'[j] = h[j]
<1> DEFINE local == [h[i] EXCEPT !.pc = step, !.snap = bill]
<1>1. h[i] \in Local
  BY FieldTypes
<1>2. local.pc = step /\ local.p = h[i].p
  BY <1>1 DEF Local
<1>3. h' = [h EXCEPT ![i] = local]
  BY DEF GotoWithBill, TypeOK
<1>4. QED
  BY <1>2, <1>3 DEF TypeOK

(* Finish makes one request idle.                                          *)
LEMMA FinishFields ==
    ASSUME TypeOK, NEW i \in Handlers, Finish(i)
    PROVE  /\ \A j \in Handlers : h'[j] = IF j = i THEN Idle ELSE h[j]
           /\ Idle.pc = "idle"
           /\ Idle.p = "none"
  BY DEF Finish, Idle, TypeOK

(* Begin gives one request its local record.                               *)
LEMMA BeginFields ==
    ASSUME TypeOK, NEW i \in Handlers, NEW op, NEW local, Begin(i, op, local)
    PROVE  /\ \A j \in Handlers : h'[j] = IF j = i THEN local ELSE h[j]
           /\ op \in Ops
  BY DEF Begin, TypeOK

(* SetStatus changes the status of one payment.                            *)
LEMMA StatusFields ==
    ASSUME TypeOK, NEW p \in Payments, NEW status, SetStatus(p, status)
    PROVE  \A q \in Payments :
              /\ payments'[q].status = IF q = p THEN status ELSE payments[q].status
              /\ payments'[q].amount = payments[q].amount
              /\ payments'[q].refunded = payments[q].refunded
  BY DEF SetStatus, TypeOK, Payment

(* A refund changes the refunded amount and status of one payment.         *)
LEMMA RefundFields ==
    ASSUME TypeOK, NEW p \in Payments, NEW total, NEW status,
           payments' = [payments EXCEPT ![p].refunded = total, ![p].status = status]
    PROVE  \A q \in Payments :
              /\ payments'[q].status = IF q = p THEN status ELSE payments[q].status
              /\ payments'[q].amount = payments[q].amount
  BY DEF TypeOK, Payment

(* Insert opens the payment of the request.                                *)
LEMMA InsertFields ==
    ASSUME TypeOK, NEW i \in Handlers, h[i].p \in Payments, Insert(i)
    PROVE  \A q \in Payments :
              /\ payments'[q].status = IF q = h[i].p THEN "INITIATED"
                                                     ELSE payments[q].status
              /\ q # h[i].p => payments'[q].amount = payments[q].amount
  BY DEF TypeOK, Insert, NoPayment

(* The flags of a payment are apart from its status and amount.            *)
LEMMA BookFields ==
    ASSUME TypeOK, NEW p \in Payments, NEW flag,
           \/ payments' = [payments EXCEPT ![p].entry = flag]
           \/ payments' = [payments EXCEPT ![p].receipt = flag]
    PROVE  \A q \in Payments : /\ payments'[q].status = payments[q].status
                               /\ payments'[q].amount = payments[q].amount
  BY DEF TypeOK, Payment

(* A step of the provider concerns one online payment.                     *)
LEMMA GatewayFields ==
    ASSUME TypeOK, NEW p \in Payments, NEW event, NEW provider \in Provider,
           GatewayStep(p, event, provider)
    PROVE  /\ event \in GatewayEvents
           /\ p \notin Offline
           /\ \A q \in Payments :
                 /\ gateway'[q].captured = IF q = p THEN provider.captured
                                                    ELSE gateway[q].captured
                 /\ gateway'[q].events = IF q = p THEN provider.events \cup {event}
                                                  ELSE gateway[q].events
<1>1. \A q \in Payments :
        gateway'[q] = IF q = p THEN [provider EXCEPT !.events = @ \cup {event}]
                               ELSE gateway[q]
  BY DEF TypeOK, GatewayStep
<1>2. [provider EXCEPT !.events = @ \cup {event}].captured = provider.captured
  BY DEF Provider
<1>3. [provider EXCEPT !.events = @ \cup {event}].events
         = provider.events \cup {event}
  BY DEF Provider
<1>4. event \in GatewayEvents /\ p \notin Offline
  BY DEF GatewayStep
<1>5. \A q \in Payments : gateway'[q].captured = IF q = p THEN provider.captured
                                                    ELSE gateway[q].captured
  BY <1>1, <1>2
<1>6. \A q \in Payments :
        gateway'[q].events = IF q = p THEN provider.events \cup {event}
                                      ELSE gateway[q].events
  BY <1>1, <1>3
<1>7. QED
  BY <1>4, <1>5, <1>6

-----------------------------------------------------------------------------
(* Where a step takes a request.                                           *)

(* Steps no invariant below speaks of.                                     *)
Plain == {"idle", "linkEntry", "stampReceipt", "refundEntry", "refundReadBill",
          "refundWriteBill", "refundUnit", "waiveUnit", "feeUnit"}
Targets == Plain \cup {"claim", "readBill", "writeBill", "reduceUnit",
                      "postReceipt", "refundGateway", "refundStatus"}

(* Where a request in flight can go, and that it moves alone.              *)
LEMMA ContinueMoves ==
    ASSUME TypeOK, NEW i \in Handlers, Continue(i) \/ Abort(i)
    PROVE  /\ \A j \in Handlers \ {i} : h'[j] = h[j]
           /\ h'[i].pc \in Targets
           /\ \/ h'[i].pc \in Plain
              \/ OfflineCreate(i) \/ WebhookCaptured(i) \/ WebhookRefunded(i)
              \/ ClaimWon(i) \/ ReadBill(i) \/ WriteBill(i) \/ ReduceUnit(i)
              \/ RefundGateway(i)
<1>1. ASSUME Finish(i)
      PROVE  h'[i].pc = "idle" /\ \A j \in Handlers \ {i} : h'[j] = h[j]
  BY <1>1, FinishFields
<1>2. ASSUME NEW step, Goto(i, step)
      PROVE  h'[i].pc = step /\ \A j \in Handlers \ {i} : h'[j] = h[j]
  BY <1>2, GotoFields DEF Goto, TypeOK
<1>3. ASSUME NEW step, GotoWithBill(i, step)
      PROVE  h'[i].pc = step /\ \A j \in Handlers \ {i} : h'[j] = h[j]
  BY <1>3, SnapFields
<1>4. CASE Abort(i) \/ IntentCreate(i) \/ RejectSignature(i) \/ WebhookFailed(i)
           \/ ClaimLost(i) \/ StampReceipt(i) \/ RefundUnit(i) \/ WaiveUnit(i)
           \/ FeeUnit(i) \/ DisputeWrite(i) \/ SendWrite(i)
  <2>1. Finish(i)
    BY <1>4 DEF Abort, IntentCreate, RejectSignature, WebhookFailed, SetFailed,
       ClaimLost, StampReceipt, RefundUnit, WaiveUnit, FeeUnit, DisputeWrite,
       SendWrite
  <2>2. QED
    BY <1>1, <2>1 DEF Plain, Targets
<1>5. CASE PostReceipt(i) \/ LinkEntry(i) \/ RefundStatus(i) \/ RefundEntry(i)
           \/ RefundWriteBill(i) \/ WaiveWrite(i) \/ FeeWrite(i)
  <2>1. \E step \in {"linkEntry", "stampReceipt", "refundEntry",
                   "refundReadBill", "refundUnit", "waiveUnit", "feeUnit"} :
           Goto(i, step)
    BY <1>5 DEF PostReceipt, LinkEntry, RefundStatus, RefundEntry,
       RefundWriteBill, WaiveWrite, FeeWrite
  <2>2. QED
    BY <1>2, <2>1 DEF Plain, Targets
<1>6. CASE OfflineCreate(i) \/ ClaimWon(i) \/ WriteBill(i) \/ ReduceUnit(i)
           \/ RefundGateway(i)
  <2>1. \E step \in {"claim", "readBill", "reduceUnit", "postReceipt",
                   "refundStatus"} : Goto(i, step)
    BY <1>6 DEF OfflineCreate, ClaimWon, WriteBill, ReduceUnit, RefundGateway
  <2>2. QED
    BY <1>2, <1>6, <2>1 DEF Targets
<1>7. CASE ReadBill(i) \/ RefundReadBill(i)
  BY <1>3, <1>7 DEF ReadBill, RefundReadBill, Plain, Targets
<1>8. CASE WebhookCaptured(i) \/ WebhookRefunded(i)
  <2>1. CASE h' = [h EXCEPT ![i] = Apply(i, h[i].p)]
    BY <1>8, <2>1 DEF Apply, Idle, Targets, TypeOK
  <2>2. CASE h' = [h EXCEPT ![i] = Refund(h[i].p, Remaining(h[i].p))]
    BY <1>8, <2>2 DEF Refund, Idle, Targets, TypeOK
  <2>3. CASE Finish(i)
    BY <1>1, <2>3 DEF Plain, Targets
  <2>4. QED
    BY <1>8, <2>1, <2>2, <2>3 DEF WebhookCaptured, WebhookRefunded
<1>9. QED
  BY <1>4, <1>5, <1>6, <1>7, <1>8 DEF Continue

(* Which steps of a request in flight touch what.                          *)
LEMMA ContinueWrites ==
    ASSUME NEW i \in Handlers, Continue(i) \/ Abort(i)
    PROVE  /\ UNCHANGED gateway \/ RefundGateway(i)
           /\ UNCHANGED claims \/ ClaimWon(i)
           /\ UNCHANGED receipts \/ PostReceipt(i)
           /\ \/ UNCHANGED payments
              \/ IntentCreate(i) \/ OfflineCreate(i) \/ RejectSignature(i)
              \/ WebhookFailed(i) \/ ClaimWon(i) \/ LinkEntry(i)
              \/ StampReceipt(i) \/ RefundStatus(i)
           /\ \/ UNCHANGED bill
              \/ WriteBill(i) \/ RefundWriteBill(i) \/ WaiveWrite(i)
              \/ FeeWrite(i) \/ DisputeWrite(i) \/ SendWrite(i)
  BY DEF Continue, Abort, IntentCreate, OfflineCreate, RejectSignature,
     WebhookFailed, SetFailed, WebhookCaptured, WebhookRefunded, ClaimWon,
     ClaimLost, ReadBill, WriteBill, ReduceUnit, PostReceipt, LinkEntry,
     StampReceipt, RefundGateway, RefundStatus, RefundEntry, RefundReadBill,
     RefundWriteBill, RefundUnit, WaiveWrite, WaiveUnit, FeeWrite, FeeUnit,
     DisputeWrite, SendWrite, store

(* A request that starts changes nothing but its own record.               *)
LEMMA RequestMoves ==
    ASSUME TypeOK, NEW i \in Handlers, Request(i)
    PROVE  /\ \A j \in Handlers \ {i} : h'[j] = h[j]
           /\ UNCHANGED <<payments, bill, receipts, gateway, claims>>
           /\ h[i].pc = "idle"
<1>1. ASSUME NEW op, NEW local, Begin(i, op, local)
      PROVE  h[i].pc = "idle" /\ \A j \in Handlers \ {i} : h'[j] = h[j]
  BY <1>1 DEF Begin, TypeOK
<1>2. \E op, local : Begin(i, op, local)
  BY DEF Request, IntentRead, VerifyRead, BadVerifyRead, RefundRead,
     OfflineRead, PartialRefundRead, WebhookRead, WaiveRead, FeeRead,
     DisputeRead, SendRead
<1>3. UNCHANGED <<payments, bill, receipts, gateway, claims>>
  BY DEF Request, IntentRead, VerifyRead, BadVerifyRead, RefundRead,
     OfflineRead, PartialRefundRead, WebhookRead, WaiveRead, FeeRead,
     DisputeRead, SendRead, store
<1>4. QED
  BY <1>1, <1>2, <1>3

(* The provider writes nothing of the database.                            *)
LEMMA ProviderMoves ==
    ASSUME ProviderStep
    PROVE  UNCHANGED <<payments, bill, receipts, h, claims>>
  BY DEF ProviderStep, GatewayCapture, GatewayDecline, GatewayRefund,
     GatewayStep, store

(* Captures stay, and events of offline payments do not come up.           *)
LEMMA ProviderFields ==
    ASSUME TypeOK, ProviderStep
    PROVE  \A q \in Payments :
              /\ gateway[q].captured => gateway'[q].captured
              /\ "captured" \in gateway'[q].events =>
                    "captured" \in gateway[q].events \/ gateway'[q].captured
              /\ gateway'[q].events \subseteq gateway[q].events \cup GatewayEvents
              /\ q \in Offline => gateway'[q].events = gateway[q].events
<1>1. PICK p \in Payments : \/ GatewayCapture(p)
                            \/ GatewayDecline(p)
                            \/ GatewayRefund(p)
  BY DEF ProviderStep
<1>2. gateway[p] \in Provider
  BY FieldTypes
<1>3. CASE GatewayCapture(p)
  <2> DEFINE provider == [gateway[p] EXCEPT !.captured = TRUE]
  <2>1. /\ provider \in Provider
        /\ provider.captured
        /\ provider.events = gateway[p].events
    BY <1>2 DEF Provider
  <2>2. GatewayStep(p, "captured", provider)
    BY <1>3 DEF GatewayCapture
  <2>3. /\ "captured" \in GatewayEvents /\ p \notin Offline
        /\ \A q \in Payments :
              /\ gateway'[q].captured = IF q = p THEN provider.captured
                                                 ELSE gateway[q].captured
              /\ gateway'[q].events = IF q = p THEN provider.events \cup {"captured"}
                                               ELSE gateway[q].events
    <3> HIDE DEF provider
    <3>1. QED
      BY <2>1, <2>2, GatewayFields
  <2>4. QED
    BY <2>1, <2>3
<1>4. CASE GatewayDecline(p)
  <2>1. GatewayStep(p, "failed", gateway[p])
    BY <1>4 DEF GatewayDecline
  <2>2. /\ "failed" \in GatewayEvents /\ p \notin Offline
        /\ \A q \in Payments :
              /\ gateway'[q].captured = IF q = p THEN gateway[p].captured
                                                 ELSE gateway[q].captured
              /\ gateway'[q].events = IF q = p THEN gateway[p].events \cup {"failed"}
                                               ELSE gateway[q].events
    BY <1>2, <2>1, GatewayFields
  <2>3. QED
    BY <2>2
<1>5. CASE GatewayRefund(p)
  <2> DEFINE provider == [gateway[p] EXCEPT !.refunded = payments[p].amount]
  <2>1. /\ provider \in Provider
        /\ provider.captured = gateway[p].captured
        /\ provider.events = gateway[p].events
    BY <1>2, FieldTypes DEF Provider
  <2>2. GatewayStep(p, "refunded", provider)
    BY <1>5 DEF GatewayRefund
  <2>3. /\ "refunded" \in GatewayEvents /\ p \notin Offline
        /\ \A q \in Payments :
              /\ gateway'[q].captured = IF q = p THEN provider.captured
                                                 ELSE gateway[q].captured
              /\ gateway'[q].events = IF q = p THEN provider.events \cup {"refunded"}
                                               ELSE gateway[q].events
    <3> HIDE DEF provider
    <3>1. QED
      BY <2>1, <2>2, GatewayFields
  <2>4. QED
    BY <2>1, <2>3
<1>6. QED
  BY <1>1, <1>3, <1>4, <1>5

(* What a request has read when it awaits for the first time.              *)
RequestHolds(i) ==
    /\ h'[i].pc \notin {"readBill", "writeBill", "reduceUnit", "postReceipt",
                        "refundStatus"}
    /\ h'[i].pc = "waiveWrite" => /\ bill.status \notin {"PAID", "WAIVED"}
                                  /\ h'[i].snap = bill
    /\ h'[i].pc = "offline" => /\ h'[i].p \in Offline
                               /\ payments[h'[i].p].status = "NONE"
                               /\ \A j \in Handlers : h[j].p # h'[i].p
    /\ h'[i].pc = "claim" => gateway[h'[i].p].captured
    /\ h'[i].pc = "hookCaptured" => "captured" \in gateway[h'[i].p].events
    /\ h'[i].pc = "hookFailed" => "failed" \in gateway[h'[i].p].events
    /\ h'[i].pc = "badSignature" => "badVerify" \in Ops
    /\ h'[i].pc = "refundGateway" =>
          /\ payments[h'[i].p].status = "SUCCESS"
          /\ \/ "partialRefund" \in Ops
             \/ h'[i].prior + h'[i].amt = payments[h'[i].p].amount
    /\ \/ h'[i].p \notin Offline
       \/ h'[i].pc = "offline"
       \/ payments[h'[i].p].status # "NONE"
       \/ gateway[h'[i].p].events # {}

(* Every request that starts holds what its guard read.                    *)
LEMMA RequestReads ==
    ASSUME TypeOK, NEW i \in Handlers, Request(i)
    PROVE  RequestHolds(i)
<1>0. "none" \notin Offline
  BY PaymentsAssumption
<1>1. ASSUME NEW p \in Payments, IntentRead(i, p)
      PROVE  RequestHolds(i)
  <2>1. h'[i] = [Idle EXCEPT !.pc = "order", !.p = p, !.amt = bill.due]
    BY <1>1 DEF IntentRead, Begin, TypeOK
  <2>2. h'[i].pc = "order" /\ h'[i].p = p
    BY <2>1 DEF Idle
  <2>3. QED
    BY <1>0, <1>1, <2>2 DEF RequestHolds, IntentRead
<1>2. ASSUME NEW p \in Payments, VerifyRead(i, p)
      PROVE  RequestHolds(i)
  <2>1. h'[i] = Apply(i, p)
    BY <1>2 DEF VerifyRead, Begin, TypeOK
  <2>2. h'[i].pc = "claim" /\ h'[i].p = p
    BY <2>1 DEF Idle, Apply
  <2>3. QED
    BY <1>0, <1>2, <2>2 DEF RequestHolds, VerifyRead
<1>3. ASSUME NEW p \in Payments, BadVerifyRead(i, p)
      PROVE  RequestHolds(i)
  <2>1. h'[i] = [Idle EXCEPT !.pc = "badSignature", !.p = p]
    BY <1>3 DEF BadVerifyRead, Begin, TypeOK
  <2>2. h'[i].pc = "badSignature" /\ h'[i].p = p
    BY <2>1 DEF Idle
  <2>3. QED
    BY <1>0, <1>3, <2>2 DEF RequestHolds, BadVerifyRead, Begin
<1>4. ASSUME NEW p \in Payments, RefundRead(i, p)
      PROVE  RequestHolds(i)
  <2>1. h'[i] = Refund(p, Remaining(p))
    BY <1>4 DEF RefundRead, Begin, TypeOK
  <2>2. /\ h'[i].pc = "refundGateway" /\ h'[i].p = p
        /\ h'[i].amt = Remaining(p) /\ h'[i].prior = payments[p].refunded
    BY <2>1 DEF Idle, Refund
  <2>3. QED
    BY <1>0, <1>4, <2>2, FieldTypes DEF RequestHolds, RefundRead, Refundable, Remaining
<1>5. ASSUME NEW p \in Payments, NEW a, OfflineRead(i, p, a)
      PROVE  RequestHolds(i)
  <2>1. h'[i] = [Idle EXCEPT !.pc = "offline", !.p = p, !.amt = a]
    BY <1>5 DEF OfflineRead, Begin, TypeOK
  <2>2. h'[i].pc = "offline" /\ h'[i].p = p
    BY <2>1 DEF Idle
  <2>3. QED
    BY <1>0, <1>5, <2>2 DEF RequestHolds, OfflineRead
<1>6. ASSUME NEW p \in Payments, NEW a, PartialRefundRead(i, p, a)
      PROVE  RequestHolds(i)
  <2>1. h'[i] = Refund(p, a)
    BY <1>6 DEF PartialRefundRead, Begin, TypeOK
  <2>2. h'[i].pc = "refundGateway" /\ h'[i].p = p
    BY <2>1 DEF Idle, Refund
  <2>3. QED
    BY <1>0, <1>6, <2>2, FieldTypes DEF RequestHolds, PartialRefundRead, Refundable, Begin
<1>7. ASSUME NEW p \in Payments, NEW event \in {"captured", "failed", "refunded"},
             WebhookRead(i, p, event)
      PROVE  RequestHolds(i)
  <2>1. h'[i] = [Idle EXCEPT !.pc = HookStep[event], !.p = p]
    BY <1>7 DEF WebhookRead, Begin, TypeOK
  <2>2. h'[i].pc = HookStep[event] /\ h'[i].p = p
    BY <2>1 DEF Idle
  <2>3. QED
    BY <1>0, <1>7, <2>2 DEF RequestHolds, WebhookRead, HookStep
<1>8. ASSUME NEW w, WaiveRead(i, w)
      PROVE  RequestHolds(i)
  <2>1. h'[i] = [Idle EXCEPT !.pc = "waiveWrite", !.amt = w, !.snap = bill]
    BY <1>8 DEF WaiveRead, Begin, TypeOK
  <2>2. h'[i].pc = "waiveWrite" /\ h'[i].p = "none" /\ h'[i].snap = bill
    BY <2>1 DEF Idle
  <2>3. QED
    BY <1>0, <1>8, <2>2 DEF RequestHolds, WaiveRead
<1>9. ASSUME FeeRead(i)
      PROVE  RequestHolds(i)
  <2>1. h'[i] = [Idle EXCEPT !.pc = "feeWrite"]
    BY <1>9 DEF FeeRead, Begin, TypeOK
  <2>2. h'[i].pc = "feeWrite" /\ h'[i].p = "none"
    BY <2>1 DEF Idle
  <2>3. QED
    BY <1>0, <1>9, <2>2 DEF RequestHolds, FeeRead
<1>10. ASSUME DisputeRead(i)
      PROVE  RequestHolds(i)
  <2>1. h'[i] = [Idle EXCEPT !.pc = "disputeWrite"]
    BY <1>10 DEF DisputeRead, Begin, TypeOK
  <2>2. h'[i].pc = "disputeWrite" /\ h'[i].p = "none"
    BY <2>1 DEF Idle
  <2>3. QED
    BY <1>0, <1>10, <2>2 DEF RequestHolds, DisputeRead
<1>11. ASSUME SendRead(i)
      PROVE  RequestHolds(i)
  <2>1. h'[i] = [Idle EXCEPT !.pc = "sendWrite", !.snap = bill]
    BY <1>11 DEF SendRead, Begin, TypeOK
  <2>2. h'[i].pc = "sendWrite" /\ h'[i].p = "none"
    BY <2>1 DEF Idle
  <2>3. QED
    BY <1>0, <1>11, <2>2 DEF RequestHolds, SendRead
<1>12. \A p \in Payments : gateway[p].events \subseteq {"captured", "failed", "refunded"}
  BY FieldTypes DEF Provider
<1>13. \A p \in Payments : \A event :
        WebhookRead(i, p, event) => event \in {"captured", "failed", "refunded"}
  BY <1>12 DEF WebhookRead
<1>14. QED
  BY <1>1, <1>2, <1>3, <1>4, <1>5, <1>6,
     <1>7, <1>8, <1>9, <1>10, <1>11, <1>13 DEF Request

-----------------------------------------------------------------------------
(* A bill that is settled owes nothing.                                    *)

(* A waiver restores the status it read, which was neither PAID nor WAIVED *)
(* when the request was accepted.                                          *)
SettledInv ==
    /\ SettledOwesNothing
    /\ \A i \in Handlers : h[i].pc = "waiveWrite" =>
                              h[i].snap.status \notin {"PAID", "WAIVED"}

(* SettledInv is inductive: only six actions write the bill.               *)
LEMMA SettledNext == TypeOK /\ SettledInv /\ [Next]_vars => SettledInv'
<1> SUFFICES ASSUME TypeOK, SettledInv, [Next]_vars PROVE SettledInv'
  OBVIOUS
<1> USE DEF SettledInv, SettledOwesNothing
<1>1. ASSUME NEW i \in Handlers, WriteBill(i) \/ RefundWriteBill(i)
      PROVE  SettledOwesNothing'
  <2>1. PICK f \in {PaidInto(h[i].snap, h[i].amt),
                  RefundedFrom(h[i].snap, h[i].amt)} : SetBill(f)
    BY <1>1 DEF WriteBill, RefundWriteBill
  <2>2. /\ f.status \in {"PAID", "PARTIALLY_PAID"}
        /\ f.status = "PAID" => f.due <= 0
    BY <2>1, FieldTypes, PaidTyped
  <2>3. bill'.status = f.status /\ bill'.due = f.due
    BY <2>1 DEF SetBill, TypeOK, Bill
  <2>4. QED
    BY <2>2, <2>3
<1>2. ASSUME NEW i \in Handlers, WaiveWrite(i) PROVE SettledOwesNothing'
  <2>1. h[i].snap.status \notin {"PAID", "WAIVED"}
    BY <1>2 DEF WaiveWrite
  <2>2. /\ bill'.due = h[i].snap.due - h[i].amt
        /\ bill'.status = IF bill'.due <= 0 THEN "WAIVED" ELSE h[i].snap.status
    BY <1>2 DEF WaiveWrite, TypeOK, Bill
  <2>3. QED
    BY <2>1, <2>2
<1>3. ASSUME NEW i \in Handlers, FeeWrite(i) \/ DisputeWrite(i) \/ SendWrite(i)
      PROVE  SettledOwesNothing'
  <2>1. bill'.status \in {"OVERDUE", "DISPUTED", "PARTIALLY_PAID", "SENT"}
    BY <1>3 DEF FeeWrite, DisputeWrite, SendWrite, TypeOK, Bill
  <2>2. QED
    BY <2>1
<1>4. ASSUME NEW i \in Handlers, Continue(i) \/ Abort(i) PROVE SettledInv'
  <2>1. SettledOwesNothing'
    BY <1>1, <1>2, <1>3, <1>4, ContinueWrites
  <2>2. QED
    BY <1>4, <2>1, ContinueMoves DEF Targets, Plain
<1>5. ASSUME NEW i \in Handlers, Request(i) PROVE SettledInv'
  BY <1>5, RequestMoves, RequestReads DEF RequestHolds
<1>6. CASE ProviderStep
  BY <1>6, ProviderMoves
<1>7. CASE UNCHANGED vars
  BY <1>7 DEF vars
<1>8. QED
  BY <1>4, <1>5, <1>6, <1>7 DEF Next

(* In every reachable state a bill shown as PAID or WAIVED has nothing     *)
(* due, however payments, refunds, waivers, fees, disputes and sendings of *)
(* it interleave and die.                                                  *)
THEOREM SettledCorrect == Spec => []SettledOwesNothing
<1>1. Init => SettledInv
  BY DEF Init, SettledInv, SettledOwesNothing, NewBill, Idle
<1>2. SettledInv => SettledOwesNothing
  BY DEF SettledInv
<1>3. QED
  BY <1>1, <1>2, TypeCorrect, SettledNext, PTL DEF Spec

-----------------------------------------------------------------------------
(* Credit needs a capture.                                                 *)

(* What a request carries from the provider to the claim.                  *)
CaptureInv ==
    /\ CreditNeedsCapture
    /\ \A p \in Payments : "captured" \in gateway[p].events => gateway[p].captured
    /\ \A i \in Handlers :
          /\ h[i].pc = "hookCaptured" => gateway[h[i].p].captured
          /\ h[i].pc = "offline" => h[i].p \in Offline
          /\ h[i].pc = "claim" => h[i].p \in Offline \/ gateway[h[i].p].captured

(* CaptureInv is inductive.                                                *)
LEMMA CaptureNext == TypeOK /\ CaptureInv /\ [Next]_vars => CaptureInv'
<1> SUFFICES ASSUME TypeOK, CaptureInv, [Next]_vars PROVE CaptureInv'
  OBVIOUS
<1> USE DEF CaptureInv, CreditNeedsCapture
<1>1. ASSUME NEW i \in Handlers, Continue(i) \/ Abort(i) PROVE CaptureInv'
  <2>1. CASE ClaimWon(i)
    <3>1. h[i].pc = "claim" /\ UNCHANGED gateway
      BY <2>1 DEF ClaimWon
    <3>2. \A p \in Payments : claims'[p] > claims[p] => p = h[i].p
      BY <2>1 DEF ClaimWon, TypeOK
    <3>3. \A p \in Payments : claims[p] \in Nat /\ claims'[p] \in Nat
      BY <2>1, TypeNext DEF TypeOK
    <3>4. CreditNeedsCapture'
      BY <3>1, <3>2, <3>3
    <3>5. h'[i].pc = "readBill"
      BY <2>1, GotoFields DEF ClaimWon
    <3>6. QED
      BY <1>1, <3>1, <3>4, <3>5, ContinueMoves
  <2>2. CASE RefundGateway(i)
    <3>1. UNCHANGED claims
      BY <2>2 DEF RefundGateway
    <3>2. \A p \in Payments : /\ gateway'[p].captured = gateway[p].captured
                              /\ gateway'[p].events = gateway[p].events
      BY <2>2 DEF RefundGateway, TypeOK, Provider
    <3>3. h'[i].pc = "refundStatus"
      BY <2>2, GotoFields DEF RefundGateway
    <3>4. \A j \in Handlers :
             h'[j].pc \in {"hookCaptured", "claim"} => h'[j].p \in Payments
      BY <3>3, TypeNext DEF TypeOK, NoPaymentSteps
    <3>5. QED
      BY <1>1, <3>1, <3>2, <3>3, <3>4, ContinueMoves
  <2>3. CASE OfflineCreate(i) \/ WebhookCaptured(i)
    <3>1. UNCHANGED <<claims, gateway>>
      BY <2>3 DEF OfflineCreate, WebhookCaptured
    <3>2. h'[i].pc = "claim" => h'[i].p \in Offline \/ gateway[h'[i].p].captured
      <4>1. CASE OfflineCreate(i)
        BY <4>1, GotoFields DEF OfflineCreate
      <4>2. CASE h[i].pc = "hookCaptured" /\ h' = [h EXCEPT ![i] = Apply(i, h[i].p)]
        <5>1. h'[i].p = h[i].p
          BY <4>2 DEF Apply, Idle, TypeOK
        <5>2. QED
          BY <4>2, <5>1
      <4>3. CASE Finish(i)
        BY <4>3, FinishFields
      <4>4. QED
        BY <2>3, <4>1, <4>2, <4>3 DEF WebhookCaptured
    <3>3. QED
      BY <1>1, <3>1, <3>2, ContinueMoves DEF Targets, Plain
  <2>4. CASE ~(ClaimWon(i) \/ RefundGateway(i) \/ OfflineCreate(i)
               \/ WebhookCaptured(i))
    <3>1. UNCHANGED <<claims, gateway>>
      BY <1>1, <2>4, ContinueWrites
    <3>2. h'[i].pc # "claim"
      <4>1. CASE WebhookRefunded(i)
        <5>1. CASE h' = [h EXCEPT ![i] = Refund(h[i].p, Remaining(h[i].p))]
          BY <5>1 DEF Refund, Idle, TypeOK
        <5>2. CASE Finish(i)
          BY <5>2, FinishFields
        <5>3. QED
          BY <4>1, <5>1, <5>2 DEF WebhookRefunded
      <4>2. CASE ReadBill(i) \/ WriteBill(i) \/ ReduceUnit(i)
        BY <4>2, GotoFields, SnapFields DEF ReadBill, WriteBill, ReduceUnit
      <4>3. QED
        BY <1>1, <2>4, <4>1, <4>2, ContinueMoves DEF Plain
    <3>3. QED
      BY <1>1, <3>1, <3>2, ContinueMoves DEF Targets, Plain
  <2>5. QED
    BY <2>1, <2>2, <2>3, <2>4
<1>2. ASSUME NEW i \in Handlers, Request(i) PROVE CaptureInv'
  <2>1. h'[i].pc \in {"hookCaptured", "claim"} => h'[i].p \in Payments
    BY <1>2, TypeNext DEF TypeOK, NoPaymentSteps, Next
  <2>2. QED
    BY <1>2, <2>1, RequestMoves, RequestReads DEF RequestHolds
<1>3. CASE ProviderStep
  <2>1. \A j \in Handlers : h[j].pc \in {"hookCaptured", "claim"} => h[j].p \in Payments
    BY DEF TypeOK, NoPaymentSteps
  <2>2. QED
    BY <1>3, <2>1, ProviderFields, ProviderMoves
<1>4. CASE UNCHANGED vars
  BY <1>4 DEF vars
<1>5. QED
  BY <1>1, <1>2, <1>3, <1>4 DEF Next

(* No bill is credited for an online payment the provider never captured,  *)
(* whatever requests and events for it arrive, late, again or out of order.*)
THEOREM CaptureCorrect == Spec => []CreditNeedsCapture
<1>1. Init => CaptureInv
  BY DEF Init, CaptureInv, CreditNeedsCapture, Idle
<1>2. CaptureInv => CreditNeedsCapture
  BY DEF CaptureInv
<1>3. QED
  BY <1>1, <1>2, TypeCorrect, CaptureNext, PTL DEF Spec

-----------------------------------------------------------------------------
(* Payments refunded whole, if at all, and never failed are settled once.  *)

WholePayments ==
    /\ {"badVerify", "partialRefund"} \cap Ops = {}
    /\ "failed" \notin GatewayEvents

Booking == {"readBill", "writeBill", "reduceUnit", "postReceipt"}

(* The winner of the claim owns the payment until its receipt is posted;   *)
(* a refund in flight is a whole one; an offline collection owns its new   *)
(* document before it exists.                                              *)
Owner(i) ==
    /\ h[i].pc \notin {"badSignature", "hookFailed"}
    /\ h[i].pc \in Booking => h[i].p \in Settled /\ receipts[h[i].p] = 0
    /\ h[i].pc \in {"refundGateway", "refundStatus"} =>
          /\ h[i].p \in Settled
          /\ h[i].prior + h[i].amt = payments[h[i].p].amount
    /\ h[i].pc = "offline" => /\ h[i].p \in Offline
                              /\ payments[h[i].p].status = "NONE"

Apart(i, j) ==
    /\ h[i].pc = "offline" => h[j].p # h[i].p
    /\ h[i].pc \in Booking /\ h[j].pc \in Booking => h[i].p # h[j].p

PostedSettled == \A p \in Payments : receipts[p] > 0 => p \in Settled

WholeEvents ==
    \A p \in Payments : /\ "failed" \notin gateway[p].events
                        /\ p \in Offline => gateway[p].events = {}

OnceInv ==
    /\ PostedSettled
    /\ WholeEvents
    /\ \A i \in Handlers : Owner(i)
    /\ \A i, j \in Handlers : i # j => Apart(i, j)

(* A request in the middle of a payment holds a payment.                   *)
LEMMA HeldPayments ==
    ASSUME TypeOK
    PROVE  \A j \in Handlers : h[j].pc \notin NoPaymentSteps => h[j].p \in Payments
  BY DEF TypeOK

(* A step of request i that touches at most its own payment, keeps what is *)
(* settled settled, and takes nothing over from another request.           *)
LEMMA Frame ==
    ASSUME TypeOK, OnceInv, NEW i \in Handlers, Continue(i) \/ Abort(i),
           h'[i].p \in {h[i].p, "none"}, h'[i].pc # "offline",
           Owner(i)', PostedSettled', WholeEvents',
           \A q \in Payments :
              /\ q \in Settled => /\ q \in Settled'
                                  /\ payments'[q].amount = payments[q].amount
              /\ q # h[i].p => /\ receipts'[q] = receipts[q]
                               /\ payments'[q].status = payments[q].status,
           \A j \in Handlers \ {i} :
              h[j].pc \in Booking /\ h[j].p = h[i].p =>
                 receipts'[h[i].p] = receipts[h[i].p] /\ h'[i].pc \notin Booking
    PROVE  OnceInv'
<1>1. ASSUME NEW j \in Handlers \ {i} PROVE Owner(j)'
  <2>1. h'[j] = h[j] /\ Owner(j) /\ Apart(j, i)
    BY ContinueMoves DEF OnceInv
  <2>2. h[j].pc \notin NoPaymentSteps => h[j].p \in Payments
    BY HeldPayments
  <2>3. h[j].pc \in Booking => h[j].p \in Settled' /\ receipts'[h[j].p] = 0
    BY <2>1, <2>2 DEF Owner, Booking, NoPaymentSteps
  <2>4. h[j].pc \in {"refundGateway", "refundStatus"} =>
           /\ h[j].p \in Settled'
           /\ h[j].prior + h[j].amt = payments'[h[j].p].amount
    BY <2>1, <2>2 DEF Owner, NoPaymentSteps
  <2>5. h[j].pc = "offline" => /\ h[j].p \in Offline
                               /\ payments'[h[j].p].status = "NONE"
    BY <2>1, <2>2 DEF Owner, Apart, NoPaymentSteps
  <2>6. QED
    BY <2>1, <2>3, <2>4, <2>5 DEF Owner
<1>2. ASSUME NEW j \in Handlers, NEW k \in Handlers, j # k PROVE Apart(j, k)'
  <2>1. Apart(j, k)
    BY <1>2 DEF OnceInv
  <2>2. CASE j # i /\ k # i
    BY <2>1, <2>2, ContinueMoves DEF Apart
  <2>3. CASE j = i
    <3>1. h'[k] = h[k] /\ Apart(i, k)
      BY <1>2, <2>1, <2>3, ContinueMoves
    <3>2. h[k].pc \in Booking => h[k].p # "none"
      BY HeldPayments, PaymentsAssumption DEF NoPaymentSteps, Booking
    <3>3. QED
      BY <1>2, <2>3, <3>1, <3>2 DEF Apart
  <2>4. CASE k = i
    <3>1. h'[j] = h[j] /\ Apart(j, i)
      BY <1>2, <2>1, <2>4, ContinueMoves
    <3>2. h[j].pc \in Booking \cup {"offline"} => h[j].p # "none"
      BY HeldPayments, PaymentsAssumption DEF NoPaymentSteps, Booking
    <3>3. QED
      BY <1>2, <2>4, <3>1, <3>2 DEF Apart
  <2>5. QED
    BY <2>2, <2>3, <2>4
<1>3. QED
  BY <1>1, <1>2 DEF OnceInv

(* The same for a step that leaves payments, receipts and events alone.    *)
LEMMA QuietFrame ==
    ASSUME TypeOK, OnceInv, NEW i \in Handlers, Continue(i) \/ Abort(i),
           h'[i].p \in {h[i].p, "none"}, h'[i].pc # "offline", Owner(i)',
           h'[i].pc \in Booking => h[i].pc \in Booking,
           receipts' = receipts,
           \A q \in Payments : /\ payments'[q].status = payments[q].status
                               /\ payments'[q].amount = payments[q].amount
                               /\ gateway'[q].events = gateway[q].events
    PROVE  OnceInv'
<1>1. Settled' = Settled
  BY DEF Settled
<1>2. PostedSettled' /\ WholeEvents'
  BY <1>1 DEF OnceInv, PostedSettled, WholeEvents
<1>3. \A j \in Handlers \ {i} :
        h[j].pc \in Booking /\ h[j].p = h[i].p => h'[i].pc \notin Booking
  BY DEF OnceInv, Apart
<1>4. QED
  BY <1>1, <1>2, <1>3, Frame

(* A new document for a payment id that had none.                          *)
LEMMA InsertFrame ==
    ASSUME TypeOK, OnceInv, NEW i \in Handlers, IntentCreate(i) \/ OfflineCreate(i),
           Insert(i), h[i].p \in Payments, payments[h[i].p].status = "NONE"
    PROVE  OnceInv'
<1>1. \A q \in Payments :
        /\ payments'[q].status = IF q = h[i].p THEN "INITIATED"
                                              ELSE payments[q].status
        /\ q # h[i].p => payments'[q].amount = payments[q].amount
  BY InsertFields
<1>2. UNCHANGED <<receipts, gateway>>
  BY DEF IntentCreate, OfflineCreate
<1>3. Settled' = Settled /\ h[i].p \notin Settled
  BY <1>1 DEF Settled
<1>4. PostedSettled' /\ WholeEvents'
  BY <1>2, <1>3 DEF OnceInv, PostedSettled, WholeEvents
<1>5. h'[i].pc \in {"idle", "claim"} /\ h'[i].p \in {h[i].p, "none"}
  BY FinishFields, GotoFields DEF IntentCreate, OfflineCreate
<1>6. Owner(i)' /\ h'[i].pc \notin Booking
  BY <1>5 DEF Owner, Booking
<1>7. QED
  BY <1>1, <1>2, <1>3, <1>4, <1>5, <1>6, Frame DEF Continue

(* The refund of a whole payment turns it to REFUNDED.                     *)
LEMMA RefundWhole ==
    ASSUME TypeOK, OnceInv, NEW i \in Handlers, RefundStatus(i)
    PROVE  /\ h[i].p \in Settled
           /\ \A q \in Payments :
                 /\ payments'[q].status = IF q = h[i].p THEN "REFUNDED"
                                                       ELSE payments[q].status
                 /\ payments'[q].amount = payments[q].amount
<1>1. h[i].pc = "refundStatus"
  BY DEF RefundStatus
<1>2. h[i].p \in Payments
  BY <1>1, HeldPayments DEF NoPaymentSteps
<1>3. h[i].p \in Settled /\ h[i].prior + h[i].amt = payments[h[i].p].amount
  BY <1>1 DEF OnceInv, Owner
<1>4. h[i].prior + h[i].amt >= payments[h[i].p].amount
  BY <1>2, <1>3, FieldTypes
<1>5. payments' = [payments EXCEPT ![h[i].p].refunded = h[i].prior + h[i].amt,
                                   ![h[i].p].status = "REFUNDED"]
  BY <1>4 DEF RefundStatus
<1>6. QED
  BY <1>2, <1>3, <1>5, RefundFields

(* OnceInv holds after a request in flight moves.                          *)
LEMMA OnceContinue ==
    ASSUME TypeOK, OnceInv, NEW i \in Handlers, Continue(i) \/ Abort(i)
    PROVE  OnceInv'
<1> DEFINE p == h[i].p
<1>1. CASE IntentCreate(i)
  <2>1. p \in Payments
    BY <1>1, HeldPayments DEF IntentCreate, NoPaymentSteps
  <2>2. CASE payments[p].status = "NONE"
    BY <1>1, <2>1, <2>2, InsertFrame DEF IntentCreate
  <2>3. CASE payments[p].status # "NONE"
    <3>1. UNCHANGED <<payments, receipts, gateway>> /\ Finish(i)
      BY <1>1, <2>3 DEF IntentCreate
    <3>2. h'[i].pc = "idle" /\ h'[i].p = "none"
      BY <3>1, FinishFields
    <3>3. QED
      BY <3>1, <3>2, QuietFrame DEF Owner, Booking
  <2>4. QED
    BY <2>2, <2>3
<1>2. CASE OfflineCreate(i)
  <2>1. p \in Payments /\ payments[p].status = "NONE"
    BY <1>2, HeldPayments DEF OfflineCreate, NoPaymentSteps, OnceInv, Owner
  <2>2. QED
    BY <1>2, <2>1, InsertFrame DEF OfflineCreate
<1>3. CASE RejectSignature(i) \/ WebhookFailed(i)
  BY <1>3 DEF RejectSignature, WebhookFailed, SetFailed, OnceInv, Owner
<1>4. CASE WebhookCaptured(i)
  <2>1. UNCHANGED <<payments, receipts, gateway>>
    BY <1>4 DEF WebhookCaptured, store
  <2>2. h'[i].pc \in {"claim", "idle"} /\ h'[i].p \in {p, "none"}
    <3>1. CASE h' = [h EXCEPT ![i] = Apply(i, p)]
      BY <3>1 DEF Apply, Idle, TypeOK
    <3>2. CASE Finish(i)
      BY <3>2, FinishFields
    <3>3. QED
      BY <1>4, <3>1, <3>2 DEF WebhookCaptured
  <2>3. QED
    BY <2>1, <2>2, QuietFrame DEF Owner, Booking
<1>5. CASE WebhookRefunded(i)
  <2>1. UNCHANGED <<payments, receipts, gateway>>
    BY <1>5 DEF WebhookRefunded, store
  <2>2. CASE Finish(i)
    <3>1. h'[i].pc = "idle" /\ h'[i].p = "none"
      BY <2>2, FinishFields
    <3>2. QED
      BY <2>1, <3>1, QuietFrame DEF Owner, Booking
  <2>3. CASE ~Finish(i)
    <3>1. p \in Payments
      BY <1>5, HeldPayments DEF WebhookRefunded, NoPaymentSteps
    <3>2. /\ Refundable(p, Remaining(p))
          /\ h' = [h EXCEPT ![i] = Refund(p, Remaining(p))]
      BY <1>5, <2>3 DEF WebhookRefunded
    <3>3. /\ h'[i].pc = "refundGateway" /\ h'[i].p = p
          /\ h'[i].prior = payments[p].refunded /\ h'[i].amt = Remaining(p)
      BY <3>2 DEF Refund, Idle, TypeOK
    <3>4. p \in Settled /\ h'[i].prior + h'[i].amt = payments[p].amount
      BY <3>1, <3>2, <3>3, FieldTypes DEF Refundable, Remaining, Settled
    <3>5. Settled' = Settled
      BY <2>1 DEF Settled
    <3>6. Owner(i)'
      BY <2>1, <3>3, <3>4, <3>5 DEF Owner, Booking
    <3>7. QED
      BY <2>1, <3>3, <3>6, QuietFrame DEF Booking
  <2>4. QED
    BY <2>2, <2>3
<1>6. CASE ClaimWon(i)
  <2>1. p \in Payments
    BY <1>6, HeldPayments DEF ClaimWon, NoPaymentSteps
  <2>2. \A q \in Payments :
           /\ payments'[q].status = IF q = p THEN "SUCCESS" ELSE payments[q].status
           /\ payments'[q].amount = payments[q].amount
    BY <1>6, <2>1, StatusFields DEF ClaimWon
  <2>3. p \notin Settled /\ Settled' = Settled \cup {p}
    BY <1>6, <2>1, <2>2 DEF ClaimWon, Claimable, Settled
  <2>4. UNCHANGED <<receipts, gateway>>
    BY <1>6 DEF ClaimWon
  <2>5. h'[i].pc = "readBill" /\ h'[i].p = p
    BY <1>6, GotoFields DEF ClaimWon
  <2>6. receipts[p] = 0
    BY <2>1, <2>3 DEF OnceInv, PostedSettled, TypeOK
  <2>7. Owner(i)'
    BY <2>1, <2>3, <2>4, <2>5, <2>6 DEF Owner
  <2>8. PostedSettled' /\ WholeEvents'
    BY <2>3, <2>4 DEF OnceInv, PostedSettled, WholeEvents
  <2>9. \A j \in Handlers \ {i} : ~(h[j].pc \in Booking /\ h[j].p = p)
    BY <2>3 DEF OnceInv, Owner
  <2>10. QED
    BY <2>2, <2>3, <2>4, <2>5, <2>7, <2>8, <2>9, Frame
<1>7. CASE ReadBill(i) \/ WriteBill(i) \/ ReduceUnit(i)
  <2>1. UNCHANGED <<payments, receipts, gateway>>
    BY <1>7 DEF ReadBill, WriteBill, ReduceUnit, store
  <2>2. /\ h[i].pc \in Booking /\ h'[i].pc \in Booking /\ h'[i].p = p
    BY <1>7, GotoFields, SnapFields DEF ReadBill, WriteBill, ReduceUnit, Booking
  <2>3. Settled' = Settled
    BY <2>1 DEF Settled
  <2>4. Owner(i)'
    BY <2>1, <2>2, <2>3 DEF OnceInv, Owner, Booking
  <2>5. QED
    BY <2>1, <2>2, <2>4, QuietFrame DEF Booking
<1>8. CASE PostReceipt(i)
  <2>1. p \in Payments /\ h[i].pc \in Booking
    BY <1>8, HeldPayments DEF PostReceipt, NoPaymentSteps, Booking
  <2>2. UNCHANGED <<payments, gateway>> /\ receipts' = [receipts EXCEPT ![p] = @ + 1]
    BY <1>8 DEF PostReceipt
  <2>3. h'[i].pc = "linkEntry" /\ h'[i].p = p
    BY <1>8, GotoFields DEF PostReceipt
  <2>4. Settled' = Settled /\ p \in Settled
    BY <2>1, <2>2 DEF OnceInv, Owner, Settled
  <2>5. \A q \in Payments : q # p => receipts'[q] = receipts[q]
    BY <2>2 DEF TypeOK
  <2>6. PostedSettled' /\ WholeEvents'
    BY <2>2, <2>4, <2>5 DEF OnceInv, PostedSettled, WholeEvents
  <2>7. Owner(i)'
    BY <2>3 DEF Owner, Booking
  <2>8. \A j \in Handlers \ {i} : ~(h[j].pc \in Booking /\ h[j].p = p)
    BY <2>1 DEF OnceInv, Apart
  <2>9. QED
    BY <2>2, <2>3, <2>4, <2>5, <2>6, <2>7, <2>8, Frame
<1>9. CASE LinkEntry(i) \/ StampReceipt(i)
  <2>1. p \in Payments
    BY <1>9, HeldPayments DEF LinkEntry, StampReceipt, NoPaymentSteps
  <2>2. \A q \in Payments : /\ payments'[q].status = payments[q].status
                            /\ payments'[q].amount = payments[q].amount
    BY <1>9, <2>1, BookFields DEF LinkEntry, StampReceipt
  <2>3. UNCHANGED <<receipts, gateway>>
    BY <1>9 DEF LinkEntry, StampReceipt
  <2>4. h'[i].pc \in {"stampReceipt", "idle"} /\ h'[i].p \in {p, "none"}
    BY <1>9, GotoFields, FinishFields DEF LinkEntry, StampReceipt
  <2>5. QED
    BY <2>2, <2>3, <2>4, QuietFrame DEF Owner, Booking
<1>10. CASE RefundGateway(i)
  <2>1. UNCHANGED <<payments, receipts>>
    BY <1>10 DEF RefundGateway, store
  <2>2. \A q \in Payments : gateway'[q].events = gateway[q].events
    BY <1>10 DEF RefundGateway, TypeOK, Provider
  <2>3. /\ h[i].pc = "refundGateway" /\ h'[i].pc = "refundStatus" /\ h'[i].p = p
        /\ h'[i].prior = h[i].prior /\ h'[i].amt = h[i].amt
    BY <1>10, GotoFields DEF RefundGateway
  <2>4. Settled' = Settled
    BY <2>1 DEF Settled
  <2>5. Owner(i)'
    BY <2>1, <2>3, <2>4 DEF OnceInv, Owner, Booking
  <2>6. QED
    BY <2>1, <2>2, <2>3, <2>5, QuietFrame DEF Booking
<1>11. CASE RefundStatus(i)
  <2>1. p \in Payments /\ h[i].pc = "refundStatus"
    BY <1>11, HeldPayments DEF RefundStatus, NoPaymentSteps
  <2>2. p \in Settled
    BY <2>1 DEF OnceInv, Owner
  <2>3. \A q \in Payments :
           /\ payments'[q].status = IF q = p THEN "REFUNDED" ELSE payments[q].status
           /\ payments'[q].amount = payments[q].amount
    BY <1>11, RefundWhole
  <2>4. Settled' = Settled
    BY <2>2, <2>3 DEF Settled
  <2>5. UNCHANGED <<receipts, gateway>>
    BY <1>11 DEF RefundStatus
  <2>6. h'[i].pc = "refundEntry" /\ h'[i].p = p
    BY <1>11, GotoFields DEF RefundStatus
  <2>7. Owner(i)' /\ h'[i].pc \notin Booking
    BY <2>6 DEF Owner, Booking
  <2>8. PostedSettled' /\ WholeEvents'
    BY <2>4, <2>5 DEF OnceInv, PostedSettled, WholeEvents
  <2>9. QED
    BY <2>3, <2>4, <2>5, <2>6, <2>7, <2>8, Frame
<1>12. CASE /\ h'[i].pc \in Plain /\ h'[i].p \in {p, "none"}
            /\ UNCHANGED <<payments, receipts, gateway>>
  BY <1>12, QuietFrame DEF Owner, Booking, Plain
<1>13. CASE ClaimLost(i) \/ RefundEntry(i) \/ RefundReadBill(i) \/ RefundWriteBill(i)
            \/ RefundUnit(i) \/ WaiveWrite(i) \/ WaiveUnit(i) \/ FeeWrite(i)
            \/ FeeUnit(i) \/ DisputeWrite(i) \/ SendWrite(i) \/ Abort(i)
  <2>1. UNCHANGED <<payments, receipts, gateway>>
    BY <1>13 DEF ClaimLost, RefundEntry, RefundReadBill, RefundWriteBill,
       RefundUnit, WaiveWrite, WaiveUnit, FeeWrite, FeeUnit, DisputeWrite,
       SendWrite, Abort, store
  <2>2. h'[i].pc \in Plain /\ h'[i].p \in {p, "none"}
    <3>1. \/ Finish(i) \/ GotoWithBill(i, "refundWriteBill")
          \/ \E step \in {"refundReadBill", "refundUnit", "waiveUnit", "feeUnit"} :
               Goto(i, step)
      BY <1>13 DEF ClaimLost, RefundEntry, RefundReadBill, RefundWriteBill,
         RefundUnit, WaiveWrite, WaiveUnit, FeeWrite, FeeUnit, DisputeWrite,
         SendWrite, Abort
    <3>2. ASSUME NEW step, Goto(i, step) PROVE h'[i].p = p /\ h'[i].pc = step
      BY <3>2, GotoFields
    <3>3. QED
      BY <3>1, <3>2, FinishFields, SnapFields DEF Plain
  <2>3. QED
    BY <1>12, <2>1, <2>2
<1>14. QED
  BY <1>1, <1>2, <1>3, <1>4, <1>5, <1>6, <1>7, <1>8, <1>9, <1>10, <1>11, <1>13
  DEF Continue

(* OnceInv holds after a request starts.                                   *)
LEMMA OnceRequest ==
    ASSUME TypeOK, OnceInv, NEW i \in Handlers, Request(i), WholePayments
    PROVE  OnceInv'
<1>0. WholeEvents
  BY DEF OnceInv
<1>1. UNCHANGED <<payments, receipts, gateway>> /\ Settled' = Settled
  BY RequestMoves DEF Settled
<1>2. h[i].pc = "idle" /\ \A j \in Handlers \ {i} : h'[j] = h[j]
  BY RequestMoves
<1>3. RequestHolds(i)
  BY RequestReads
<1>4. h'[i].pc \notin NoPaymentSteps => h'[i].p \in Payments
  BY TypeNext DEF TypeOK, Next
<1>5. PostedSettled' /\ WholeEvents'
  BY <1>1 DEF OnceInv, PostedSettled, WholeEvents
<1>6. h'[i].pc \notin Booking
  BY <1>3 DEF RequestHolds, Booking
<1>7. Owner(i)'
  <2>1. h'[i].pc \notin {"badSignature", "hookFailed"}
    <3>1. h'[i].pc # "badSignature"
      BY <1>3 DEF RequestHolds, WholePayments
    <3>2. ASSUME h'[i].pc = "hookFailed" PROVE FALSE
      <4>1. h'[i].p \in Payments
        BY <1>4, <3>2 DEF NoPaymentSteps
      <4>2. "failed" \notin gateway[h'[i].p].events
        BY <4>1, <1>0 DEF WholeEvents
      <4>3. QED
        BY <1>3, <3>2, <4>2 DEF RequestHolds
    <3>3. QED
      BY <3>1, <3>2
  <2>2. h'[i].pc = "refundGateway" =>
           /\ h'[i].p \in Settled
           /\ h'[i].prior + h'[i].amt = payments[h'[i].p].amount
    BY <1>3, <1>4 DEF RequestHolds, WholePayments, Settled, NoPaymentSteps
  <2>3. h'[i].pc # "refundStatus"
    BY <1>3 DEF RequestHolds
  <2>4. h'[i].pc = "offline" => /\ h'[i].p \in Offline
                                /\ payments[h'[i].p].status = "NONE"
    BY <1>3 DEF RequestHolds
  <2>5. QED
    BY <1>1, <1>6, <2>1, <2>2, <2>3, <2>4 DEF Owner
<1>8. ASSUME NEW j \in Handlers \ {i} PROVE Owner(j)'
  BY <1>1, <1>2 DEF OnceInv, Owner
<1>9. ASSUME NEW j \in Handlers, NEW k \in Handlers, j # k PROVE Apart(j, k)'
  <2>1. CASE j # i /\ k # i
    BY <1>2, <1>9, <2>1 DEF OnceInv, Apart
  <2>2. CASE j = i
    BY <1>2, <1>3, <1>6, <1>9, <2>2 DEF RequestHolds, Apart
  <2>3. CASE k = i
    <3>1. h'[j] = h[j] /\ Owner(j)
      BY <1>2, <1>9, <2>3 DEF OnceInv
    <3>2. ASSUME h[j].pc = "offline" PROVE h'[i].p # h[j].p
      <4>1. h[j].p \in Payments
        BY <3>2, HeldPayments DEF NoPaymentSteps
      <4>2. h[j].p \in Offline /\ payments[h[j].p].status = "NONE"
        BY <3>1, <3>2 DEF Owner
      <4>3. gateway[h[j].p].events = {}
        BY <4>1, <4>2, <1>0 DEF WholeEvents
      <4>4. QED
        BY <1>3, <4>2, <4>3 DEF RequestHolds
    <3>3. h[j].pc = "offline" => h'[i].p # h[j].p
      BY <3>2
    <3>4. QED
      BY <1>6, <2>3, <3>1, <3>3 DEF Apart
  <2>4. QED
    BY <2>1, <2>2, <2>3
<1>10. QED
  BY <1>5, <1>7, <1>8, <1>9 DEF OnceInv

(* OnceInv is inductive for whole payments.                                *)
LEMMA OnceNext ==
    ASSUME WholePayments
    PROVE  TypeOK /\ OnceInv /\ [Next]_vars => OnceInv'
<1> SUFFICES ASSUME TypeOK, OnceInv, [Next]_vars PROVE OnceInv'
  OBVIOUS
<1>1. CASE ProviderStep
  <2>1. UNCHANGED <<payments, receipts, h>> /\ Settled' = Settled
    BY <1>1, ProviderMoves DEF Settled
  <2>2. WholeEvents'
    BY <1>1, ProviderFields DEF WholePayments, OnceInv, WholeEvents
  <2>3. PostedSettled'
    BY <2>1 DEF OnceInv, PostedSettled
  <2>4. \A j \in Handlers : Owner(j)'
    BY <2>1 DEF OnceInv, Owner
  <2>5. \A j, k \in Handlers : j # k => Apart(j, k)'
    BY <2>1 DEF OnceInv, Apart
  <2>6. QED
    BY <2>2, <2>3, <2>4, <2>5 DEF OnceInv
<1>2. CASE UNCHANGED vars
  BY <1>2 DEF vars, OnceInv, PostedSettled, WholeEvents, Owner, Apart, Settled
<1>3. QED
  BY <1>1, <1>2, OnceContinue, OnceRequest DEF Next

(* OnceInv holds initially.                                                *)
LEMMA OnceInit == Init => OnceInv
<1> SUFFICES ASSUME Init PROVE OnceInv
  OBVIOUS
<1>1. PostedSettled /\ WholeEvents
  BY DEF Init, PostedSettled, WholeEvents
<1>2. \A i \in Handlers : h[i].pc = "idle"
  BY DEF Init, Idle
<1>3. QED
  BY <1>1, <1>2 DEF OnceInv, Owner, Apart, Booking

(* A step either settles one payment that was not, posts the receipt of    *)
(* one that was settled and had none, or leaves both alone.                *)
LEMMA OnceStep ==
    ASSUME TypeOK, OnceInv, [Next]_vars, OnceInv'
    PROVE  [Once!Next]_(Once!vars)
<1>1. ASSUME NEW i \in Handlers, ClaimWon(i) PROVE Once!Next
  <2>1. h[i].p \in Payments
    BY <1>1, HeldPayments DEF ClaimWon, NoPaymentSteps
  <2>2. \A q \in Payments :
           payments'[q].status = IF q = h[i].p THEN "SUCCESS" ELSE payments[q].status
    BY <1>1, <2>1, StatusFields DEF ClaimWon
  <2>3. h[i].p \notin Settled /\ Settled' = Settled \cup {h[i].p}
    BY <1>1, <2>1, <2>2 DEF ClaimWon, Claimable, Settled
  <2>4. UNCHANGED receipts
    BY <1>1 DEF ClaimWon
  <2>5. QED
    BY <2>1, <2>3, <2>4 DEF Once!Next, Once!Settle
<1>2. ASSUME NEW i \in Handlers, PostReceipt(i) PROVE Once!Next
  <2>1. /\ h[i].p \in Payments /\ h[i].p \in Settled /\ receipts[h[i].p] = 0
    BY <1>2, HeldPayments DEF PostReceipt, NoPaymentSteps, OnceInv, Owner, Booking
  <2>2. receipts' = [receipts EXCEPT ![h[i].p] = 1]
    BY <1>2, <2>1 DEF PostReceipt, TypeOK
  <2>3. Settled' = Settled
    BY <1>2 DEF PostReceipt, Settled
  <2>4. QED
    BY <2>1, <2>2, <2>3 DEF Once!Next, Once!Post
<1>3. ASSUME NEW i \in Handlers, Continue(i) \/ Abort(i), ~ClaimWon(i), ~PostReceipt(i)
      PROVE  UNCHANGED <<Settled, receipts>>
  <2>1. UNCHANGED receipts
    BY <1>3, ContinueWrites
  <2>2. CASE IntentCreate(i) \/ OfflineCreate(i)
    <3>1. h[i].p \in Payments
      BY <2>2, HeldPayments DEF IntentCreate, OfflineCreate, NoPaymentSteps
    <3>2. CASE UNCHANGED payments
      BY <2>1, <3>2 DEF Settled
    <3>3. CASE ~UNCHANGED payments
      <4>1. payments[h[i].p].status = "NONE" /\ Insert(i)
        BY <2>2, <3>3 DEF IntentCreate, OfflineCreate, OnceInv, Owner
      <4>2. QED
        BY <2>1, <3>1, <4>1, InsertFields DEF Settled
    <3>4. QED
      BY <3>2, <3>3
  <2>3. CASE RejectSignature(i) \/ WebhookFailed(i)
    BY <2>3 DEF RejectSignature, WebhookFailed, SetFailed, OnceInv, Owner
  <2>4. CASE LinkEntry(i) \/ StampReceipt(i)
    <3>1. h[i].p \in Payments
      BY <2>4, HeldPayments DEF LinkEntry, StampReceipt, NoPaymentSteps
    <3>2. \A q \in Payments : payments'[q].status = payments[q].status
      BY <2>4, <3>1, BookFields DEF LinkEntry, StampReceipt
    <3>3. QED
      BY <2>1, <3>2 DEF Settled
  <2>5. CASE RefundStatus(i)
    BY <2>1, <2>5, RefundWhole DEF Settled
  <2>6. CASE UNCHANGED payments
    BY <2>1, <2>6 DEF Settled
  <2>7. QED
    BY <1>3, <2>2, <2>3, <2>4, <2>5, <2>6, ContinueWrites
<1>4. ASSUME NEW i \in Handlers, Request(i)
      PROVE  UNCHANGED <<Settled, receipts>>
  BY <1>4, RequestMoves DEF Settled
<1>5. ASSUME ProviderStep PROVE UNCHANGED <<Settled, receipts>>
  BY <1>5, ProviderMoves DEF Settled
<1>6. ASSUME UNCHANGED vars PROVE UNCHANGED <<Settled, receipts>>
  BY <1>6 DEF vars, Settled
<1>7. QED
  BY <1>1, <1>2, <1>3, <1>4, <1>5, <1>6 DEF Next, Once!vars

(* When payments are refunded whole or not at all, signatures verify and   *)
(* no declined event arrives, the money path of any number of payments,    *)
(* requests and bill operations takes the money of a payment at most once  *)
(* and posts at most one receipt for it, after taking the money.           *)
THEOREM SettlesOnceCorrect == WholePayments => (Spec => SettlesOnce)
<1> SUFFICES ASSUME WholePayments PROVE Spec => SettlesOnce
  OBVIOUS
<1>1. Init => Once!Init
  BY DEF Init, Once!Init, Settled, NoPayment
<1>2. TypeOK /\ OnceInv /\ [Next]_vars => OnceInv'
  BY OnceNext
<1>3. TypeOK /\ OnceInv /\ [Next]_vars /\ OnceInv' => [Once!Next]_(Once!vars)
  BY OnceStep
<1>4. QED
  BY <1>1, <1>2, <1>3, OnceInit, TypeCorrect, PTL DEF Spec, SettlesOnce, Once!Spec

-----------------------------------------------------------------------------
(* Money in flight: sums over the requests, counted as sets of coins.      *)

(* Amounts of money are counted as sets of coins: s holds w[s] of them.    *)
Coins(S, w) == UNION {{s} \X (1 .. w[s]) : s \in S}

LEMMA CoinsFinite ==
    ASSUME NEW S, IsFiniteSet(S), NEW w \in [S -> Nat]
    PROVE  IsFiniteSet(Coins(S, w)) /\ Cardinality(Coins(S, w)) \in Nat
<1>1. PICK purse : purse = [s \in S |-> {s} \X (1 .. w[s])]
    OBVIOUS
<1>2. PICK T : T = {{s} \X (1 .. w[s]) : s \in S}
    OBVIOUS
<1>3. purse \in Surjection(S, T)
  <2>1. purse \in [S -> T]
      BY <1>1, <1>2
  <2>2. \A t \in T : \E s \in S : purse[s] = t
      BY <1>1, <1>2
  <2> QED
      BY <2>1, <2>2, Fun_IsSurj
<1>4. IsFiniteSet(T)
    BY <1>3, FS_Surjection
<1>5. \A t \in T : IsFiniteSet(t)
  <2>1. ASSUME NEW s \in S PROVE IsFiniteSet({s} \X (1 .. w[s]))
    <3>0. w[s] \in Int
        OBVIOUS
    <3>1. IsFiniteSet({s})
        BY FS_Singleton
    <3>2. IsFiniteSet(1 .. w[s])
        BY <3>0, FS_Interval
    <3> QED
        BY <3>1, <3>2, FS_Product
  <2> QED
      BY <1>2, <2>1
<1>6. IsFiniteSet(UNION T)
    BY <1>4, <1>5, FS_UNION
<1>7. Coins(S, w) = UNION T
    BY <1>2 DEF Coins
<1> QED
    BY <1>6, <1>7, FS_CardinalityType

LEMMA CoinsOf ==
    ASSUME NEW S, IsFiniteSet(S), NEW w \in [S -> Nat], NEW i \in S
    PROVE  Cardinality(Coins(S, w)) = Cardinality(Coins(S \ {i}, w)) + w[i]
<1>1. PICK A, B : A = {i} \X (1 .. w[i]) /\ B = Coins(S \ {i}, w)
    OBVIOUS
<1>2. IsFiniteSet(A) /\ Cardinality(A) = w[i]
  <2>1. IsFiniteSet({i}) /\ Cardinality({i}) = 1
      BY FS_Singleton
  <2>0. w[i] \in Nat
      OBVIOUS
  <2>2. IsFiniteSet(1 .. w[i]) /\ Cardinality(1 .. w[i]) = w[i]
      BY <2>0, FS_Interval
  <2>3. PICK B1, B2 : B1 = {i} /\ B2 = 1 .. w[i]
      OBVIOUS
  <2>4. IsFiniteSet(B1 \X B2) /\ Cardinality(B1 \X B2) = Cardinality(B1) * Cardinality(B2)
      BY <2>1, <2>2, <2>3, FS_Product
  <2>5. Cardinality(B1 \X B2) = 1 * w[i]
      BY <2>1, <2>2, <2>3, <2>4
  <2> QED
      BY <1>1, <2>0, <2>3, <2>4, <2>5
<1>3. IsFiniteSet(B) /\ Cardinality(B) \in Nat
  <2>1. PICK v : v = [s \in S \ {i} |-> w[s]]
      OBVIOUS
  <2>2. IsFiniteSet(S \ {i}) /\ v \in [S \ {i} -> Nat]
      BY <2>1, FS_Subset
  <2>3. Coins(S \ {i}, v) = B
      BY <1>1, <2>1 DEF Coins
  <2> QED
      BY <2>2, <2>3, CoinsFinite
<1>4. Coins(S, w) = A \cup B /\ A \cap B = {}
    BY <1>1 DEF Coins
<1>5. Cardinality(A \cup B) = Cardinality(A) + Cardinality(B) - Cardinality(A \cap B)
    BY <1>2, <1>3, FS_Union
<1>6. Cardinality(A \cap B) = 0
    BY <1>4, FS_EmptySet
<1>7. w[i] \in Nat
    OBVIOUS
<1>8. Cardinality(A \cup B) = w[i] + Cardinality(B) - 0
    BY <1>2, <1>5, <1>6
<1>9. Cardinality(Coins(S, w)) = Cardinality(B) + w[i]
    BY <1>3, <1>4, <1>7, <1>8
<1> QED
    BY <1>1, <1>9

(* One purse is emptied and filled again: the total follows.               *)
LEMMA CoinsMove ==
    ASSUME NEW S, IsFiniteSet(S), NEW w \in [S -> Nat], NEW v \in [S -> Nat], NEW i \in S,
           \A s \in S \ {i} : v[s] = w[s]
    PROVE  /\ Cardinality(Coins(S, w)) \in Nat
           /\ Cardinality(Coins(S, v)) \in Nat
           /\ Cardinality(Coins(S, v)) = Cardinality(Coins(S, w)) - w[i] + v[i]
<1>1. Coins(S \ {i}, v) = Coins(S \ {i}, w)
    BY DEF Coins
<1>2. Cardinality(Coins(S, w)) = Cardinality(Coins(S \ {i}, w)) + w[i]
    BY CoinsOf
<1>3. Cardinality(Coins(S, v)) = Cardinality(Coins(S \ {i}, w)) + v[i]
    BY <1>1, CoinsOf
<1>4. Cardinality(Coins(S, w)) \in Nat /\ Cardinality(Coins(S, v)) \in Nat
    BY CoinsFinite
<1>5. Cardinality(Coins(S \ {i}, w)) \in Int
  <2>1. PICK u : u = [s \in S \ {i} |-> w[s]]
      OBVIOUS
  <2>2. IsFiniteSet(S \ {i}) /\ u \in [S \ {i} -> Nat]
      BY <2>1, FS_Subset
  <2>3. Coins(S \ {i}, u) = Coins(S \ {i}, w)
      BY <2>1 DEF Coins
  <2> QED
      BY <2>2, <2>3, CoinsFinite
<1> QED
    BY <1>2, <1>3, <1>4, <1>5

LEMMA NoCoins ==
    ASSUME NEW S, NEW w, \A s \in S : w[s] = 0
    PROVE  Cardinality(Coins(S, w)) = 0
<1>1. Coins(S, w) = {}
    BY DEF Coins
<1> QED
    BY <1>1, FS_EmptySet

(* What request l has claimed of payment p and not booked yet: one entry.  *)
OwingOf(l, p) == IF l.pc \in Booking /\ l.p = p THEN 1 ELSE 0
Owing(p) == [i \in Handlers |-> OwingOf(h[i], p)]
Unbooked(p) == Cardinality(Coins(Handlers, Owing(p)))

(* When one request moves, the entries in flight change by its own.        *)
LEMMA OwingMoves ==
    ASSUME NEW i \in Handlers, \A j \in Handlers \ {i} : h'[j] = h[j], NEW p
    PROVE  /\ Unbooked(p) \in Nat /\ Unbooked(p)' \in Nat
           /\ Unbooked(p)' = Unbooked(p) - OwingOf(h[i], p) + OwingOf(h'[i], p)
<1>1. Owing(p) \in [Handlers -> Nat] /\ Owing(p)' \in [Handlers -> Nat]
  BY DEF Owing, OwingOf
<1>2. \A j \in Handlers \ {i} : Owing(p)'[j] = Owing(p)[j]
  BY DEF Owing
<1>3. Owing(p)[i] = OwingOf(h[i], p) /\ Owing(p)'[i] = OwingOf(h'[i], p)
  BY DEF Owing
<1>4. Unbooked(p)' = Cardinality(Coins(Handlers, Owing(p)'))
  BY DEF Unbooked
<1>5. QED
  BY <1>1, <1>2, <1>3, <1>4, CoinsMove, PaymentsAssumption DEF Unbooked

(* A payment has as many entries, posted or in flight, as it had claims,   *)
(* unless a request died.                                                  *)
Booked(p) ==
    /\ receipts[p] + Unbooked(p) <= claims[p]
    /\ aborts = 0 => receipts[p] + Unbooked(p) = claims[p]
BookedInv == \A p \in Payments : Booked(p)

(* BookedInv is inductive: a claim starts an entry and PostReceipt ends it.*)
LEMMA BookedNext == TypeOK /\ BookedInv /\ [Next]_vars => BookedInv'
<1> SUFFICES ASSUME TypeOK, BookedInv, [Next]_vars, NEW p \in Payments
             PROVE  Booked(p)'
  BY DEF BookedInv
<1>1. Booked(p) /\ receipts[p] \in Nat /\ claims[p] \in Nat
  BY DEF BookedInv, TypeOK
<1>2. ASSUME NEW i \in Handlers, \A j \in Handlers \ {i} : h'[j] = h[j],
             OwingOf(h'[i], p) = OwingOf(h[i], p),
             UNCHANGED <<receipts, claims, aborts>>
      PROVE  Booked(p)'
  <2>1. Unbooked(p)' = Unbooked(p)
    BY <1>2, OwingMoves DEF OwingOf
  <2>2. QED
    BY <1>1, <1>2, <2>1 DEF Booked
<1>3. ASSUME NEW i \in Handlers, Continue(i) PROVE Booked(p)'
  <2>1. \A j \in Handlers \ {i} : h'[j] = h[j]
    BY <1>3, ContinueMoves
  <2>2. UNCHANGED aborts
    BY <1>3 DEF Continue, IntentCreate, OfflineCreate, RejectSignature,
       WebhookFailed, SetFailed, WebhookCaptured, WebhookRefunded, ClaimWon,
       ClaimLost, ReadBill, WriteBill, ReduceUnit, PostReceipt, LinkEntry,
       StampReceipt, RefundGateway, RefundStatus, RefundEntry, RefundReadBill,
       RefundWriteBill, RefundUnit, WaiveWrite, WaiveUnit, FeeWrite, FeeUnit,
       DisputeWrite, SendWrite
  <2>3. /\ Unbooked(p) \in Nat /\ Unbooked(p)' \in Nat
        /\ Unbooked(p)' = Unbooked(p) - OwingOf(h[i], p) + OwingOf(h'[i], p)
    BY <2>1, OwingMoves
  <2>4. CASE ClaimWon(i)
    <3>1. h[i].pc = "claim" /\ h'[i].pc = "readBill" /\ h'[i].p = h[i].p
      BY <2>4, GotoFields DEF ClaimWon
    <3>2. /\ UNCHANGED receipts
          /\ claims'[p] = IF h[i].p = p THEN claims[p] + 1 ELSE claims[p]
      BY <2>4 DEF ClaimWon, TypeOK
    <3>3. /\ OwingOf(h[i], p) = 0
          /\ OwingOf(h'[i], p) = IF h[i].p = p THEN 1 ELSE 0
      BY <3>1 DEF OwingOf, Booking
    <3>4. QED
      BY <1>1, <2>2, <2>3, <3>2, <3>3 DEF Booked
  <2>5. CASE PostReceipt(i)
    <3>1. h[i].pc = "postReceipt" /\ h'[i].pc = "linkEntry"
      BY <2>5, GotoFields DEF PostReceipt
    <3>2. /\ UNCHANGED claims
          /\ receipts'[p] = IF h[i].p = p THEN receipts[p] + 1 ELSE receipts[p]
      BY <2>5 DEF PostReceipt, TypeOK
    <3>3. /\ OwingOf(h[i], p) = IF h[i].p = p THEN 1 ELSE 0
          /\ OwingOf(h'[i], p) = 0
      BY <3>1 DEF OwingOf, Booking
    <3>4. QED
      BY <1>1, <2>2, <2>3, <3>2, <3>3 DEF Booked
  <2>6. CASE ReadBill(i) \/ WriteBill(i) \/ ReduceUnit(i)
    <3>1. /\ h[i].pc \in Booking /\ h'[i].pc \in Booking /\ h'[i].p = h[i].p
      BY <2>6, GotoFields, SnapFields DEF ReadBill, WriteBill, ReduceUnit, Booking
    <3>2. OwingOf(h'[i], p) = OwingOf(h[i], p) /\ UNCHANGED <<receipts, claims>>
      BY <2>6, <3>1 DEF OwingOf, ReadBill, WriteBill, ReduceUnit, store
    <3>3. QED
      BY <1>2, <2>1, <2>2, <3>2
  <2>7. CASE ~(\/ ClaimWon(i) \/ PostReceipt(i) \/ ReadBill(i) \/ WriteBill(i)
               \/ ReduceUnit(i))
    <3>1. h[i].pc \notin Booking
      BY <1>3, <2>7 DEF Booking, Continue, IntentCreate, OfflineCreate,
         RejectSignature, WebhookFailed, SetFailed, WebhookCaptured,
         WebhookRefunded, ClaimLost, LinkEntry, StampReceipt, RefundGateway,
         RefundStatus, RefundEntry, RefundReadBill, RefundWriteBill, RefundUnit,
         WaiveWrite, WaiveUnit, FeeWrite, FeeUnit, DisputeWrite, SendWrite
    <3>2. h'[i].pc \notin Booking
      <4>1. CASE OfflineCreate(i) \/ RefundGateway(i)
        BY <4>1, GotoFields DEF OfflineCreate, RefundGateway, Booking
      <4>2. CASE WebhookCaptured(i) \/ WebhookRefunded(i)
        <5>1. CASE h' = [h EXCEPT ![i] = Apply(i, h[i].p)]
          BY <5>1 DEF Apply, Idle, Booking, TypeOK
        <5>2. CASE h' = [h EXCEPT ![i] = Refund(h[i].p, Remaining(h[i].p))]
          BY <5>2 DEF Refund, Idle, Booking, TypeOK
        <5>3. CASE Finish(i)
          BY <5>3, FinishFields DEF Booking
        <5>4. QED
          BY <4>2, <5>1, <5>2, <5>3 DEF WebhookCaptured, WebhookRefunded
      <4>3. QED
        BY <1>3, <2>7, <4>1, <4>2, ContinueMoves DEF Plain, Booking
    <3>3. OwingOf(h'[i], p) = OwingOf(h[i], p) /\ UNCHANGED <<receipts, claims>>
      BY <1>3, <2>7, <3>1, <3>2, ContinueWrites DEF OwingOf
    <3>4. QED
      BY <1>2, <2>1, <2>2, <3>3
  <2>8. QED
    BY <2>4, <2>5, <2>6, <2>7
<1>4. ASSUME NEW i \in Handlers, Abort(i) PROVE Booked(p)'
  <2>1. \A j \in Handlers \ {i} : h'[j] = h[j]
    BY <1>4, ContinueMoves
  <2>2. h'[i].pc = "idle"
    BY <1>4, FinishFields DEF Abort
  <2>3. aborts' # 0 /\ UNCHANGED <<receipts, claims>>
    BY <1>4 DEF Abort, store, TypeOK
  <2>4. OwingOf(h'[i], p) = 0 /\ OwingOf(h[i], p) \in Nat
    BY <2>2 DEF OwingOf, Booking
  <2>5. Unbooked(p)' <= Unbooked(p) /\ Unbooked(p) \in Nat /\ Unbooked(p)' \in Nat
    BY <2>1, <2>4, OwingMoves
  <2>6. QED
    BY <1>1, <2>3, <2>5 DEF Booked
<1>5. ASSUME NEW i \in Handlers, Request(i) PROVE Booked(p)'
  <2>1. /\ \A j \in Handlers \ {i} : h'[j] = h[j]
        /\ UNCHANGED <<receipts, claims>>
        /\ h[i].pc \notin Booking
    BY <1>5, RequestMoves DEF Booking
  <2>2. UNCHANGED aborts
    BY <1>5 DEF Request, IntentRead, VerifyRead, BadVerifyRead, RefundRead,
       OfflineRead, PartialRefundRead, WebhookRead, WaiveRead, FeeRead,
       DisputeRead, SendRead
  <2>3. h'[i].pc \notin Booking
    BY <1>5, RequestReads DEF RequestHolds, Booking
  <2>4. QED
    BY <1>2, <2>1, <2>2, <2>3 DEF OwingOf
<1>6. CASE ProviderStep \/ UNCHANGED vars
  <2>1. UNCHANGED <<h, receipts, claims, aborts>>
    BY <1>6, ProviderMoves DEF vars, ProviderStep, GatewayCapture,
       GatewayDecline, GatewayRefund, GatewayStep
  <2>2. QED
    BY <1>1, <2>1 DEF Booked, Unbooked, Owing
<1>7. QED
  BY <1>3, <1>4, <1>5, <1>6 DEF Next

(* Nothing is in flight, booked or due at the start.                       *)
LEMMA BookedInit == Init => BookedInv
<1> SUFFICES ASSUME Init, NEW p \in Payments PROVE Booked(p)
  BY DEF BookedInv
<1>1. \A i \in Handlers : Owing(p)[i] = 0
  BY DEF Init, Owing, OwingOf, Idle, Booking
<1>2. Unbooked(p) = 0
  BY <1>1, NoCoins DEF Unbooked
<1>3. QED
  BY <1>2 DEF Init, Booked

(* However verifications, webhooks and collections of a payment race and   *)
(* die, its receipt is never booked more often than the payment was        *)
(* claimed, and if none of them died it is booked exactly as often.        *)
THEOREM EntryPerClaimCorrect == Spec => []EntryPerClaim
<1>1. TypeOK /\ BookedInv => EntryPerClaim
  <2> SUFFICES ASSUME TypeOK, BookedInv, NEW p \in Payments
               PROVE  /\ receipts[p] <= claims[p]
                      /\ Quiet /\ aborts = 0 => receipts[p] = claims[p]
    BY DEF EntryPerClaim
  <2>1. Booked(p) /\ receipts[p] \in Nat /\ claims[p] \in Nat
    BY DEF BookedInv, TypeOK
  <2>2. Owing(p) \in [Handlers -> Nat]
    BY DEF Owing, OwingOf
  <2>3. Unbooked(p) \in Nat
    BY <2>2, CoinsFinite, PaymentsAssumption DEF Unbooked
  <2>4. ASSUME Quiet PROVE Unbooked(p) = 0
    <3>1. \A i \in Handlers : Owing(p)[i] = 0
      BY <2>4 DEF Quiet, Owing, OwingOf, Booking
    <3>2. QED
      BY <3>1, NoCoins DEF Unbooked
  <2>5. QED
    BY <2>1, <2>3, <2>4 DEF Booked
<1>2. QED
  BY <1>1, BookedInit, BookedNext, TypeCorrect, PTL DEF Spec

-----------------------------------------------------------------------------
(* The unit and the cash book.                                             *)

(* What the unit shows too little while request l is in flight: a receipt  *)
(* still to be posted, a refund or a fee the unit is still to owe; and     *)
(* what it shows too much: a waiver still to be taken off.                 *)
ShortOf(l) ==
    CASE l.pc \in {"postReceipt", "refundReadBill", "refundWriteBill",
                   "refundUnit"} -> l.amt
      [] l.pc = "feeUnit" -> Fee
      [] OTHER -> 0
OverOf(l) == IF l.pc = "waiveUnit" THEN l.amt ELSE 0
Short == [i \in Handlers |-> ShortOf(h[i])]
Over == [i \in Handlers |-> OverOf(h[i])]
Missing == Cardinality(Coins(Handlers, Short))
Excess == Cardinality(Coins(Handlers, Over))

(* What the books say the unit owes.                                       *)
Booksay == BillTotal + bill.lateFee - bill.discount - cash
Agreed == aborts = 0 => outstanding + Missing = Booksay + Excess

LEMMA ShortTypes ==
    ASSUME NEW l \in Local
    PROVE  ShortOf(l) \in Nat /\ OverOf(l) \in Nat
<1>1. l.amt \in Nat /\ Fee \in Nat
  BY PaymentsAssumption DEF Local
<1>2. QED
  BY <1>1 DEF ShortOf, OverOf

(* When one request moves, what is missing and in excess change by its own.*)
LEMMA ShortMoves ==
    ASSUME TypeOK, TypeOK', NEW i \in Handlers, \A j \in Handlers \ {i} : h'[j] = h[j]
    PROVE  /\ Missing \in Nat /\ Missing' \in Nat /\ Excess \in Nat /\ Excess' \in Nat
           /\ ShortOf(h[i]) \in Nat /\ ShortOf(h'[i]) \in Nat
           /\ OverOf(h[i]) \in Nat /\ OverOf(h'[i]) \in Nat
           /\ Missing' = Missing - ShortOf(h[i]) + ShortOf(h'[i])
           /\ Excess' = Excess - OverOf(h[i]) + OverOf(h'[i])
<1>1. \A j \in Handlers : h[j] \in Local /\ h'[j] \in Local
  BY DEF TypeOK
<1>2. /\ Short \in [Handlers -> Nat] /\ Short' \in [Handlers -> Nat]
      /\ Over \in [Handlers -> Nat] /\ Over' \in [Handlers -> Nat]
  BY <1>1, ShortTypes DEF Short, Over
<1>3. \A j \in Handlers \ {i} : Short'[j] = Short[j] /\ Over'[j] = Over[j]
  BY DEF Short, Over
<1>4. /\ Short[i] = ShortOf(h[i]) /\ Short'[i] = ShortOf(h'[i])
      /\ Over[i] = OverOf(h[i]) /\ Over'[i] = OverOf(h'[i])
  BY DEF Short, Over
<1>5. /\ Missing' = Cardinality(Coins(Handlers, Short'))
      /\ Excess' = Cardinality(Coins(Handlers, Over'))
  BY DEF Missing, Excess
<1>6. Missing \in Nat /\ Missing' \in Nat /\ Missing' = Missing - Short[i] + Short'[i]
  BY <1>2, <1>3, <1>5, CoinsMove, PaymentsAssumption DEF Missing
<1>7. Excess \in Nat /\ Excess' \in Nat /\ Excess' = Excess - Over[i] + Over'[i]
  BY <1>2, <1>3, <1>5, CoinsMove, PaymentsAssumption DEF Excess
<1>8. QED
  BY <1>1, <1>4, <1>6, <1>7, ShortTypes

(* What a step of request i does to the unit, against what it does to the  *)
(* books and what the request has left to do.                              *)
Balanced(i) ==
    outstanding' + ShortOf(h'[i]) - OverOf(h'[i]) - Booksay'
       = outstanding + ShortOf(h[i]) - OverOf(h[i]) - Booksay

(* The fields of the bill that the books of the unit depend on.            *)
LEMMA BooksayIs ==
    ASSUME TypeOK
    PROVE  /\ Booksay \in Int /\ outstanding \in Int /\ cash \in Int
           /\ bill.lateFee \in Nat /\ bill.discount \in Nat
           /\ BillTotal \in Nat /\ Fee \in Nat
  BY BillFields, PaymentsAssumption DEF Booksay, TypeOK

(* A step that leaves money where it is.                                   *)
LEMMA StillBalanced ==
    ASSUME TypeOK, NEW i \in Handlers,
           bill'.lateFee = bill.lateFee, bill'.discount = bill.discount,
           UNCHANGED <<outstanding, cash>>,
           ShortOf(h'[i]) = ShortOf(h[i]), OverOf(h'[i]) = OverOf(h[i])
    PROVE  Balanced(i)
  BY DEF Balanced, Booksay

(* Every step of a request keeps the balance.                              *)
LEMMA ContinueBalanced ==
    ASSUME TypeOK, TypeOK', NEW i \in Handlers, Continue(i)
    PROVE  Balanced(i)
<1>0. /\ h[i] \in Local /\ h'[i] \in Local /\ h[i].amt \in Nat
      /\ \A j \in Handlers \ {i} : h'[j] = h[j]
  BY FieldTypes, ContinueMoves DEF TypeOK
<1>1. CASE ReduceUnit(i)
  <2>1. /\ h[i].pc = "reduceUnit" /\ h'[i].pc = "postReceipt" /\ h'[i].amt = h[i].amt
    BY <1>1, GotoFields DEF ReduceUnit
  <2>2. outstanding' = outstanding - h[i].amt /\ UNCHANGED <<bill, cash>>
    BY <1>1 DEF ReduceUnit
  <2>3. /\ ShortOf(h[i]) = 0 /\ ShortOf(h'[i]) = h[i].amt
        /\ OverOf(h[i]) = 0 /\ OverOf(h'[i]) = 0
    BY <2>1 DEF ShortOf, OverOf
  <2>4. QED
    BY <1>0, <2>2, <2>3, BooksayIs DEF Balanced, Booksay
<1>2. CASE PostReceipt(i)
  <2>1. /\ h[i].pc = "postReceipt" /\ h'[i].pc = "linkEntry"
    BY <1>2, GotoFields DEF PostReceipt
  <2>2. cash' = cash + h[i].amt /\ UNCHANGED <<bill, outstanding>>
    BY <1>2 DEF PostReceipt
  <2>3. /\ ShortOf(h[i]) = h[i].amt /\ ShortOf(h'[i]) = 0
        /\ OverOf(h[i]) = 0 /\ OverOf(h'[i]) = 0
    BY <2>1 DEF ShortOf, OverOf
  <2>4. QED
    BY <1>0, <2>2, <2>3, BooksayIs DEF Balanced, Booksay
<1>3. CASE RefundEntry(i)
  <2>1. /\ h[i].pc = "refundEntry" /\ h'[i].pc = "refundReadBill" /\ h'[i].amt = h[i].amt
    BY <1>3, GotoFields DEF RefundEntry
  <2>2. cash' = cash - h[i].amt /\ UNCHANGED <<bill, outstanding>>
    BY <1>3 DEF RefundEntry
  <2>3. /\ ShortOf(h[i]) = 0 /\ ShortOf(h'[i]) = h[i].amt
        /\ OverOf(h[i]) = 0 /\ OverOf(h'[i]) = 0
    BY <2>1 DEF ShortOf, OverOf
  <2>4. QED
    BY <1>0, <2>2, <2>3, BooksayIs DEF Balanced, Booksay
<1>4. CASE RefundReadBill(i)
  <2>1. h[i].pc = "refundReadBill" /\ h'[i].pc = "refundWriteBill" /\ h'[i].amt = h[i].amt
    BY <1>4 DEF RefundReadBill, GotoWithBill, TypeOK, Local
  <2>2. UNCHANGED <<bill, outstanding, cash>>
    BY <1>4 DEF RefundReadBill, store
  <2>3. ShortOf(h'[i]) = ShortOf(h[i]) /\ OverOf(h'[i]) = OverOf(h[i])
    BY <2>1 DEF ShortOf, OverOf
  <2>4. QED
    BY <2>2, <2>3, StillBalanced
<1>5. CASE RefundWriteBill(i)
  <2>1. h[i].pc = "refundWriteBill" /\ h'[i].pc = "refundUnit" /\ h'[i].amt = h[i].amt
    BY <1>5, GotoFields DEF RefundWriteBill
  <2>2. UNCHANGED <<outstanding, cash>>
    BY <1>5 DEF RefundWriteBill
  <2>3. bill'.lateFee = bill.lateFee /\ bill'.discount = bill.discount
    BY <1>5 DEF RefundWriteBill, SetBill, TypeOK, Bill
  <2>4. ShortOf(h'[i]) = ShortOf(h[i]) /\ OverOf(h'[i]) = OverOf(h[i])
    BY <2>1 DEF ShortOf, OverOf
  <2>5. QED
    BY <2>2, <2>3, <2>4, StillBalanced
<1>6. CASE RefundUnit(i)
  <2>1. h[i].pc = "refundUnit" /\ h'[i].pc = "idle"
    BY <1>6, FinishFields DEF RefundUnit
  <2>2. outstanding' = outstanding + h[i].amt /\ UNCHANGED <<bill, cash>>
    BY <1>6 DEF RefundUnit
  <2>3. /\ ShortOf(h[i]) = h[i].amt /\ ShortOf(h'[i]) = 0
        /\ OverOf(h[i]) = 0 /\ OverOf(h'[i]) = 0
    BY <2>1 DEF ShortOf, OverOf
  <2>4. QED
    BY <1>0, <2>2, <2>3, BooksayIs DEF Balanced, Booksay
<1>7. CASE WaiveWrite(i)
  <2>1. h[i].pc = "waiveWrite" /\ h'[i].pc = "waiveUnit" /\ h'[i].amt = h[i].amt
    BY <1>7, GotoFields DEF WaiveWrite
  <2>2. UNCHANGED <<outstanding, cash>>
    BY <1>7 DEF WaiveWrite
  <2>3. bill'.lateFee = bill.lateFee /\ bill'.discount = bill.discount + h[i].amt
    BY <1>7 DEF WaiveWrite, TypeOK, Bill
  <2>4. /\ ShortOf(h[i]) = 0 /\ ShortOf(h'[i]) = 0
        /\ OverOf(h[i]) = 0 /\ OverOf(h'[i]) = h[i].amt
    BY <2>1 DEF ShortOf, OverOf
  <2>5. QED
    BY <1>0, <2>2, <2>3, <2>4, BooksayIs DEF Balanced, Booksay
<1>8. CASE WaiveUnit(i)
  <2>1. h[i].pc = "waiveUnit" /\ h'[i].pc = "idle"
    BY <1>8, FinishFields DEF WaiveUnit
  <2>2. outstanding' = outstanding - h[i].amt /\ UNCHANGED <<bill, cash>>
    BY <1>8 DEF WaiveUnit
  <2>3. /\ ShortOf(h[i]) = 0 /\ ShortOf(h'[i]) = 0
        /\ OverOf(h[i]) = h[i].amt /\ OverOf(h'[i]) = 0
    BY <2>1 DEF ShortOf, OverOf
  <2>4. QED
    BY <1>0, <2>2, <2>3, BooksayIs DEF Balanced, Booksay
<1>9. CASE FeeWrite(i)
  <2>1. h[i].pc = "feeWrite" /\ h'[i].pc = "feeUnit"
    BY <1>9, GotoFields DEF FeeWrite
  <2>2. UNCHANGED <<outstanding, cash>>
    BY <1>9 DEF FeeWrite
  <2>3. bill'.lateFee = bill.lateFee + Fee /\ bill'.discount = bill.discount
    BY <1>9 DEF FeeWrite, TypeOK, Bill
  <2>4. /\ ShortOf(h[i]) = 0 /\ ShortOf(h'[i]) = Fee
        /\ OverOf(h[i]) = 0 /\ OverOf(h'[i]) = 0
    BY <2>1 DEF ShortOf, OverOf
  <2>5. QED
    BY <1>0, <2>2, <2>3, <2>4, BooksayIs DEF Balanced, Booksay
<1>10. CASE FeeUnit(i)
  <2>1. h[i].pc = "feeUnit" /\ h'[i].pc = "idle"
    BY <1>10, FinishFields DEF FeeUnit
  <2>2. outstanding' = outstanding + Fee /\ UNCHANGED <<bill, cash>>
    BY <1>10 DEF FeeUnit
  <2>3. /\ ShortOf(h[i]) = Fee /\ ShortOf(h'[i]) = 0
        /\ OverOf(h[i]) = 0 /\ OverOf(h'[i]) = 0
    BY <2>1 DEF ShortOf, OverOf
  <2>4. QED
    BY <1>0, <2>2, <2>3, BooksayIs DEF Balanced, Booksay
<1>11. CASE ~(\/ ReduceUnit(i) \/ PostReceipt(i) \/ RefundEntry(i) \/ RefundReadBill(i)
              \/ RefundWriteBill(i) \/ RefundUnit(i) \/ WaiveWrite(i) \/ WaiveUnit(i)
              \/ FeeWrite(i) \/ FeeUnit(i))
  <2> DEFINE Moved == {"postReceipt", "refundReadBill", "refundWriteBill",
                       "refundUnit", "feeUnit", "waiveUnit"}
  <2>1. h[i].pc \notin Moved
    BY <1>11 DEF Continue, IntentCreate, OfflineCreate, RejectSignature,
       WebhookFailed, SetFailed, WebhookCaptured, WebhookRefunded, ClaimWon,
       ClaimLost, ReadBill, WriteBill, LinkEntry, StampReceipt, RefundGateway,
       RefundStatus, DisputeWrite, SendWrite
  <2>2. h'[i].pc \notin Moved
    <3>1. CASE \/ IntentCreate(i) \/ RejectSignature(i) \/ WebhookFailed(i)
               \/ ClaimLost(i) \/ StampReceipt(i) \/ DisputeWrite(i) \/ SendWrite(i)
      <4>1. Finish(i)
        BY <3>1 DEF IntentCreate, RejectSignature, WebhookFailed, SetFailed,
           ClaimLost, StampReceipt, DisputeWrite, SendWrite
      <4>2. QED
        BY <4>1, FinishFields
    <3>2. CASE \/ OfflineCreate(i) \/ ClaimWon(i) \/ WriteBill(i) \/ LinkEntry(i)
               \/ RefundGateway(i) \/ RefundStatus(i)
      <4>1. \E step \in {"claim", "readBill", "reduceUnit", "stampReceipt",
                         "refundStatus", "refundEntry"} : Goto(i, step)
        BY <3>2 DEF OfflineCreate, ClaimWon, WriteBill, LinkEntry, RefundGateway,
           RefundStatus
      <4>2. QED
        BY <4>1, GotoFields
    <3>3. CASE ReadBill(i)
      BY <3>3, SnapFields DEF ReadBill
    <3>4. CASE WebhookCaptured(i) \/ WebhookRefunded(i)
      <4>1. CASE h' = [h EXCEPT ![i] = Apply(i, h[i].p)]
        BY <4>1 DEF Apply, Idle, TypeOK
      <4>2. CASE h' = [h EXCEPT ![i] = Refund(h[i].p, Remaining(h[i].p))]
        BY <4>2 DEF Refund, Idle, TypeOK
      <4>3. CASE Finish(i)
        BY <4>3, FinishFields
      <4>4. QED
        BY <3>4, <4>1, <4>2, <4>3 DEF WebhookCaptured, WebhookRefunded
    <3>5. QED
      BY <1>11, <3>1, <3>2, <3>3, <3>4 DEF Continue
  <2>3. UNCHANGED <<outstanding, cash>>
    BY <1>11 DEF Continue, IntentCreate, OfflineCreate, RejectSignature,
       WebhookFailed, SetFailed, WebhookCaptured, WebhookRefunded, ClaimWon,
       ClaimLost, ReadBill, WriteBill, LinkEntry, StampReceipt, RefundGateway,
       RefundStatus, DisputeWrite, SendWrite, store
  <2>4. bill'.lateFee = bill.lateFee /\ bill'.discount = bill.discount
    <3>1. CASE WriteBill(i) \/ DisputeWrite(i) \/ SendWrite(i)
      BY <3>1 DEF WriteBill, SetBill, DisputeWrite, SendWrite, TypeOK, Bill
    <3>2. QED
      BY <1>11, <3>1, ContinueWrites
  <2>5. ShortOf(h'[i]) = ShortOf(h[i]) /\ OverOf(h'[i]) = OverOf(h[i])
    BY <2>1, <2>2 DEF ShortOf, OverOf
  <2>6. QED
    BY <2>3, <2>4, <2>5, StillBalanced
<1>12. QED
  BY <1>1, <1>2, <1>3, <1>4, <1>5, <1>6, <1>7, <1>8, <1>9, <1>10, <1>11

(* Where a request that starts awaits for the first time.                  *)
Firsts == {"order", "offline", "claim", "badSignature", "hookFailed",
           "hookCaptured", "hookRefunded", "refundGateway", "waiveWrite",
           "feeWrite", "disputeWrite", "sendWrite"}

LEMMA RequestFirsts ==
    ASSUME TypeOK, NEW i \in Handlers, Request(i)
    PROVE  h'[i].pc \in Firsts
<1>1. ASSUME NEW p \in Payments, NEW event \in GatewayEvents, WebhookRead(i, p, event)
      PROVE  h'[i].pc \in Firsts
  <2>1. event \in {"captured", "failed", "refunded"}
    BY <1>1, FieldTypes DEF WebhookRead, Provider
  <2>2. HookStep[event] \in Firsts
    BY <2>1 DEF HookStep, Firsts
  <2>3. h'[i].pc = HookStep[event]
    BY <1>1 DEF WebhookRead, Begin, TypeOK, Idle
  <2>4. QED
    BY <2>2, <2>3
<1>2. ASSUME NEW p \in Payments,
             \/ IntentRead(i, p) \/ VerifyRead(i, p) \/ BadVerifyRead(i, p)
             \/ RefundRead(i, p)
      PROVE  h'[i].pc \in Firsts
  <2>1. CASE IntentRead(i, p)
    BY <2>1 DEF IntentRead, Begin, TypeOK, Idle, Firsts
  <2>2. CASE VerifyRead(i, p)
    BY <2>2 DEF VerifyRead, Apply, Begin, TypeOK, Idle, Firsts
  <2>3. CASE BadVerifyRead(i, p)
    BY <2>3 DEF BadVerifyRead, Begin, TypeOK, Idle, Firsts
  <2>4. CASE RefundRead(i, p)
    BY <2>4 DEF RefundRead, Refund, Begin, TypeOK, Idle, Firsts
  <2>5. QED
    BY <1>2, <2>1, <2>2, <2>3, <2>4
<1>3. ASSUME NEW p \in Payments, NEW a, OfflineRead(i, p, a) \/ PartialRefundRead(i, p, a)
      PROVE  h'[i].pc \in Firsts
  BY <1>3 DEF OfflineRead, PartialRefundRead, Refund, Begin, TypeOK, Idle, Firsts
<1>4. ASSUME (\E w \in 1..bill.due : WaiveRead(i, w)) \/ FeeRead(i) \/ DisputeRead(i)
             \/ SendRead(i)
      PROVE  h'[i].pc \in Firsts
  BY <1>4 DEF WaiveRead, FeeRead, DisputeRead, SendRead, Begin, TypeOK, Idle, Firsts
<1>5. QED
  BY <1>1, <1>2, <1>3, <1>4 DEF Request

(* It has moved no money.                                                  *)
LEMMA RequestBalanced ==
    ASSUME TypeOK, TypeOK', NEW i \in Handlers, Request(i)
    PROVE  Balanced(i) /\ UNCHANGED aborts
<1>1. UNCHANGED <<bill, outstanding, cash, aborts>>
  BY DEF Request, IntentRead, VerifyRead, BadVerifyRead, RefundRead,
     OfflineRead, PartialRefundRead, WebhookRead, WaiveRead, FeeRead,
     DisputeRead, SendRead, store
<1>2. h'[i].pc \in Firsts
  BY RequestFirsts
<1>3. h[i].pc = "idle"
  BY RequestMoves
<1>4. ShortOf(h'[i]) = ShortOf(h[i]) /\ OverOf(h'[i]) = OverOf(h[i])
  BY <1>2, <1>3 DEF ShortOf, OverOf, Firsts
<1>5. QED
  BY <1>1, <1>4, StillBalanced

(* Agreed is inductive: no step moves money on one side only.              *)
LEMMA AgreedNext == TypeOK /\ Agreed /\ [Next]_vars => Agreed'
<1> SUFFICES ASSUME TypeOK, Agreed, [Next]_vars PROVE Agreed'
  OBVIOUS
<1>1. TypeOK'
  BY TypeNext
<1>2. /\ outstanding \in Int /\ Booksay \in Int
      /\ outstanding' \in Int /\ Booksay' \in Int
  <2>1. ASSUME TypeOK PROVE outstanding \in Int /\ Booksay \in Int
    BY <2>1, BooksayIs
  <2>2. (outstanding \in Int /\ Booksay \in Int)'
    BY <1>1, <2>1, BooksayIs, PTL
  <2>3. QED
    BY <2>1, <2>2
<1>3. ASSUME NEW i \in Handlers, Balanced(i), UNCHANGED aborts,
             \A j \in Handlers \ {i} : h'[j] = h[j]
      PROVE  Agreed'
  BY <1>1, <1>2, <1>3, ShortMoves DEF Balanced, Agreed
<1>4. ASSUME NEW i \in Handlers, Continue(i) PROVE Agreed'
  <2>1. UNCHANGED aborts
    BY <1>4 DEF Continue, IntentCreate, OfflineCreate, RejectSignature,
       WebhookFailed, SetFailed, WebhookCaptured, WebhookRefunded, ClaimWon,
       ClaimLost, ReadBill, WriteBill, ReduceUnit, PostReceipt, LinkEntry,
       StampReceipt, RefundGateway, RefundStatus, RefundEntry, RefundReadBill,
       RefundWriteBill, RefundUnit, WaiveWrite, WaiveUnit, FeeWrite, FeeUnit,
       DisputeWrite, SendWrite
  <2>2. QED
    BY <1>1, <1>3, <1>4, <2>1, ContinueBalanced, ContinueMoves
<1>5. ASSUME NEW i \in Handlers, Request(i) PROVE Agreed'
  BY <1>1, <1>3, <1>5, RequestBalanced, RequestMoves
<1>6. ASSUME NEW i \in Handlers, Abort(i) PROVE Agreed'
  BY <1>6 DEF Abort, TypeOK, Agreed
<1>7. CASE ProviderStep \/ UNCHANGED vars
  <2>1. UNCHANGED <<h, bill, outstanding, cash, aborts>>
    BY <1>7 DEF vars, store, ProviderStep, GatewayCapture, GatewayDecline,
       GatewayRefund, GatewayStep
  <2>2. Missing' = Missing /\ Excess' = Excess /\ Booksay' = Booksay
    BY <2>1 DEF Missing, Excess, Short, Over, Booksay
  <2>3. QED
    BY <2>1, <2>2 DEF Agreed
<1>8. QED
  BY <1>4, <1>5, <1>6, <1>7 DEF Next

(* Nothing in flight means nothing missing and nothing in excess.          *)
LEMMA QuietAgrees ==
    ASSUME \A i \in Handlers : h[i].pc = "idle"
    PROVE  Missing = 0 /\ Excess = 0
<1>1. \A i \in Handlers : Short[i] = 0 /\ Over[i] = 0
  BY DEF Short, Over, ShortOf, OverOf
<1>2. QED
  BY <1>1, NoCoins DEF Missing, Excess

(* Whenever nothing is in flight and no request died, what the unit owes   *)
(* is the bill with its fees, less its waivers, less the cash received net *)
(* of refunds: payments, refunds, waivers and late fees may have raced in  *)
(* any order (paymentsService.ts, billingService.ts).                      *)
THEOREM UnitAgreesCorrect == Spec => []UnitAgreesWithBooks
<1>1. TypeOK /\ Agreed => UnitAgreesWithBooks
  <2> SUFFICES ASSUME TypeOK, Agreed, Quiet, aborts = 0
               PROVE  outstanding = BillTotal + bill.lateFee - bill.discount - cash
    BY DEF UnitAgreesWithBooks
  <2>1. Missing = 0 /\ Excess = 0
    BY QuietAgrees DEF Quiet
  <2>2. QED
    BY <2>1, BooksayIs DEF Agreed, Booksay
<1>2. Init => Agreed
  <2> SUFFICES ASSUME Init PROVE Agreed
    OBVIOUS
  <2>1. Missing = 0 /\ Excess = 0
    BY QuietAgrees DEF Init, Idle
  <2>2. outstanding = BillTotal /\ Booksay = BillTotal
    BY PaymentsAssumption DEF Init, NewBill, Booksay
  <2>3. QED
    BY <2>1, <2>2, PaymentsAssumption DEF Agreed
<1>3. QED
  BY <1>1, <1>2, AgreedNext, TypeCorrect, PTL DEF Spec

-----------------------------------------------------------------------------
(* The documents of the payments in flight.                                *)

Known(p) == payments[p].status # "NONE"

(* A request works on a document that exists, unless it is about to create *)
(* it; an offline collection is alone with its new document; and what is   *)
(* claimed is the amount of the document.                                  *)
Held(i) ==
    /\ h[i].p \in Payments /\ h[i].pc \notin {"order", "offline"} => Known(h[i].p)
    /\ h[i].pc = "offline" => /\ h[i].p \in Offline
                              /\ ~Known(h[i].p)
                              /\ \A j \in Handlers \ {i} : h[j].p # h[i].p
    /\ h[i].pc \in Booking \cup {"claim"} => h[i].amt = payments[h[i].p].amount

Documents ==
    /\ \A p \in Payments : /\ gateway[p].events # {} => Known(p) /\ p \notin Offline
                           /\ claims[p] > 0 => Known(p)
    /\ \A i \in Handlers : Held(i)

(* A step of request i never removes a document nor changes its amount,    *)
(* and changes the status of no payment but its own.                       *)
Preserved(i) ==
    \A q \in Payments : /\ Known(q) => /\ Known(q)'
                                       /\ payments'[q].amount = payments[q].amount
                        /\ q # h[i].p => payments'[q].status = payments[q].status

LEMMA PreservedStep ==
    ASSUME TypeOK, Documents, NEW i \in Handlers, Continue(i) \/ Abort(i)
    PROVE  Preserved(i)
<1>1. CASE UNCHANGED payments
  BY <1>1 DEF Preserved, Known
<1>2. CASE IntentCreate(i) \/ OfflineCreate(i)
  <2>1. h[i].p \in Payments
    BY <1>2, FieldTypes DEF IntentCreate, OfflineCreate, HandlersTyped, NoPaymentSteps
  <2>2. UNCHANGED payments \/ (Insert(i) /\ ~Known(h[i].p))
    BY <1>2 DEF IntentCreate, OfflineCreate, Documents, Held, Known
  <2>3. CASE Insert(i) /\ ~Known(h[i].p)
    <3>1. \A q \in Payments :
            /\ payments'[q].status = IF q = h[i].p THEN "INITIATED" ELSE payments[q].status
            /\ q # h[i].p => payments'[q].amount = payments[q].amount
      BY <2>1, <2>3, InsertFields
    <3>2. QED
      BY <2>3, <3>1 DEF Preserved, Known
  <2>4. QED
    BY <1>1, <2>2, <2>3
<1>3. CASE RejectSignature(i) \/ WebhookFailed(i) \/ ClaimWon(i)
  <2>1. h[i].p \in Payments
    BY <1>3, FieldTypes DEF RejectSignature, WebhookFailed, SetFailed, ClaimWon,
       HandlersTyped, NoPaymentSteps
  <2>2. \E status \in {"FAILED", "SUCCESS"} : SetStatus(h[i].p, status)
    BY <1>3 DEF RejectSignature, WebhookFailed, SetFailed, ClaimWon
  <2>3. QED
    BY <2>1, <2>2, StatusFields DEF Preserved, Known
<1>4. CASE LinkEntry(i) \/ StampReceipt(i)
  <2>1. h[i].p \in Payments
    BY <1>4, FieldTypes DEF LinkEntry, StampReceipt, HandlersTyped, NoPaymentSteps
  <2>2. \E flag : \/ payments' = [payments EXCEPT ![h[i].p].entry = flag]
                  \/ payments' = [payments EXCEPT ![h[i].p].receipt = flag]
    <3>1. CASE LinkEntry(i)
      BY <3>1 DEF LinkEntry
    <3>2. CASE StampReceipt(i)
      <4>1. PICK flag : flag = (payments[h[i].p].receipt \/ payments[h[i].p].status \in
                                  {"SUCCESS", "REFUNDED", "PARTIALLY_REFUNDED"})
        OBVIOUS
      <4>2. payments' = [payments EXCEPT ![h[i].p].receipt = flag]
        BY <2>1, <3>2, <4>1 DEF StampReceipt, TypeOK, Payment
      <4>3. QED
        BY <4>2
    <3>3. QED
      BY <1>4, <3>1, <3>2
  <2>3. QED
    BY <2>1, <2>2, BookFields DEF Preserved, Known
<1>5. CASE RefundStatus(i)
  <2>1. h[i].p \in Payments
    BY <1>5, FieldTypes DEF RefundStatus, HandlersTyped, NoPaymentSteps
  <2>2. PICK status \in PaymentStatus \ {"NONE"} :
           status = IF h[i].prior + h[i].amt >= payments[h[i].p].amount
                    THEN "REFUNDED" ELSE "PARTIALLY_REFUNDED"
    BY DEF PaymentStatus
  <2>3. PICK total : total = h[i].prior + h[i].amt
    OBVIOUS
  <2>4. payments' = [payments EXCEPT ![h[i].p].refunded = total, ![h[i].p].status = status]
    BY <1>5, <2>2, <2>3 DEF RefundStatus
  <2>5. \A q \in Payments :
           /\ payments'[q].status = IF q = h[i].p THEN status ELSE payments[q].status
           /\ payments'[q].amount = payments[q].amount
    BY <2>1, <2>4, RefundFields
  <2>6. QED
    BY <2>2, <2>5 DEF Preserved, Known
<1>6. QED
  BY <1>1, <1>2, <1>3, <1>4, <1>5, ContinueWrites

(* A request in flight keeps its payment until it ends.                    *)
LEMMA SamePayment ==
    ASSUME TypeOK, NEW i \in Handlers, Continue(i) \/ Abort(i)
    PROVE  h'[i].p \in {h[i].p, "none"}
<1>1. CASE Finish(i)
  BY <1>1, FinishFields
<1>2. CASE \E step : Goto(i, step)
  BY <1>2, GotoFields
<1>3. CASE \E step : GotoWithBill(i, step)
  BY <1>3, SnapFields
<1>4. CASE h' = [h EXCEPT ![i] = Apply(i, h[i].p)]
  BY <1>4 DEF Apply, Idle, TypeOK
<1>5. CASE h' = [h EXCEPT ![i] = Refund(h[i].p, Remaining(h[i].p))]
  BY <1>5 DEF Refund, Idle, TypeOK
<1>6. QED
  BY <1>1, <1>2, <1>3, <1>4, <1>5 DEF Continue, Abort, IntentCreate, OfflineCreate,
     RejectSignature, WebhookFailed, SetFailed, WebhookCaptured, WebhookRefunded,
     ClaimWon, ClaimLost, ReadBill, WriteBill, ReduceUnit, PostReceipt, LinkEntry,
     StampReceipt, RefundGateway, RefundStatus, RefundEntry, RefundReadBill,
     RefundWriteBill, RefundUnit, WaiveWrite, WaiveUnit, FeeWrite, FeeUnit,
     DisputeWrite, SendWrite

(* What a request in flight holds next.                                    *)
LEMMA HeldContinue ==
    ASSUME TypeOK, Documents, NEW i \in Handlers, Continue(i) \/ Abort(i)
    PROVE  Held(i)'
<1>1. Preserved(i) /\ Held(i)
  BY PreservedStep DEF Documents
<1>2. "none" \notin Payments
  BY PaymentsAssumption
<1>3. h[i].pc \notin NoPaymentSteps => h[i].p \in Payments
  BY HeldPayments
<1>4. CASE OfflineCreate(i)
  <2>1. /\ h'[i].pc = "claim" /\ h'[i].p = h[i].p /\ h'[i].amt = h[i].amt
        /\ h[i].pc = "offline" /\ Insert(i)
    BY <1>4, GotoFields DEF OfflineCreate
  <2>2. h[i].p \in Payments
    BY <1>3, <2>1 DEF NoPaymentSteps
  <2>3. payments'[h[i].p] = [NoPayment EXCEPT !.status = "INITIATED", !.amount = h[i].amt]
    BY <2>1, <2>2 DEF Insert, TypeOK
  <2>4. /\ payments'[h[i].p].status = "INITIATED"
        /\ payments'[h[i].p].amount = h[i].amt
    BY <2>3 DEF NoPayment
  <2>5. QED
    BY <2>1, <2>4 DEF Held, Known
<1>5. CASE Finish(i)
  BY <1>2, <1>5, FinishFields DEF Held, Booking
<1>6. CASE ~OfflineCreate(i) /\ ~Finish(i)
  <2>1. h[i].pc \notin {"order", "offline", "idle"}
    BY <1>6 DEF Continue, Abort, IntentCreate, RejectSignature, WebhookFailed,
       SetFailed, WebhookCaptured, WebhookRefunded, ClaimWon, ClaimLost, ReadBill,
       WriteBill, ReduceUnit, PostReceipt, LinkEntry, StampReceipt, RefundGateway,
       RefundStatus, RefundEntry, RefundReadBill, RefundWriteBill, RefundUnit,
       WaiveWrite, WaiveUnit, FeeWrite, FeeUnit, DisputeWrite, SendWrite
  <2>2. h'[i].p \in Payments => payments'[h'[i].p].status # "NONE"
    <3>1. h'[i].p \in {h[i].p, "none"}
      BY SamePayment
    <3>2. h[i].p \in Payments => Known(h[i].p)
      BY <1>1, <2>1 DEF Held
    <3>3. \A q \in Payments : Known(q) => Known(q)'
      BY <1>1 DEF Preserved
    <3>4. ASSUME h'[i].p \in Payments PROVE payments'[h'[i].p].status # "NONE"
      <4>1. h'[i].p = h[i].p
        BY <1>2, <3>1, <3>4
      <4>2. Known(h[i].p) /\ h[i].p \in Payments
        BY <3>2, <3>4, <4>1
      <4>3. payments'[h[i].p].status # "NONE"
        BY <3>3, <4>2 DEF Known
      <4>4. QED
        BY <4>1, <4>3
    <3>5. QED
      BY <3>4
  <2>3. h'[i].pc # "offline"
    BY ContinueMoves DEF Targets, Plain
  <2>4. ASSUME h'[i].pc \in Booking \cup {"claim"}
        PROVE  h'[i].amt = payments'[h'[i].p].amount
    <3>1. CASE ClaimWon(i) \/ WriteBill(i) \/ ReduceUnit(i)
      <4>1. /\ h[i].pc \in Booking \cup {"claim"}
            /\ h'[i].p = h[i].p /\ h'[i].amt = h[i].amt
        BY <3>1, GotoFields DEF ClaimWon, WriteBill, ReduceUnit, Booking
      <4>2. h[i].p \in Payments /\ Known(h[i].p) /\ h[i].amt = payments[h[i].p].amount
        BY <1>1, <1>3, <2>1, <4>1 DEF Held, Booking, NoPaymentSteps
      <4>3. QED
        BY <1>1, <4>1, <4>2 DEF Preserved
    <3>2. CASE ReadBill(i)
      <4>1. /\ h[i].pc = "readBill" /\ h'[i].p = h[i].p /\ h'[i].amt = h[i].amt
        BY <3>2 DEF ReadBill, GotoWithBill, TypeOK, Local
      <4>2. h[i].p \in Payments /\ Known(h[i].p) /\ h[i].amt = payments[h[i].p].amount
        BY <1>1, <1>3, <2>1, <4>1 DEF Held, Booking, NoPaymentSteps
      <4>3. QED
        BY <1>1, <4>1, <4>2 DEF Preserved
    <3>3. CASE WebhookCaptured(i)
      <4>1. h' = [h EXCEPT ![i] = Apply(i, h[i].p)] /\ UNCHANGED payments
        BY <1>6, <3>3 DEF WebhookCaptured, store
      <4>2. h'[i].p = h[i].p /\ h'[i].amt = payments[h[i].p].amount
        BY <4>1 DEF Apply, Idle, TypeOK
      <4>3. QED
        BY <4>1, <4>2
    <3>4. CASE WebhookRefunded(i)
      <4>1. h' = [h EXCEPT ![i] = Refund(h[i].p, Remaining(h[i].p))]
        BY <1>6, <3>4 DEF WebhookRefunded
      <4>2. h'[i].pc = "refundGateway"
        BY <4>1 DEF Refund, Idle, TypeOK
      <4>3. QED
        BY <2>4, <4>2 DEF Booking
    <3>5. CASE RefundGateway(i)
      BY <2>4, <3>5, GotoFields DEF RefundGateway, Booking
    <3>6. QED
      BY <1>6, <2>4, <3>1, <3>2, <3>3, <3>4, <3>5, ContinueMoves DEF Plain, Booking
  <2>5. QED
    BY <2>2, <2>3, <2>4 DEF Held, Known
<1>7. QED
  BY <1>4, <1>5, <1>6

(* What a request that starts holds: a document that exists, or one that   *)
(* no other request holds.                                                 *)
LEMMA HeldRequest ==
    ASSUME TypeOK, Documents, NEW i \in Handlers, Request(i)
    PROVE  /\ Held(i)'
           /\ \A j \in Handlers \ {i} : h[j].pc = "offline" => h'[i].p # h[j].p
<1> DEFINE Goal == /\ Held(i)'
                   /\ \A j \in Handlers \ {i} : h[j].pc = "offline" => h'[i].p # h[j].p
<1>1. /\ \A j \in Handlers \ {i} : h'[j] = h[j]
      /\ UNCHANGED payments
  BY RequestMoves
<1>2. \A j \in Handlers \ {i} : h[j].pc = "offline" =>
          h[j].p \in Payments /\ h[j].p \in Offline /\ ~Known(h[j].p)
  BY HeldPayments DEF Documents, Held, NoPaymentSteps
<1>3. "none" \notin Payments
  BY PaymentsAssumption
<1>4. ASSUME h'[i].p = "none", h'[i].pc \notin Booking \cup {"claim", "offline"} PROVE Goal
  BY <1>1, <1>2, <1>3, <1>4 DEF Held
<1>5. ASSUME h'[i].p \in Payments, Known(h'[i].p) \/ h'[i].pc = "order",
             ~Known(h'[i].p) => h'[i].p \notin Offline,
             h'[i].pc \notin Booking \cup {"offline"},
             h'[i].pc = "claim" => h'[i].amt = payments[h'[i].p].amount
      PROVE  Goal
  BY <1>1, <1>2, <1>5 DEF Held, Known
<1>6. ASSUME NEW p \in Payments, IntentRead(i, p) PROVE Goal
  <2>1. h'[i].pc = "order" /\ h'[i].p = p /\ p \notin Offline
    BY <1>6 DEF IntentRead, Begin, TypeOK, Idle
  <2>2. QED
    BY <1>5, <2>1 DEF Booking
<1>7. ASSUME NEW p \in Payments, VerifyRead(i, p) PROVE Goal
  <2>1. /\ h'[i].pc = "claim" /\ h'[i].p = p /\ h'[i].amt = payments[p].amount
        /\ Known(p)
    BY <1>7 DEF VerifyRead, Apply, Begin, TypeOK, Idle, Known
  <2>2. QED
    BY <1>5, <2>1 DEF Booking
<1>8. ASSUME NEW p \in Payments, BadVerifyRead(i, p) PROVE Goal
  <2>1. h'[i].pc = "badSignature" /\ h'[i].p = p /\ Known(p)
    BY <1>8 DEF BadVerifyRead, Begin, TypeOK, Idle, Known
  <2>2. QED
    BY <1>5, <2>1 DEF Booking
<1>9. ASSUME NEW p \in Payments, NEW a, PartialRefundRead(i, p, a) \/ RefundRead(i, p) PROVE Goal
  <2>1. h'[i].pc = "refundGateway" /\ h'[i].p = p /\ Known(p)
    <3>1. CASE PartialRefundRead(i, p, a)
      BY <3>1 DEF PartialRefundRead, Refundable, Refund, Begin, TypeOK, Idle, Known
    <3>2. CASE RefundRead(i, p)
      BY <3>2 DEF RefundRead, Refundable, Refund, Begin, TypeOK, Idle, Known
    <3>3. QED
      BY <1>9, <3>1, <3>2
  <2>2. QED
    BY <1>5, <2>1 DEF Booking
<1>10. ASSUME NEW p \in Payments, NEW event \in GatewayEvents, WebhookRead(i, p, event) PROVE Goal
  <2>1. h'[i].pc = HookStep[event] /\ h'[i].p = p
    BY <1>10 DEF WebhookRead, Begin, TypeOK, Idle
  <2>2. event \in {"captured", "failed", "refunded"} /\ gateway[p].events # {}
    BY <1>10, FieldTypes DEF WebhookRead, Provider
  <2>3. HookStep[event] \in {"hookCaptured", "hookFailed", "hookRefunded"}
    BY <2>2 DEF HookStep
  <2>4. Known(p)
    BY <2>2 DEF Documents
  <2>5. QED
    BY <1>5, <2>1, <2>3, <2>4 DEF Booking
<1>11. ASSUME NEW p \in Payments, NEW a, OfflineRead(i, p, a) PROVE Goal
  <2>1. h'[i].pc = "offline" /\ h'[i].p = p
    BY <1>11 DEF OfflineRead, Begin, TypeOK, Idle
  <2>2. p \in Offline /\ ~Known(p) /\ \A j \in Handlers : h[j].p # p
    BY <1>11 DEF OfflineRead, Known
  <2>3. Held(i)'
    BY <1>1, <2>1, <2>2 DEF Held, Known, Booking
  <2>4. QED
    BY <2>1, <2>2, <2>3
<1>12. ASSUME NEW w, WaiveRead(i, w) PROVE Goal
  <2>1. h'[i].pc = "waiveWrite" /\ h'[i].p = "none"
    BY <1>12 DEF WaiveRead, Begin, TypeOK, Idle
  <2>2. QED
    BY <1>4, <2>1 DEF Booking
<1>13. ASSUME FeeRead(i) \/ DisputeRead(i) \/ SendRead(i) PROVE Goal
  <2>1. h'[i].pc \in {"feeWrite", "disputeWrite", "sendWrite"} /\ h'[i].p = "none"
    BY <1>13 DEF FeeRead, DisputeRead, SendRead, Begin, TypeOK, Idle
  <2>2. QED
    BY <1>4, <2>1 DEF Booking
<1>14. QED
  BY <1>6, <1>7, <1>8, <1>9, <1>10, <1>11, <1>12, <1>13 DEF Request

(* Documents is inductive.                                                 *)
LEMMA DocumentsNext == TypeOK /\ Documents /\ [Next]_vars => Documents'
<1> SUFFICES ASSUME TypeOK, Documents, [Next]_vars PROVE Documents'
  OBVIOUS
<1>1. ASSUME NEW i \in Handlers, Held(i)', Preserved(i),
             \A j \in Handlers \ {i} : h'[j] = h[j],
             \A j \in Handlers \ {i} : h[j].pc = "offline" => h'[i].p # h[j].p
      PROVE  \A j \in Handlers : Held(j)'
  <2>1. ASSUME NEW j \in Handlers \ {i} PROVE Held(j)'
    <3>1. Held(j) /\ h'[j] = h[j] /\ (h[j].pc \notin NoPaymentSteps => h[j].p \in Payments)
      BY <1>1, HeldPayments DEF Documents
    <3>2. h[j].p \in Payments /\ h[j].pc \notin {"order", "offline"} =>
             payments'[h[j].p].status # "NONE"
      BY <1>1, <3>1 DEF Held, Preserved, Known
    <3>3. h[j].pc = "offline" =>
             /\ payments'[h[j].p].status = "NONE"
             /\ \A k \in Handlers \ {j} : h'[k].p # h[j].p
      <4>1. ASSUME h[j].pc = "offline" PROVE payments'[h[j].p].status = "NONE"
        <5>1. h[j].p # h[i].p /\ h[j].p \in Payments /\ payments[h[j].p].status = "NONE"
          BY <3>1, <4>1 DEF Held, NoPaymentSteps, Known
        <5>2. QED
          BY <1>1, <5>1 DEF Preserved
      <4>2. ASSUME h[j].pc = "offline", NEW k \in Handlers \ {j} PROVE h'[k].p # h[j].p
        BY <1>1, <3>1, <4>2 DEF Held
      <4>3. QED
        BY <4>1, <4>2
    <3>4. h[j].pc \in Booking \cup {"claim"} => h[j].amt = payments'[h[j].p].amount
      BY <1>1, <3>1 DEF Held, Preserved, Booking, NoPaymentSteps
    <3>5. QED
      BY <3>1, <3>2, <3>3, <3>4 DEF Held, Known
  <2>2. QED
    BY <1>1, <2>1
<1>2. ASSUME NEW i \in Handlers, Continue(i) \/ Abort(i) PROVE Documents'
  <2>1. Preserved(i) /\ Held(i)' /\ \A j \in Handlers \ {i} : h'[j] = h[j]
    BY <1>2, PreservedStep, HeldContinue, ContinueMoves
  <2>2. \A j \in Handlers \ {i} : h[j].pc = "offline" => h'[i].p # h[j].p
    <3>1. \A j \in Handlers \ {i} : h[j].pc = "offline" => h[j].p # h[i].p /\ h[j].p # "none"
      BY HeldPayments, PaymentsAssumption DEF Documents, Held, NoPaymentSteps
    <3>2. QED
      BY <1>2, <3>1, SamePayment
  <2>3. \A q \in Payments : gateway'[q].events = gateway[q].events
    <3>1. CASE UNCHANGED gateway
      BY <3>1
    <3>2. CASE RefundGateway(i)
      BY <3>2 DEF RefundGateway, TypeOK, Provider
    <3>3. QED
      BY <1>2, <3>1, <3>2, ContinueWrites
  <2>4. \A q \in Payments : claims'[q] > 0 => Known(q)'
    <3>1. CASE UNCHANGED claims
      BY <2>1, <3>1 DEF Documents, Preserved
    <3>2. CASE ClaimWon(i)
      <4>1. h[i].p \in Payments
        BY <3>2, FieldTypes DEF ClaimWon, HandlersTyped, NoPaymentSteps
      <4>2. \A q \in Payments : q # h[i].p => claims'[q] = claims[q]
        BY <3>2 DEF ClaimWon, TypeOK
      <4>3. payments'[h[i].p].status = "SUCCESS"
        BY <3>2, <4>1, StatusFields DEF ClaimWon
      <4>4. QED
        BY <2>1, <4>2, <4>3 DEF Documents, Preserved, Known
    <3>3. QED
      BY <1>2, <3>1, <3>2, ContinueWrites
  <2>5. \A q \in Payments : gateway'[q].events # {} => Known(q)' /\ q \notin Offline
    BY <2>1, <2>3 DEF Documents, Preserved
  <2>6. \A j \in Handlers : Held(j)'
    BY <1>1, <2>1, <2>2
  <2>7. QED
    BY <2>4, <2>5, <2>6 DEF Documents
<1>3. ASSUME NEW i \in Handlers, Request(i) PROVE Documents'
  <2>1. /\ UNCHANGED <<payments, gateway, claims>>
        /\ \A j \in Handlers \ {i} : h'[j] = h[j]
    BY <1>3, RequestMoves
  <2>2. /\ Held(i)'
        /\ \A j \in Handlers \ {i} : h[j].pc = "offline" => h'[i].p # h[j].p
    BY <1>3, HeldRequest
  <2>3. Preserved(i)
    BY <2>1 DEF Preserved, Known
  <2>4. \A j \in Handlers : Held(j)'
    BY <1>1, <2>1, <2>2, <2>3
  <2>5. QED
    BY <2>1, <2>4 DEF Documents, Known
<1>4. CASE ProviderStep
  <2>1. UNCHANGED <<payments, h, claims>>
    BY <1>4, ProviderMoves
  <2>2. PICK p \in Payments : \E event, provider :
           /\ provider.events = gateway[p].events
           /\ GatewayStep(p, event, provider)
    <3>1. PICK p \in Payments : GatewayCapture(p) \/ GatewayDecline(p) \/ GatewayRefund(p)
      BY <1>4 DEF ProviderStep
    <3>2. gateway[p] \in Provider
      BY FieldTypes
    <3>3. /\ [gateway[p] EXCEPT !.captured = TRUE].events = gateway[p].events
          /\ [gateway[p] EXCEPT !.refunded = payments[p].amount].events = gateway[p].events
      BY <3>2 DEF Provider
    <3>4. QED
      BY <3>1, <3>3 DEF GatewayCapture, GatewayDecline, GatewayRefund
  <2>3. Known(p) /\ p \notin Offline
    BY <2>2 DEF GatewayStep, Known
  <2>4. \A q \in Payments : q # p => gateway'[q].events = gateway[q].events
    BY <2>2 DEF GatewayStep, TypeOK
  <2>5. QED
    BY <2>1, <2>3, <2>4 DEF Documents, Held, Known
<1>5. CASE UNCHANGED vars
  BY <1>5 DEF vars, Documents, Held, Known
<1>6. QED
  BY <1>2, <1>3, <1>4, <1>5 DEF Next

-----------------------------------------------------------------------------
(* What the bill shows as paid.                                            *)

(* The money claimed for a payment, and all of it.                         *)
Worth == [p \in Payments |-> claims[p] * payments[p].amount]
Units == Cardinality(Claimed)

(* Money claimed by request l and not yet added to a bill it read.         *)
ComingOf(l) == IF l.pc = "readBill" THEN l.amt ELSE 0
Coming == [i \in Handlers |-> ComingOf(h[i])]
Unread == Cardinality(Coins(Handlers, Coming))

(* The claims cover n and the money still to be added to it; so they cover *)
(* what the bill shows and what each request is about to make it show.     *)
Backs(n) == n + Unread <= Units
Backed ==
    /\ Backs(bill.paid)
    /\ \A i \in Handlers :
          /\ h[i].pc = "writeBill" => Backs(h[i].snap.paid + h[i].amt)
          /\ h[i].pc = "refundWriteBill" => Backs(h[i].snap.paid)

Worthy ==
    /\ Worth \in [Payments -> Nat]
    /\ Units = Cardinality(Coins(Payments, Worth))
    /\ Units \in Nat

LEMMA WorthTypes == TypeOK => Worthy
<1> SUFFICES ASSUME TypeOK PROVE Worthy
  OBVIOUS
<1>1. \A p \in Payments : claims[p] \in Nat /\ payments[p].amount \in Nat
  BY FieldTypes DEF TypeOK
<1>2. \A p \in Payments : claims[p] * payments[p].amount \in Nat
  BY <1>1
<1>3. Worth \in [Payments -> Nat]
  BY <1>2 DEF Worth
<1>4. Claimed = Coins(Payments, Worth)
  BY DEF Claimed, Coins, Worth
<1>5. QED
  BY <1>3, <1>4, CoinsFinite, PaymentsAssumption DEF Units, Worthy

(* When one request moves, the money to be read changes by its own.        *)
LEMMA ComingMoves ==
    ASSUME TypeOK, TypeOK', NEW i \in Handlers, \A j \in Handlers \ {i} : h'[j] = h[j]
    PROVE  /\ Unread \in Nat /\ Unread' \in Nat
           /\ ComingOf(h[i]) \in Nat /\ ComingOf(h'[i]) \in Nat
           /\ Unread' = Unread - ComingOf(h[i]) + ComingOf(h'[i])
<1>1. \A j \in Handlers : h[j] \in Local /\ h'[j] \in Local
  BY DEF TypeOK
<1>2. \A l \in Local : ComingOf(l) \in Nat
  BY DEF ComingOf, Local
<1>3. Coming \in [Handlers -> Nat] /\ Coming' \in [Handlers -> Nat]
  BY <1>1, <1>2 DEF Coming
<1>4. \A j \in Handlers \ {i} : Coming'[j] = Coming[j]
  BY DEF Coming
<1>5. Coming[i] = ComingOf(h[i]) /\ Coming'[i] = ComingOf(h'[i])
  BY DEF Coming
<1>6. Unread' = Cardinality(Coins(Handlers, Coming'))
  BY DEF Unread
<1>7. QED
  BY <1>1, <1>2, <1>3, <1>4, <1>5, <1>6, CoinsMove, PaymentsAssumption DEF Unread

(* The money claimed stays what it is until the next claim.                *)
LEMMA UnitsStay ==
    ASSUME TypeOK, TypeOK', Documents, NEW i \in Handlers, Preserved(i), UNCHANGED claims
    PROVE  Units' = Units
<1>1. ASSUME NEW p \in Payments PROVE Worth'[p] = Worth[p]
  <2>1. /\ claims[p] \in Nat /\ payments[p].amount \in Nat /\ payments'[p].amount \in Nat
    BY FieldTypes DEF TypeOK, Payment
  <2>2. CASE claims[p] = 0
    <3>1. Worth[p] = 0 * payments[p].amount /\ Worth'[p] = 0 * payments'[p].amount
      BY <2>2 DEF Worth
    <3>2. QED
      BY <2>1, <3>1
  <2>3. CASE claims[p] > 0
    <3>1. payments'[p].amount = payments[p].amount
      BY <2>3 DEF Documents, Preserved
    <3>2. QED
      BY <3>1 DEF Worth
  <2>4. QED
    BY <2>1, <2>2, <2>3
<1>2. Worth \in [Payments -> Nat] /\ Units = Cardinality(Coins(Payments, Worth))
  BY WorthTypes DEF Worthy
<1>3. Worthy'
  BY WorthTypes, PTL
<1>4. Worth' = Worth
  BY <1>1, <1>2, <1>3 DEF Worthy
<1>5. QED
  BY <1>2, <1>3, <1>4 DEF Worthy

(* A claim adds the amount of its payment.                                 *)
LEMMA UnitsGrow ==
    ASSUME TypeOK, TypeOK', Documents, NEW i \in Handlers, ClaimWon(i)
    PROVE  Units' = Units + h[i].amt
<1>1. h[i].p \in Payments /\ h[i].pc = "claim"
  BY FieldTypes DEF ClaimWon, HandlersTyped, NoPaymentSteps
<1>2. PICK p \in Payments : p = h[i].p
  BY <1>1
<1>3. h[i].amt = payments[p].amount
  BY <1>1, <1>2 DEF Documents, Held
<1>4. \A q \in Payments : payments'[q].amount = payments[q].amount
  BY <1>1, StatusFields DEF ClaimWon
<1>5. \A q \in Payments : claims'[q] = IF q = p THEN claims[q] + 1 ELSE claims[q]
  BY <1>2 DEF ClaimWon, TypeOK
<1>6. \A q \in Payments \ {p} : Worth'[q] = Worth[q]
  BY <1>4, <1>5 DEF Worth
<1>7. Worth'[p] = Worth[p] + h[i].amt
  <2>1. claims[p] \in Nat /\ payments[p].amount \in Nat
    BY FieldTypes DEF TypeOK
  <2>2. Worth'[p] = (claims[p] + 1) * payments[p].amount
    BY <1>4, <1>5 DEF Worth
  <2>3. Worth[p] = claims[p] * payments[p].amount
    BY DEF Worth
  <2>4. \A c, a \in Nat : (c + 1) * a = c * a + a
    OBVIOUS
  <2>5. QED
    BY <1>3, <2>1, <2>2, <2>3, <2>4
<1>8. Worth \in [Payments -> Nat] /\ Units = Cardinality(Coins(Payments, Worth)) /\ Units \in Nat
  BY WorthTypes DEF Worthy
<1>9. Worthy'
  BY WorthTypes, PTL
<1>10. Units' = Units - Worth[p] + Worth'[p]
  BY <1>6, <1>8, <1>9, CoinsMove, PaymentsAssumption DEF Worthy
<1>11. Worth[p] \in Nat /\ h[i].amt \in Nat
  BY <1>8, FieldTypes
<1>12. QED
  BY <1>7, <1>8, <1>10, <1>11

(* Backed is inductive: what is read was claimed, and what is written was  *)
(* read.                                                                   *)
LEMMA BackedNext ==
    TypeOK /\ Documents /\ Backed /\ [Next]_vars => Backed'
<1> SUFFICES ASSUME TypeOK, Documents, Backed, [Next]_vars PROVE Backed'
  OBVIOUS
<1>1. TypeOK'
  BY TypeNext
<1>2. /\ Units \in Nat /\ Units' \in Nat
      /\ bill.paid \in Nat /\ bill'.paid \in Nat
      /\ \A i \in Handlers : /\ h[i].amt \in Nat /\ h[i].snap.paid \in Nat
                             /\ h[i].snap \in Bill
  <2>1. Worthy'
    BY <1>1, WorthTypes, PTL
  <2>2. Worthy
    BY WorthTypes
  <2>3. bill \in Bill /\ bill' \in Bill /\ \A i \in Handlers : h[i].snap \in Bill
    BY <1>1, FieldTypes DEF TypeOK
  <2>4. QED
    BY <2>1, <2>2, <2>3, FieldTypes, BillFields DEF Worthy
<1>3. ASSUME NEW i \in Handlers, \A j \in Handlers \ {i} : h'[j] = h[j],
             Units - Unread <= Units' - Unread',
             bill'.paid + Unread' <= Units',
             h'[i].pc = "writeBill" => h'[i].snap.paid + h'[i].amt + Unread' <= Units',
             h'[i].pc = "refundWriteBill" => h'[i].snap.paid + Unread' <= Units'
      PROVE  Backed'
  <2>1. Unread \in Nat /\ Unread' \in Nat
    BY <1>1, <1>3, ComingMoves
  <2>2. ASSUME NEW j \in Handlers \ {i}
        PROVE  /\ h'[j].pc = "writeBill" => h'[j].snap.paid + h'[j].amt + Unread' <= Units'
               /\ h'[j].pc = "refundWriteBill" => h'[j].snap.paid + Unread' <= Units'
    <3>1. h'[j] = h[j] /\ h[j].amt \in Nat /\ h[j].snap.paid \in Nat
      BY <1>2, <1>3
    <3>2. /\ h[j].pc = "writeBill" => h[j].snap.paid + h[j].amt + Unread <= Units
          /\ h[j].pc = "refundWriteBill" => h[j].snap.paid + Unread <= Units
      BY DEF Backed, Backs
    <3>3. QED
      BY <1>2, <1>3, <2>1, <3>1, <3>2
  <2>3. QED
    BY <1>3, <2>2 DEF Backed, Backs
<1>4. bill.paid + Unread <= Units
  BY DEF Backed, Backs
<1>5. ASSUME NEW i \in Handlers, Continue(i) \/ Abort(i) PROVE Backed'
  <2>1. \A j \in Handlers \ {i} : h'[j] = h[j]
    BY <1>5, ContinueMoves
  <2>2. /\ Unread \in Nat /\ Unread' \in Nat
        /\ ComingOf(h[i]) \in Nat /\ ComingOf(h'[i]) \in Nat
        /\ Unread' = Unread - ComingOf(h[i]) + ComingOf(h'[i])
    BY <1>1, <2>1, ComingMoves
  <2>3. UNCHANGED claims => Units' = Units
    BY <1>1, <1>5, PreservedStep, UnitsStay
  <2>4. CASE ClaimWon(i)
    <3>1. /\ h[i].pc = "claim" /\ h'[i].pc = "readBill" /\ h'[i].amt = h[i].amt
          /\ bill' = bill
      BY <2>4, GotoFields DEF ClaimWon
    <3>2. Unread' = Unread + h[i].amt
      BY <1>2, <2>2, <3>1 DEF ComingOf
    <3>3. Units' = Units + h[i].amt
      BY <1>1, <2>4, UnitsGrow
    <3>4. QED
      BY <1>2, <1>3, <1>4, <2>1, <2>2, <3>1, <3>2, <3>3
  <2>5. CASE ReadBill(i)
    <3>1. /\ h[i].pc = "readBill" /\ h'[i].pc = "writeBill" /\ h'[i].amt = h[i].amt
          /\ h'[i].snap = bill /\ bill' = bill /\ UNCHANGED claims
      BY <2>5 DEF ReadBill, GotoWithBill, TypeOK, Local, store
    <3>2. Unread' = Unread - h[i].amt /\ Units' = Units
      BY <1>2, <2>2, <2>3, <3>1 DEF ComingOf
    <3>3. QED
      BY <1>2, <1>3, <1>4, <2>1, <2>2, <3>1, <3>2
  <2>6. CASE WriteBill(i)
    <3>1. /\ h[i].pc = "writeBill" /\ h'[i].pc = "reduceUnit" /\ UNCHANGED claims
      BY <2>6, GotoFields DEF WriteBill
    <3>2. bill'.paid = h[i].snap.paid + h[i].amt
      BY <2>6 DEF WriteBill, SetBill, PaidInto, TypeOK, Bill
    <3>3. Unread' = Unread /\ Units' = Units
      BY <2>2, <2>3, <3>1 DEF ComingOf
    <3>4. h[i].snap.paid + h[i].amt + Unread <= Units
      BY <3>1 DEF Backed, Backs
    <3>5. QED
      BY <1>2, <1>3, <2>1, <2>2, <3>1, <3>2, <3>3, <3>4
  <2>7. CASE RefundReadBill(i)
    <3>1. /\ h[i].pc = "refundReadBill" /\ h'[i].pc = "refundWriteBill"
          /\ h'[i].snap = bill /\ bill' = bill /\ UNCHANGED claims
      BY <2>7 DEF RefundReadBill, GotoWithBill, TypeOK, Local, store
    <3>2. Unread' = Unread /\ Units' = Units
      BY <2>2, <2>3, <3>1 DEF ComingOf
    <3>3. QED
      BY <1>2, <1>3, <1>4, <2>1, <2>2, <3>1, <3>2
  <2>8. CASE RefundWriteBill(i)
    <3>1. /\ h[i].pc = "refundWriteBill" /\ h'[i].pc = "refundUnit" /\ UNCHANGED claims
      BY <2>8, GotoFields DEF RefundWriteBill
    <3>2. bill'.paid = NonNeg(h[i].snap.paid - h[i].amt)
      BY <2>8 DEF RefundWriteBill, SetBill, RefundedFrom, TypeOK, Bill
    <3>3. bill'.paid <= h[i].snap.paid
      BY <1>2, <3>2 DEF NonNeg
    <3>4. Unread' = Unread /\ Units' = Units
      BY <2>2, <2>3, <3>1 DEF ComingOf
    <3>5. h[i].snap.paid + Unread <= Units
      BY <3>1 DEF Backed, Backs
    <3>6. QED
      BY <1>2, <1>3, <2>1, <2>2, <3>1, <3>3, <3>4, <3>5
  <2>9. CASE ~(\/ ClaimWon(i) \/ ReadBill(i) \/ WriteBill(i) \/ RefundReadBill(i)
               \/ RefundWriteBill(i))
    <3>1. h'[i].pc \notin {"readBill", "writeBill", "refundWriteBill"}
      <4>1. CASE Finish(i)
        BY <4>1, FinishFields
      <4>2. CASE \E step \in Steps \ {"readBill", "writeBill", "refundWriteBill"} : Goto(i, step)
        BY <4>2, GotoFields
      <4>3. CASE h' = [h EXCEPT ![i] = Apply(i, h[i].p)]
        BY <4>3 DEF Apply, Idle, TypeOK
      <4>4. CASE h' = [h EXCEPT ![i] = Refund(h[i].p, Remaining(h[i].p))]
        BY <4>4 DEF Refund, Idle, TypeOK
      <4>5. QED
        BY <1>5, <2>9, <4>1, <4>2, <4>3, <4>4 DEF Steps, Continue, Abort, IntentCreate,
           OfflineCreate, RejectSignature, WebhookFailed, SetFailed, WebhookCaptured,
           WebhookRefunded, ClaimLost, ReduceUnit, PostReceipt, LinkEntry,
           StampReceipt, RefundGateway, RefundStatus, RefundEntry, RefundUnit,
           WaiveWrite, WaiveUnit, FeeWrite, FeeUnit, DisputeWrite, SendWrite
    <3>2. bill'.paid = bill.paid
      <4>1. CASE WaiveWrite(i) \/ FeeWrite(i) \/ DisputeWrite(i) \/ SendWrite(i)
        BY <4>1 DEF WaiveWrite, FeeWrite, DisputeWrite, SendWrite, TypeOK, Bill
      <4>2. QED
        BY <1>5, <2>9, <4>1, ContinueWrites
    <3>3. Units' = Units
      BY <1>5, <2>3, <2>9, ContinueWrites
    <3>4. Unread' <= Unread
      BY <2>2, <3>1 DEF ComingOf
    <3>5. QED
      BY <1>2, <1>3, <1>4, <2>1, <2>2, <3>1, <3>2, <3>3, <3>4
  <2>10. QED
    BY <2>4, <2>5, <2>6, <2>7, <2>8, <2>9
<1>6. ASSUME NEW i \in Handlers, Request(i) PROVE Backed'
  <2>1. /\ \A j \in Handlers \ {i} : h'[j] = h[j]
        /\ UNCHANGED <<payments, bill, claims>>
        /\ h[i].pc = "idle"
    BY <1>6, RequestMoves
  <2>2. h'[i].pc \in Firsts
    BY <1>6, RequestFirsts
  <2>3. Unread' = Unread /\ Unread \in Nat
    BY <1>1, <2>1, <2>2, ComingMoves DEF ComingOf, Firsts
  <2>4. Units' = Units
    BY <2>1 DEF Units, Claimed
  <2>5. QED
    BY <1>2, <1>3, <1>4, <2>1, <2>2, <2>3, <2>4 DEF Firsts
<1>7. CASE ProviderStep \/ UNCHANGED vars
  <2>1. UNCHANGED <<h, payments, bill, claims>>
    BY <1>7, ProviderMoves DEF vars
  <2>2. Unread' = Unread /\ Units' = Units
    BY <2>1 DEF Unread, Coming, Units, Claimed
  <2>3. QED
    BY <2>1, <2>2 DEF Backed, Backs
<1>8. QED
  BY <1>5, <1>6, <1>7 DEF Next

(* The bill never shows more paid than was claimed for it, however many    *)
(* payments and refunds read it and write it back in whatever order: every *)
(* lost update loses money, none invents any (paymentsService.ts 417-433,  *)
(* 780-791).                                                               *)
THEOREM PaidIsBackedCorrect == Spec => []PaidIsBacked
<1>1. Init => Documents /\ Backed
  <2> SUFFICES ASSUME Init PROVE Documents /\ Backed
    OBVIOUS
  <2>1. Documents
    BY PaymentsAssumption DEF Init, Documents, Held, Idle, Booking
  <2>2. \A i \in Handlers : Coming[i] = 0
    BY DEF Init, Coming, ComingOf, Idle
  <2>3. Unread = 0
    BY <2>2, NoCoins DEF Unread
  <2>4. Units \in Nat
    BY TypeInit, WorthTypes DEF Worthy
  <2>5. bill.paid = 0 /\ \A i \in Handlers : h[i].pc = "idle"
    BY DEF Init, NewBill, Idle
  <2>6. QED
    BY <2>1, <2>3, <2>4, <2>5 DEF Backed, Backs
<1>2. TypeOK /\ Backed => PaidIsBacked
  <2> SUFFICES ASSUME TypeOK, Backed PROVE PaidIsBacked
    OBVIOUS
  <2>1. bill.paid \in Nat /\ Units \in Nat
    BY WorthTypes, BillFields DEF Worthy, TypeOK
  <2>2. Coming \in [Handlers -> Nat]
    BY FieldTypes DEF Coming, ComingOf
  <2>3. Unread \in Nat
    BY <2>2, CoinsFinite, PaymentsAssumption DEF Unread
  <2>4. QED
    BY <2>1, <2>3 DEF Backed, Backs, PaidIsBacked, Units
<1>3. TypeOK /\ Documents /\ Backed /\ [Next]_vars => (Documents /\ Backed)'
  BY DocumentsNext, BackedNext
<1>4. QED
  BY <1>1, <1>2, <1>3, TypeCorrect, PTL DEF Spec
=============================================================================
