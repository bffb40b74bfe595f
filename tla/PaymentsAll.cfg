SPECIFICATION Spec
CONSTANTS
    Payments = {p1, p2}
    Offline = {p2}
    Handlers = {r1, r2}
    BillTotal = 2
    Fee = 1
    Ops = {"intent", "offline", "verify", "badVerify", "webhook", "refund", "partialRefund", "waive", "lateFee", "dispute", "send"}
    GatewayEvents = {"captured", "failed", "refunded"}
    MaxRequests = 4
    MaxAborts = 1
    p1 = p1
    p2 = p2
    r1 = r1
    r2 = r2
SYMMETRY Symmetry
INVARIANTS
    TypeOK
    SettledOwesNothing
    CreditNeedsCapture
    EntryPerClaim
    UnitAgreesWithBooks
    PaidIsBacked
CHECK_DEADLOCK FALSE
