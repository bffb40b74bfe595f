SPECIFICATION FairSpec
CONSTANTS
    Payments = {p1, p2}
    Offline = {p2}
    Handlers = {r1, r2}
    BillTotal = 2
    Fee = 1
    Ops = {"intent", "offline", "verify", "webhook", "refund"}
    GatewayEvents = {"captured", "refunded"}
    MaxRequests = 4
    MaxAborts = 1
    p1 = p1
    p2 = p2
    r1 = r1
    r2 = r2
PROPERTIES
    SettlesOnce
    ClaimIsBooked
CHECK_DEADLOCK FALSE
