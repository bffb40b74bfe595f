SPECIFICATION FairSpec
CONSTANTS
    Bookings = {b1, b2}
    Passes = {p1, p2}
    Units = {u1}
    Handlers = {h1, h2}
    Policies <- MCPolicies
    Parties = {1}
    Capacity = 1
    PerDayCap = 2
    MaxRequests = 3
    b1 = b1
    b2 = b2
    p1 = p1
    p2 = p2
    u1 = u1
    h1 = h1
    h2 = h2
INVARIANTS
    TypeOK
    
    CheckinsAreCharged
PROPERTIES
    SweepsYield
    HoldReleased
CHECK_DEADLOCK FALSE
