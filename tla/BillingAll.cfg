SPECIFICATION BillingSpec
CONSTANTS
    Units = {u1, u2}
    Periods = {1, 2}
    Heads = {"fixed", "water"}
    Rates <- MCRates
    LateFee = 1
    Scopes = {{u1, u2}}
    Runs <- MCRuns
    Callers = {r1, r2}
    MaxServed = 2
    MaxDropped = 1
    u1 = u1
    u2 = u2
    r1 = r1
    r2 = r2
SYMMETRY Symmetry
INVARIANTS
    OutstandingIsDue

    
CHECK_DEADLOCK FALSE
