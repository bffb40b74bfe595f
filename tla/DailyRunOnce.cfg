SPECIFICATION DailyFairSpec
CONSTANTS
    Replicas = {r1, r2, r3}
    LastDay = 2
    MaxCalls = 4
    StoresToken = TRUE
    r1 = r1
    r2 = r2
    r3 = r3
INVARIANTS
    DailyTypeOK
    AtMostOncePerDay
    OutcomeIsTrue
PROPERTIES
    ClaimEnds
CHECK_DEADLOCK FALSE
