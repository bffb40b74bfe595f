SPECIFICATION Spec
CONSTANTS
    Socs = {s1, s2, s3}
    Founded = {s1}
    Names = {"n"}
    LongNames = {"n"}
    Tiers = {"BASIC", "PRO"}
    NewStatuses = {"ACTIVE", "SUSPENDED"}
    Phones = {"p"}
    Emails = {"e"}
    FirstAdmins <- MCFirstAdmins
    FirstTiers = {"BASIC"}
    Handlers = {r1, r2}
    MaxUsers = 2
    MaxRequests = 2
    MaxOverlaps = 2
    MaxAborts = 1
SYMMETRY Symmetry
INVARIANT
    OwnDatabase
CHECK_DEADLOCK FALSE
