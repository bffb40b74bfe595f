SPECIFICATION Spec
CONSTANTS
    Socs = {s1, s2, s3}
    Founded = {s1}
    Names = {"n"}
    LongNames = {}
    Tiers = {"BASIC", "PRO"}
    NewStatuses = {"ACTIVE", "SUSPENDED"}
    Phones = {"p"}
    Emails = {"e"}
    FirstAdmins <- MCFirstAdmins
    FirstTiers = {"BASIC"}
    Handlers = {r1, r2}
    MaxUsers = 2
    MaxRequests = 3
    MaxOverlaps = 3
    MaxAborts = 1
SYMMETRY Symmetry
INVARIANTS
    CacheIsCurrent
    EntitlementsFollow
PROPERTIES
    RebuildAgrees
CHECK_DEADLOCK FALSE
