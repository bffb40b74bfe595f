SPECIFICATION Spec
CONSTANTS
    Complaints = {c1}
    Vendors = {v1, v2}
    MaxOrders = 2
    Handlers = {r1, r2}
    MaxRequests = 4
    MaxAborts = 1
SYMMETRY Symmetry
INVARIANTS
    InStep
    EscalatedOnce
PROPERTIES
    RecountRepairs
CHECK_DEADLOCK FALSE
