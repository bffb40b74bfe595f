SPECIFICATION Spec
CONSTANTS
    Passes = {q1, q2}
    Guards = {g1, g2}
    RequestIds = {c1}
    Allowances = {1, 2}
    MaxRequests = 4
    q1 = q1
    q2 = q2
    g1 = g1
    g2 = g2
    c1 = c1
SYMMETRY Symmetry
INVARIANTS
    ScansAreCharged
    AdmittedWasApproved
    CrossingsInOrder
PROPERTIES
    PassPromise
    ExpiryKeepsDecisions
CHECK_DEADLOCK FALSE
