SPECIFICATION Spec
CONSTANTS
    Expenses = {x1}
    Handlers = {r1, r2}
    Amounts = {1, 2}
    Manuals <- MCManuals
    MaxRequests = 3
    MaxAborts = 1
    x1 = x1
    r1 = r1
    r2 = r2
SYMMETRY Symmetry
INVARIANTS
    LedgerExplained
PROPERTIES
    
    PaidStays
CHECK_DEADLOCK FALSE
