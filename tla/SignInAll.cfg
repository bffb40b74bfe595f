SPECIFICATION Spec
CONSTANTS
    Devices = {d1, d2, d3}
    MaxDevices = 2
    MaxTries = 1
    HourlyCap = 1
    LockAfter = 2
    Handlers = {r1, r2}
    MaxRequests = 3
    MaxAborts = 1
SYMMETRY Symmetry
INVARIANTS
    DevicesBounded
    SpentStaysSpent
    
CHECK_DEADLOCK FALSE
