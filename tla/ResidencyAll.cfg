SPECIFICATION Spec
CONSTANTS
    Persons = {p1, p2}
    Units = {u1, u2}
    Slots = {s1}
    Cars = {k1}
    First = p1
    Home = u1
    NewKinds = {"TENANT"}
    Copies = {TRUE, FALSE}
    MaxPeople = 4
    Handlers = {r1, r2}
    MaxRequests = 3
    MaxOverlaps = 2
    MaxAborts = 1
SYMMETRY Symmetry
INVARIANTS
    CountersTrue
    SlotListed
PROPERTIES
    
    Registered
CHECK_DEADLOCK FALSE
