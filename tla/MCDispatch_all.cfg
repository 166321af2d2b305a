SPECIFICATION Spec
CONSTANTS
    Tasks = {t1}
    Vehicles = {v1}
    Points = {p1}
    Drivers = {"d1"}
    None = None
    Requests = {r1, r2}
    Ops <- AllOps
    Kgs = {0, 2}
    Capacity <- MCCapacity
    StaleAge = 1
    MaxTime = 2
    MaxVersion = 2
    MaxFaults = 1
SYMMETRY Symmetry
INVARIANTS TypeOK PendingWritesLegal HistoryConsistent
PROPERTIES OutcomeFinal ImplementsAtomic
CHECK_DEADLOCK FALSE
