SPECIFICATION Spec
CONSTANTS
    Tasks = {t1, t2}
    Vehicles = {v1}
    Points = {p1}
    Drivers = {"d1"}
    None = None
    Requests = {r1, r2}
    Ops <- RoutedOps
    Kgs = {0, 1, 2}
    Capacity <- MCCapacity
    StaleAge = 1
    MaxTime = 0
    MaxVersion = 3
    MaxFaults = 1
SYMMETRY Symmetry
INVARIANTS CollectedOnce CollectionMatchesTask StatusMatchesLoad DriverMatchesStatus ReferencesLive
CHECK_DEADLOCK FALSE
