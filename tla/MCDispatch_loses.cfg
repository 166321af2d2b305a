SPECIFICATION Spec
CONSTANTS
    Tasks = {t1}
    Vehicles = {v1}
    Points = {p1}
    Drivers = {"d1"}
    None = None
    Requests = {r1, r2}
    Ops <- RoutedOps
    Kgs = {1}
    Capacity <- MCCapacity
    StaleAge = 1
    MaxTime = 0
    MaxVersion = 3
    MaxFaults = 0
SYMMETRY Symmetry
PROPERTIES CompletionUpdatesLoad
CHECK_DEADLOCK FALSE
