SPECIFICATION ServerSpec
CONSTANTS
    Tasks = {t1}
    Vehicles = {v1}
    Points = {p1}
    Drivers = {"d1"}
    None = None
    Requests = {r1, r2}
    Ops <- VehicleRunOps
    Kgs = {1}
    Capacity <- MCCapacity
    StaleAge = 1
    MaxTime = 0
    MaxVersion = 3
    MaxFaults = 0
    MaxStops = 1
SYMMETRY Symmetry
PROPERTIES ConflictTold
CHECK_DEADLOCK FALSE
