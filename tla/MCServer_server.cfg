SPECIFICATION ServerFairSpec
CONSTANTS
    Tasks = {t1, t2}
    Vehicles = {v1}
    Points = {p1}
    Drivers = {"d1"}
    None = None
    Requests = {r1, r2}
    Ops <- StopRunOps
    Kgs = {2}
    Capacity <- MCCapacity
    StaleAge = 0
    MaxTime = 1
    MaxVersion = 2
    MaxFaults = 1
    MaxStops = 1
PROPERTIES RecoversOnlyStale AnswersTrue CollectionsAccounted RecoversOnceUp
CHECK_DEADLOCK FALSE
