SPECIFICATION FairSpec
CONSTANTS
    Requests = {r1, r2}
    Points = {p1}
    Users <- MCUsers
    Resolutions <- MCResolutions
    ReportedTypes = {"overflow", "other"}
    ReportedPoints = {p1}
    None = None
    MaxIncidents = 2
    MaxFaults = 1
INVARIANTS TypeOK RowsWhole RepeatsExplained
PROPERTIES NeverReopened OverflowReported
CHECK_DEADLOCK FALSE
