SPECIFICATION Spec
CONSTANTS
    Requests = {r1}
    Points = {p1}
    Users <- MCUsers
    Resolutions <- MCResolutions
    ReportedTypes = {"overflow", "other"}
    ReportedPoints = {p1}
    None = None
    MaxIncidents = 3
    MaxFaults = 0
INVARIANTS OverflowReportedOnce
CHECK_DEADLOCK FALSE
