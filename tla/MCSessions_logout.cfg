SPECIFICATION Spec
CONSTANTS
    Users = {u1, u2}
    Names = {n1}
    Tokens = {k1, k2}
    Requests = {r1, r2}
    Schemes = {"Bearer", "bearer"}
    Expiry = 0
    Retention = 0
    None = None
    MaxTime = 1
    MaxFaults = 0
SYMMETRY Symmetry
PROPERTIES LogoutRevokes
CHECK_DEADLOCK FALSE
