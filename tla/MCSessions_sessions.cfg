SPECIFICATION Spec
CONSTANTS
    Users = {u1, u2}
    Names = {n1}
    Tokens = {k1, k2}
    Requests = {r1, r2}
    Schemes = {"Bearer"}
    Expiry = 0
    Retention = 0
    None = None
    MaxTime = 1
    MaxFaults = 1
SYMMETRY Symmetry
INVARIANTS TypeOK SessionsOwned
PROPERTIES StaysOver LogoutSettles
CHECK_DEADLOCK FALSE
