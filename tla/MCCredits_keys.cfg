SPECIFICATION Spec
CONSTANTS
    r1 = r1
    r2 = r2
    k1 = k1
    k2 = k2
    k3 = k3
    Requests = {r1, r2}
    Residents = {u1, u2}
    Keys = {k1, k2}
    KeysOf <- MixedKeys
    Amounts = {1, 2}
    MaxCredit = 31
    None = None
    MaxFaults = 1
SYMMETRY Symmetry
INVARIANTS TypeOK RetriesBounded Reconciled NeverOverdrawn EntriesBacked
PROPERTIES LandsOnStored AccountsKept
CHECK_DEADLOCK FALSE
