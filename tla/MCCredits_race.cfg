SPECIFICATION Spec
CONSTANTS
    r1 = r1
    r2 = r2
    k1 = k1
    k2 = k2
    k3 = k3
    Requests = {r1, r2}
    Residents = {u1}
    Keys = {k1}
    KeysOf <- SharedKeys
    Amounts = {1}
    MaxCredit = 15
    None = None
    MaxFaults = 0
INVARIANTS AppliedOnce
CHECK_DEADLOCK FALSE
