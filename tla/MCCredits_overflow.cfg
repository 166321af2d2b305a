SPECIFICATION Spec
CONSTANTS
    r1 = r1
    r2 = r2
    k1 = k1
    k2 = k2
    k3 = k3
    Requests = {r1}
    Residents = {u1}
    Keys = {k1, k2, k3}
    KeysOf <- SharedKeys
    Amounts = {1, 2}
    MaxCredit = 3
    None = None
    MaxFaults = 0
PROPERTIES EarnAdds
CHECK_DEADLOCK FALSE
