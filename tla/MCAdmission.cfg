SPECIFICATION Spec
CONSTANTS
    k1 = k1  k2 = k2  k3 = k3  s1 = s1  s2 = s2  t1 = t1  t3 = t3
    Keys = {k1, k2, k3}
    Sockets = {s1, s2}
    IDs = {t1, t3}
    IDOf <- MCIDOf
    Basic = {k3}
    KeyLife = 1
    TokenLife = 1
    MaxTime = 4
    None = None
SYMMETRY MCSymmetry
CHECK_DEADLOCK FALSE
INVARIANTS UsedOnce
PROPERTIES PurgeComplete RefreshedKept ImplementsTickets
