SPECIFICATION Spec
CONSTANTS
    c1 = c1  c2 = c2  c3 = c3
    u1 = u1  u2 = u2
    Conns = {c1, c2, c3}
    UserIDs = {u1, u2}
    UserOf <- MCUserOf
    MaxChanges <- MCMaxChanges
    MaxResets = 1
    None = None
SYMMETRY MCSymmetry
CHECK_DEADLOCK FALSE
INVARIANTS TypeOK CurrentListSent
