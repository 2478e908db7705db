SPECIFICATION FairSpec
CONSTANTS
    c1 = c1  m1 = m1  p1 = p1
    Conns = {c1, m1, p1}
    Kind <- MCKind
    Results = {0, 1}
    MaxReports = 2
CHECK_DEADLOCK FALSE
INVARIANTS TypeOK StatusKnown GracefulReturn
PROPERTIES Stops
