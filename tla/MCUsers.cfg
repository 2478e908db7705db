SPECIFICATION Spec
CONSTANTS
    c1 = c1
    c2 = c2
    c3 = c3
    u1 = u1
    u2 = u2
    s1 = s1
    Conns = {c1, c2, c3}
    UserIDs = {u1, u2}
    UserOf <- MCUserOf
    Shards = {s1}
    ShardOf <- MCShardOf
    Lookups = {l1}
    Purger = Purger
    Stray = Stray
    None = None
SYMMETRY MCSymmetry
INVARIANTS TypeOK RegisteredOnce DisconnectFindsConnection OnlyPurgeBlocks
PROPERTIES ImplementsPresence
CHECK_DEADLOCK FALSE
