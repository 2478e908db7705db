SPECIFICATION FairSpec
CONSTANTS
    c1 = c1  c2 = c2  c3 = c3
    Conns = {c1, c2, c3}
    Present = {c1, c2}
    Slow = {c2}
    MaxChats <- MCMaxChats
    MaxChanges <- MCMaxChanges
    None = None
CHECK_DEADLOCK FALSE
INVARIANTS SameOrder
PROPERTIES ImplementsBroadcast SpeakersEnd
