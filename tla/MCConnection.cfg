SPECIFICATION FairSpec
CONSTANTS
    s1 = s1  s2 = s2  x1 = x1  cb1 = cb1  cb2 = cb2
    Reader = Reader  Writer = Writer
    None = None
    Senders = {s1}
    Closers = {x1}
    Callbacks = {cb1}
    SendCap = 2
    PingCap = 1
    MaxSends = 1
CHECK_DEADLOCK FALSE
INVARIANTS NoPanic CallbackOnce NoneStranded
PROPERTIES ImplementsOutbox CallbackRuns TornDown
