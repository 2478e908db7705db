SPECIFICATION FairSpec
CONSTANTS
    h1 = h1  h2 = h2
    MaxAttach = 1
    Handlers = {h1, h2}
    Flaky = TRUE
    MaxGo = 1
    None = None
CHECK_DEADLOCK FALSE
INVARIANTS TypeOK OneConnection OpenIsAttached Watched ConnectingEnds
PROPERTIES Retries ClosedEnds
